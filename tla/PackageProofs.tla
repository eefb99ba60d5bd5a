---------------------------- MODULE PackageProofs -----------------------------
(***************************************************************************)
(* What holds of packages on the way to a contest, from the files of a     *)
(* session to the directories of an ejudge host.                           *)
(*                                                                         *)
(* The packages of a session, for any number of files, builds, edits and   *)
(* failed calls: the three safety properties of PackageBuild, from one     *)
(* inductive invariant (BInv).  A file in a push is what its row holds     *)
(* (FileOK), a package a build made holds what the build wrote             *)
(* (VerdictOK), a build has asked for one package a round (PackOK), and    *)
(* its repairs are counted before they are made (FixOK).                   *)
(*                                                                         *)
(* The exports, for any number of jobs, problems, contests and failures:   *)
(* the properties of ContestExport, from one inductive invariant           *)
(* (ExportIInv).  In a contest where no two writers met, an upload has a   *)
(* name of its own (StampsDiffer) and is still there when it is moved      *)
(* (UploadsWait), its writer is alone and has read what is in serve.cfg    *)
(* (WritersAlone), and until it has written, the backup is what the old    *)
(* section was made from (BackupsKept).                                    *)
(***************************************************************************)
EXTENDS PackageBuild, ContestExport, SumProofs, TLAPS

Fields == {"pc", "file", "content", "before", "sure", "tries", "attempts", "result",
           "package", "groups", "rounds", "fixes"}
BuildSteps == {"new", "prepare", "ids", "commit", "trigger", "poll", "fix", "upsert", "push",
               "mark", "commitFile", "finalize", "apply", "failing", "ended"}
EditSteps == {"new", "upsert", "push", "mark", "commitFile", "loaded", "ended"}
PackageType == [by : Builds \cup {None}, revision : [Files -> Nat],
                state : {"queued", "pending", "READY", "FAILED"}, culprit : Files \cup {None}]

\* A build or an edit; a repair names a file, and its counts are in bounds.
Shape(j) == /\ DOMAIN j = Fields /\ j.file \in Files \cup {None} /\ j.content \in Nat
            /\ j.sure \in BOOLEAN /\ j.rounds \in Nat
            /\ j.attempts \in [Files -> Nat] /\ j.fixes \in [Files -> Nat]
            /\ j.pc \in {"fix", "upsert", "push", "mark", "commitFile"} => j.file \in Files
FixOK(j) ==
    /\ \A f \in Files : j.fixes[f] <= j.attempts[f] /\ j.attempts[f] <= MaxFileFixAttempts
    /\ SumOf(j.attempts, Files) <= MaxTotal
    /\ j.pc = "fix" => j.fixes[j.file] < j.attempts[j.file]
    /\ j.pc \in {"new", "prepare", "ids", "commit", "trigger", "poll"} /\ j.file = None
         => j.attempts = NoAttempts
    /\ j.pc \in {"new", "prepare"} => j.file = None

\* The packages of b among pk, and the rounds it has asked for one in.
PackagesOf(pk, b) == {i \in DOMAIN pk : pk[i].by = b}
PackOK(b, j, pk) ==
    /\ j.pc # "ended" => Cardinality(PackagesOf(pk, b)) <= j.rounds
    /\ j.pc = "trigger" => Cardinality(PackagesOf(pk, b)) < j.rounds
    /\ j.pc = "new" => Cardinality(PackagesOf(pk, b)) = 0
    /\ j.pc \in {"commit", "trigger"} /\ j.sure => j.before = DOMAIN pk

\* The packages b made hold what it wrote: wk and rv are the working copy and
\* the revision, rc the files two requests wrote at once.
VerdictOK(b, j, pk, wk, rv, rc) ==
    LET mine(i) == /\ pk[i].by = b
                   /\ j.file \in Files \ rc => pk[i].revision[j.file] >= j.content
    IN  /\ j.file \in Files \ rc =>
             /\ j.pc \in {"commitFile", "ids", "commit", "trigger"} => wk[j.file] >= j.content
             /\ j.pc = "trigger" => rv[j.file] >= j.content
        /\ j.pc = "poll" /\ j.sure => \A i \in DOMAIN pk \ j.before : mine(i)
        /\ j.pc \in {"finalize", "apply"} /\ j.result = "done" =>
             /\ j.package \in DOMAIN pk /\ pk[j.package].state = "READY"
             /\ j.sure => mine(j.package)

\* A file nobody raced for: what is sent is what the row holds.
FileOK(f) ==
    /\ store[f].uploaded => working[f] = store[f].content
    /\ working[f] <= newest[f]
    /\ \A a \in Actors :
         /\ job[a].pc \in {"push", "mark"} /\ job[a].file = f =>
              store[f].content = job[a].content /\ newest[f] = job[a].content
         /\ job[a].pc = "mark" /\ job[a].file = f => working[f] = job[a].content
         /\ job[a].pc = "loaded" => job[a].attempts[f] = working[f]

Pairs == {<<"statement", "idle">>, <<"done", "done">>,
          <<"fixing_errors", "waiting_manual_fix">>, <<"failed", "failed">>}
Shown == /\ stage = "done" => packageId \in DOMAIN packages /\ packages[packageId].state = "READY"
         /\ Running = {} /\ lost = {} => <<stage, status>> \in Pairs

BuildType ==
    /\ store \in [Files -> [content : Nat, uploaded : BOOLEAN]]
    /\ working \in [Files -> Nat] /\ revision \in [Files -> Nat] /\ newest \in [Files -> Nat]
    /\ packages \in Seq(PackageType)
    /\ DOMAIN job = Actors
    /\ \A a \in Actors : Shape(job[a])
    /\ \A b \in Builds : job[b].pc \in BuildSteps
    /\ \A e \in Edits : job[e].pc \in EditSteps

BInv ==
    /\ BuildType
    /\ \A f \in Files \ raced : FileOK(f)
    /\ \A b, c \in Running : b = c
    /\ \A b \in Builds : /\ FixOK(job[b]) /\ PackOK(b, job[b], packages)
                         /\ VerdictOK(b, job[b], packages, working, revision, raced)
    /\ Shown
-----------------------------------------------------------------------------
LEMMA FilesFinite == IsFiniteSet(Files) /\ None \notin Files /\ MaxFileFixAttempts \in Nat
  BY BuildAssumption

\* One more try of a file is one more try.
LEMMA SumBump ==
  ASSUME NEW w \in [Files -> Nat], NEW f \in Files
  PROVE  LET v == [w EXCEPT ![f] = @ + 1]
         IN  v \in [Files -> Nat] /\ SumOf(v, Files) = SumOf(w, Files) + 1
             /\ SumOf(w, Files) \in Nat
  <1> DEFINE v == [w EXCEPT ![f] = @ + 1]
             T == Files \ {f}
  <1>1. v \in [Files -> Nat] /\ v[f] = w[f] + 1 /\ \A g \in T : v[g] = w[g]
    OBVIOUS
  <1>2. \A g \in Files : v[g] \in Nat /\ w[g] \in Nat
    BY <1>1
  <1> HIDE DEF v
  <1>3. SumOf(v, Files) = v[f] + SumOf(v, T) /\ SumOf(w, Files) = w[f] + SumOf(w, T)
        /\ SumOf(w, Files) \in Nat /\ SumOf(w, T) \in Nat
    BY <1>2, FilesFinite, SumTakes
  <1>4. SumOf(v, T) = SumOf(w, T)
    <2>1. IsFiniteSet(T) /\ \A g \in T : w[g] \in Nat /\ v[g] = w[g]
      BY <1>1, <1>2, FilesFinite, FS_Subset
    <2> HIDE DEF T
    <2>2. QED
      BY <2>1, SumSame
  <1> HIDE DEF T
  <1>5. SumOf(v, Files) = SumOf(w, Files) + 1
    BY <1>1, <1>2, <1>3, <1>4
  <1>6. QED
    BY <1>1, <1>3, <1>5 DEF v

LEMMA AttemptIs ==
  ASSUME NEW j, Shape(j), FixOK(j), NEW f \in Files
  PROVE  LET k == Attempt(j, f)
         IN  /\ Shape(k) /\ FixOK(k) /\ k.pc \in {"fix", "apply"}
             /\ k.pc = "apply" => k.result = "manual_fix"
             /\ k.rounds = j.rounds
  <1> DEFINE room == /\ MapThenSumSet(LAMBDA g : j.attempts[g], Files) < MaxTotal
                     /\ j.attempts[f] < MaxFileFixAttempts
             more == [j EXCEPT !.pc = "fix", !.file = f, !.attempts[f] = @ + 1]
             over == [j EXCEPT !.pc = "apply", !.result = "manual_fix", !.file = f]
             v == [j.attempts EXCEPT ![f] = @ + 1]
  <1>1. DOMAIN j = Fields
    BY DEF Shape
  <1>2. CASE ~room
    <2>1. Attempt(j, f) = over
      BY <1>2 DEF Attempt
    <2>2. /\ DOMAIN over = Fields /\ over.pc = "apply" /\ over.result = "manual_fix" /\ over.file = f
          /\ over.content = j.content /\ over.sure = j.sure /\ over.rounds = j.rounds
          /\ over.attempts = j.attempts /\ over.fixes = j.fixes
      BY <1>1 DEF Fields
    <2> HIDE DEF over
    <2>3. Shape(over) /\ FixOK(over)
      BY <2>2 DEF Shape, FixOK
    <2>4. QED
      BY <2>1, <2>2, <2>3
  <1>3. CASE room
    <2>1. Attempt(j, f) = more
      BY <1>3 DEF Attempt
    <2>2. /\ DOMAIN more = Fields /\ more.pc = "fix" /\ more.result = j.result /\ more.file = f
          /\ more.content = j.content /\ more.sure = j.sure /\ more.rounds = j.rounds
          /\ more.attempts = v /\ more.fixes = j.fixes
      BY <1>1 DEF Fields
    <2>3. /\ v \in [Files -> Nat] /\ SumOf(v, Files) = SumOf(j.attempts, Files) + 1
          /\ SumOf(j.attempts, Files) \in Nat
      BY SumBump DEF Shape
    <2>4. SumOf(j.attempts, Files) < MaxTotal /\ j.attempts[f] < MaxFileFixAttempts
      BY <1>3 DEF SumOf
    <2>5. /\ v[f] = j.attempts[f] + 1 /\ \A g \in Files \ {f} : v[g] = j.attempts[g]
          /\ j.attempts \in [Files -> Nat] /\ j.fixes \in [Files -> Nat]
      BY DEF Shape
    <2> HIDE DEF more, v, room
    <2>6. Shape(more)
      BY <2>2, <2>3 DEF Shape
    <2>7. \A g \in Files : more.fixes[g] <= more.attempts[g] /\ more.attempts[g] <= MaxFileFixAttempts
      <3> SUFFICES ASSUME NEW g \in Files
                   PROVE  j.fixes[g] <= v[g] /\ v[g] <= MaxFileFixAttempts
        BY <2>2
      <3>1. j.fixes[g] <= j.attempts[g] /\ j.attempts[g] <= MaxFileFixAttempts
        BY DEF FixOK
      <3>2. QED
        BY <2>4, <2>5, <3>1, FilesFinite
    <2>8. j.fixes[f] < v[f]
      <3>1. j.fixes[f] <= j.attempts[f] /\ j.fixes[f] \in Nat /\ j.attempts[f] \in Nat
        BY <2>5 DEF FixOK
      <3>2. QED
        BY <2>5, <3>1
    <2>9. SumOf(v, Files) <= MaxTotal
      BY <2>3, <2>4, FilesFinite DEF MaxTotal
    <2>10. FixOK(more)
      BY <2>2, <2>7, <2>8, <2>9 DEF FixOK
    <2>11. QED
      BY <2>1, <2>2, <2>6, <2>10
  <1>4. QED
    BY <1>2, <1>3

\* A package more.
LEMMA PackageAppended ==
  ASSUME NEW pk \in Seq(PackageType), NEW x \in PackageType, NEW b
  PROVE  LET n == Len(pk) + 1
             qk == Append(pk, x)
         IN  /\ qk \in Seq(PackageType) /\ DOMAIN qk = DOMAIN pk \cup {n} /\ n \notin DOMAIN pk
             /\ qk[n] = x /\ \A i \in DOMAIN pk : qk[i] = pk[i]
             /\ Cardinality(PackagesOf(pk, b)) \in Nat
             /\ Cardinality(PackagesOf(qk, b)) =
                  Cardinality(PackagesOf(pk, b)) + (IF x.by = b THEN 1 ELSE 0)
  <1> DEFINE n == Len(pk) + 1
             qk == Append(pk, x)
  <1>1. /\ qk \in Seq(PackageType) /\ DOMAIN qk = DOMAIN pk \cup {n} /\ n \notin DOMAIN pk
        /\ qk[n] = x /\ \A i \in DOMAIN pk : qk[i] = pk[i]
    OBVIOUS
  <1>2. IsFiniteSet(PackagesOf(pk, b)) /\ n \notin PackagesOf(pk, b)
    <2>1. IsFiniteSet(1..Len(pk))
      <3>1. 1 \in Int /\ Len(pk) \in Int
        OBVIOUS
      <3>2. QED
        BY <3>1, FS_Interval
    <2>2. PackagesOf(pk, b) \subseteq 1..Len(pk)
      BY DEF PackagesOf
    <2>3. QED
      BY <1>1, <2>1, <2>2, FS_Subset DEF PackagesOf
  <1> HIDE DEF qk, n
  <1>3. Cardinality(PackagesOf(pk, b)) \in Nat
    BY <1>2, FS_CardinalityType
  <1>4. PackagesOf(qk, b) = IF x.by = b THEN PackagesOf(pk, b) \cup {n} ELSE PackagesOf(pk, b)
    BY <1>1 DEF PackagesOf
  <1>5. Cardinality(PackagesOf(pk, b) \cup {n}) = Cardinality(PackagesOf(pk, b)) + 1
    BY <1>2, FS_AddElement
  <1>6. QED
    BY <1>1, <1>3, <1>4, <1>5 DEF qk, n
-----------------------------------------------------------------------------
\* What a step of one actor leaves as it is.
LEMMA OneMoves ==
  ASSUME BInv, NEW a \in Actors, NEW k, job' = [job EXCEPT ![a] = k]
  PROVE  /\ DOMAIN job' = Actors /\ job'[a] = k /\ \A o \in Actors : o # a => job'[o] = job[o]
         /\ Shape(job[a])
         /\ a \in Builds => FixOK(job[a]) /\ PackOK(a, job[a], packages)
                            /\ VerdictOK(a, job[a], packages, working, revision, raced)
         /\ a \in Builds => a \notin Edits
         /\ a \in Builds => (a \in Running <=> job[a].pc \notin {"new", "ended"})
  BY BuildAssumption DEF BInv, BuildType, Actors, Running

LEMMA FilesStay ==
  ASSUME BInv, NEW a \in Actors, NEW k, job' = [job EXCEPT ![a] = k], UNCHANGED files,
         k.pc \notin {"push", "mark", "loaded"}
  PROVE  /\ \A f \in Files \ raced' : FileOK(f)' /\ working[f] <= working'[f]
         /\ store' \in [Files -> [content : Nat, uploaded : BOOLEAN]]
         /\ working' \in [Files -> Nat] /\ newest' \in [Files -> Nat] /\ raced \subseteq raced'
  <1>1. store' = store /\ working' = working /\ newest' = newest /\ raced' = raced
    BY DEF files
  <1>2. job'[a] = k /\ \A o \in Actors : o # a => job'[o] = job[o]
    BY OneMoves
  <1>3. ASSUME NEW f \in Files \ raced' PROVE FileOK(f)'
    BY <1>1, <1>2, <1>3 DEF BInv, FileOK
  <1>4. \A f \in Files : working[f] <= working'[f]
    BY <1>1 DEF BInv, BuildType
  <1>5. QED
    BY <1>1, <1>3, <1>4 DEF BInv, BuildType

LEMMA ShownStays ==
  ASSUME BInv, NEW a \in Actors, NEW k, job' = [job EXCEPT ![a] = k],
         UNCHANGED <<packages, session, lost>>,
         a \in Builds => k.pc \notin {"new", "ended"}
  PROVE  Shown'
  <1>1. job'[a] = k /\ \A o \in Actors : o # a => job'[o] = job[o]
    BY OneMoves
  <1>2. Running' = {} => Running = {}
    <2> SUFFICES ASSUME NEW c \in Running, Running' = {} PROVE FALSE
      OBVIOUS
    <2>1. c \in Builds /\ job[c].pc \notin {"new", "ended"} /\ c \in Actors
      BY DEF Running, Actors
    <2>2. job'[c].pc \in {"new", "ended"}
      BY <2>1 DEF Running
    <2>3. c = a
      BY <1>1, <2>1, <2>2
    <2>4. QED
      BY <1>1, <2>1, <2>2, <2>3
  <1>3. QED
    BY <1>2 DEF BInv, Shown, session

LEMMA ActorMoves ==
  ASSUME BInv, NEW a \in Actors, NEW k, job' = [job EXCEPT ![a] = k], Shape(k),
         a \in Edits => k.pc \in EditSteps,
         a \in Builds => /\ k.pc \in BuildSteps \ {"new"} /\ (a \in Running \/ Running = {})
                         /\ FixOK(k) /\ PackOK(a, k, packages)
                         /\ VerdictOK(a, k, packages, working', revision', raced'),
         \A f \in Files \ raced' : FileOK(f)' /\ working[f] <= working'[f],
         store' \in [Files -> [content : Nat, uploaded : BOOLEAN]],
         working' \in [Files -> Nat], newest' \in [Files -> Nat], raced \subseteq raced',
         packages' = packages, revision' \in {revision, working}, Shown'
  PROVE  BInv'
  <1>1. /\ DOMAIN job' = Actors /\ job'[a] = k /\ \A o \in Actors : o # a => job'[o] = job[o]
        /\ a \in Builds => a \notin Edits
    BY OneMoves
  <1>2. BuildType'
    BY <1>1 DEF BInv, BuildType, Actors
  <1>3. \A b, c \in Running' : b = c
    <2>1. \A c \in Running' : c \in Running \/ (c = a /\ a \in Builds)
      BY <1>1 DEF Running, Actors
    <2>2. QED
      BY <2>1 DEF BInv
  <1>4. ASSUME NEW b \in Builds
        PROVE  (FixOK(job[b]) /\ PackOK(b, job[b], packages)
                /\ VerdictOK(b, job[b], packages, working, revision, raced))'
    <2>1. CASE b = a
      BY <1>1, <2>1 DEF FixOK, PackOK, VerdictOK, PackagesOf, NoAttempts, MaxTotal
    <2>2. CASE b # a
      <3> DEFINE j == job[b]
      <3>1. /\ j = job'[b] /\ FixOK(j) /\ PackOK(b, j, packages)
            /\ VerdictOK(b, j, packages, working, revision, raced) /\ Shape(j)
        BY <1>1, <2>2 DEF BInv, BuildType, Actors
      <3>2. VerdictOK(b, j, packages, working', revision', raced')
        <4>1. j.content \in Nat
          BY <3>1 DEF Shape
        <4>2. \A f \in Files \ raced' : /\ f \notin raced /\ working[f] <= working'[f]
                                        /\ working[f] \in Nat /\ working'[f] \in Nat
          BY DEF BInv, BuildType
        <4>3. ASSUME j.file \in Files \ raced',
                     j.pc \in {"commitFile", "ids", "commit", "trigger"}
              PROVE  working'[j.file] >= j.content
          BY <3>1, <4>1, <4>2, <4>3 DEF VerdictOK
        <4>4. ASSUME j.file \in Files \ raced', j.pc = "trigger"
              PROVE  revision'[j.file] >= j.content
          BY <3>1, <4>1, <4>2, <4>4 DEF VerdictOK
        <4> HIDE DEF j
        <4>5. QED
          BY <3>1, <4>2, <4>3, <4>4 DEF VerdictOK
      <3> HIDE DEF j
      <3>3. QED
        BY <3>1, <3>2
    <2>3. QED
      BY <2>1, <2>2
  <1>5. QED
    BY <1>2, <1>3, <1>4 DEF BInv
-----------------------------------------------------------------------------
\* The steps of a build that leave files and packages alone.
LEMMA PcSet ==
  ASSUME NEW j, DOMAIN j = Fields, NEW x
  PROVE  LET k == [j EXCEPT !.pc = x]
         IN  /\ DOMAIN k = Fields /\ k.pc = x
             /\ \A l \in Fields \ {"pc"} : k[l] = j[l]
             /\ k.file = j.file /\ k.content = j.content /\ k.before = j.before /\ k.sure = j.sure
             /\ k.attempts = j.attempts /\ k.result = j.result /\ k.package = j.package
             /\ k.rounds = j.rounds /\ k.fixes = j.fixes
  BY DEF Fields

LEMMA BuildMoves ==
  ASSUME BInv, NEW b \in Builds, NEW k, job' = [job EXCEPT ![b] = k], Shape(k),
         k.pc \in BuildSteps \ {"new", "push", "mark"}, b \in Running \/ Running = {},
         UNCHANGED files, UNCHANGED packages, revision' \in {revision, working},
         FixOK(k), PackOK(b, k, packages),
         VerdictOK(b, k, packages, working, revision', raced), Shown'
  PROVE  BInv'
  <1>1. b \in Actors /\ b \notin Edits /\ k.pc \notin {"push", "mark", "loaded"}
    BY BuildAssumption DEF Actors, BuildSteps
  <1>2. /\ \A f \in Files \ raced' : FileOK(f)' /\ working[f] <= working'[f]
        /\ store' \in [Files -> [content : Nat, uploaded : BOOLEAN]]
        /\ working' \in [Files -> Nat] /\ newest' \in [Files -> Nat] /\ raced \subseteq raced'
    BY <1>1, FilesStay
  <1>3. working' = working /\ raced' = raced
    BY DEF files
  <1>4. VerdictOK(b, k, packages, working', revision', raced')
    BY <1>3
  <1>5. QED
    BY <1>1, <1>2, <1>4, ActorMoves

LEMMA StartBuildKeeps ==
  ASSUME BInv, NEW b \in Builds, StartBuild(b)
  PROVE  BInv'
  <1> DEFINE k == [job[b] EXCEPT !.pc = "prepare"]
  <1>1. /\ job' = [job EXCEPT ![b] = k] /\ job[b].pc = "new" /\ Running = {}
        /\ UNCHANGED <<files, polygon, lost>> /\ stage' = "building_package"
    BY DEF StartBuild, Go, At
  <1>2. b \in Actors /\ Shape(job[b]) /\ FixOK(job[b]) /\ PackOK(b, job[b], packages) /\ job'[b] = k
    <2>1. b \in Actors
      BY DEF Actors
    <2> HIDE DEF k
    <2>2. QED
      BY <1>1, <2>1, OneMoves
  <1>3. /\ DOMAIN k = Fields /\ k.pc = "prepare" /\ k.file = job[b].file /\ k.content = job[b].content
        /\ k.sure = job[b].sure /\ k.attempts = job[b].attempts /\ k.rounds = job[b].rounds
        /\ k.fixes = job[b].fixes
    BY <1>2, PcSet DEF Shape
  <1> HIDE DEF k
  <1>4. Shape(k) /\ FixOK(k) /\ PackOK(b, k, packages)
    BY <1>1, <1>2, <1>3 DEF Shape, FixOK, PackOK
  <1>5. VerdictOK(b, k, packages, working, revision, raced)
    BY <1>3 DEF VerdictOK
  <1>6. b \in Running'
    BY <1>2, <1>3 DEF Running
  <1>7. Shown'
    BY <1>1, <1>6 DEF Shown
  <1>8. QED
    BY <1>1, <1>3, <1>4, <1>5, <1>7, BuildMoves DEF polygon, BuildSteps

LEMMA PrepareKeeps ==
  ASSUME BInv, NEW b \in Builds, Prepare(b)
  PROVE  BInv'
  <1>1. PICK g : job' = [job EXCEPT ![b] = [@ EXCEPT !.pc = "ids", !.groups = g]]
    BY DEF Prepare
  <1> DEFINE k == [job[b] EXCEPT !.pc = "ids", !.groups = g]
  <1>2. /\ job' = [job EXCEPT ![b] = k] /\ job[b].pc = "prepare"
        /\ UNCHANGED <<files, polygon, lost>> /\ stage' = "building_package"
    BY <1>1 DEF Prepare, At
  <1>3. /\ b \in Actors /\ b \in Running /\ Shape(job[b]) /\ FixOK(job[b])
        /\ PackOK(b, job[b], packages) /\ job'[b] = k
    <2>1. b \in Actors
      BY DEF Actors
    <2> HIDE DEF k
    <2>2. QED
      BY <1>2, <2>1, OneMoves
  <1>4. /\ DOMAIN k = Fields /\ k.pc = "ids" /\ k.file = job[b].file /\ k.content = job[b].content
        /\ k.sure = job[b].sure /\ k.attempts = job[b].attempts /\ k.rounds = job[b].rounds
        /\ k.fixes = job[b].fixes
    BY <1>3 DEF Shape, Fields
  <1> HIDE DEF k
  <1>5. Shape(k) /\ FixOK(k) /\ PackOK(b, k, packages) /\ k.file = None
    BY <1>2, <1>3, <1>4 DEF Shape, FixOK, PackOK
  <1>6. VerdictOK(b, k, packages, working, revision, raced)
    BY <1>4, <1>5, FilesFinite DEF VerdictOK
  <1>7. b \in Running'
    BY <1>3, <1>4 DEF Running
  <1>8. Shown'
    BY <1>2, <1>7 DEF Shown
  <1>9. QED
    BY <1>2, <1>3, <1>4, <1>5, <1>6, <1>8, BuildMoves DEF polygon, BuildSteps

\* A step to somewhere else that says nothing new.
LEMMA PlainStep ==
  ASSUME BInv, NEW b \in Builds, b \in Running, NEW k, job' = [job EXCEPT ![b] = k],
         Shape(k), FixOK(k), k.rounds = job[b].rounds,
         k.pc \in {"fix", "upsert", "apply", "failing"}, k.pc = "apply" => k.result # "done",
         UNCHANGED <<files, polygon, session, lost>>
  PROVE  BInv'
  <1>1. b \in Actors /\ PackOK(b, job[b], packages) /\ job[b].pc \notin {"new", "ended"}
    <2>1. b \in Actors
      BY DEF Actors
    <2>2. QED
      BY <2>1, OneMoves
  <1>2. PackOK(b, k, packages) /\ VerdictOK(b, k, packages, working, revision, raced)
    BY <1>1 DEF PackOK, VerdictOK
  <1>3. Shown'
    BY <1>1, ShownStays DEF polygon
  <1>4. QED
    BY <1>2, <1>3, BuildMoves DEF polygon, BuildSteps

LEMMA PackageIdsKeeps ==
  ASSUME BInv, NEW b \in Builds, PackageIds(b)
  PROVE  BInv'
  <1> DEFINE k == job'[b]
  <1>0. /\ b \in Actors /\ b \in Running /\ Shape(job[b]) /\ FixOK(job[b])
        /\ PackOK(b, job[b], packages) /\ job[b].pc = "ids" /\ DOMAIN job = Actors
        /\ VerdictOK(b, job[b], packages, working, revision, raced)
        /\ UNCHANGED <<files, polygon, session, lost>>
    BY DEF BInv, BuildType, Actors, PackageIds, At, Running
  <1>1. job' = [job EXCEPT ![b] = k]
    BY <1>0 DEF PackageIds
  <1>2. /\ DOMAIN k = Fields /\ k.pc = "commit" /\ k.file = job[b].file
        /\ k.content = job[b].content /\ k.attempts = job[b].attempts
        /\ k.rounds = job[b].rounds /\ k.fixes = job[b].fixes
        /\ k.sure \in BOOLEAN /\ (k.sure => k.before = DOMAIN packages)
    <2>1. CASE job' = [job EXCEPT ![b] = [job[b] EXCEPT !.pc = "commit", !.before = Listed,
                                                        !.sure = @ /\ Listed = DOMAIN packages]]
      <3>1. DOMAIN k = Fields /\ k.pc = "commit"
        BY <1>0, <2>1 DEF Shape, Fields
      <3>2. k.before = Listed /\ k.sure = (job[b].sure /\ Listed = DOMAIN packages)
        BY <1>0, <2>1 DEF Shape, Fields
      <3>3. /\ k.file = job[b].file /\ k.content = job[b].content
            /\ k.attempts = job[b].attempts /\ k.rounds = job[b].rounds /\ k.fixes = job[b].fixes
        BY <1>0, <2>1 DEF Shape, Fields
      <3> HIDE DEF k
      <3>4. QED
        BY <1>0, <3>1, <3>2, <3>3 DEF Shape
    <2>2. CASE job' = [job EXCEPT ![b] = [@ EXCEPT !.pc = "commit", !.before = {}, !.sure = FALSE]]
      BY <1>0, <2>2 DEF Shape, Fields
    <2>3. QED
      BY <2>1, <2>2 DEF PackageIds
  <1> HIDE DEF k
  <1>5. Shape(k) /\ FixOK(k) /\ PackOK(b, k, packages)
    BY <1>0, <1>2 DEF Shape, FixOK, PackOK
  <1>6. VerdictOK(b, k, packages, working, revision, raced)
    BY <1>0, <1>2 DEF VerdictOK
  <1>7. Shown'
    BY <1>0, <1>1, <1>2, ShownStays DEF polygon
  <1>8. QED
    BY <1>0, <1>1, <1>2, <1>5, <1>6, <1>7, BuildMoves DEF polygon, BuildSteps

LEMMA CommitWorkKeeps ==
  ASSUME BInv, NEW b \in Builds, CommitWork(b)
  PROVE  BInv'
  <1>0. /\ b \in Actors /\ b \in Running /\ Shape(job[b]) /\ FixOK(job[b])
        /\ PackOK(b, job[b], packages) /\ job[b].pc = "commit" /\ DOMAIN job = Actors
        /\ VerdictOK(b, job[b], packages, working, revision, raced)
        /\ UNCHANGED <<files, packages, session, lost>>
    BY DEF BInv, BuildType, Actors, CommitWork, At, Running
  <1>1. CASE /\ revision' = working
             /\ job' = [job EXCEPT ![b] = [job[b] EXCEPT !.pc = "trigger", !.tries = 0, !.rounds = @ + 1]]
    <2> DEFINE k == job'[b]
    <2>1. job' = [job EXCEPT ![b] = k]
      BY <1>0, <1>1
    <2>2. /\ DOMAIN k = Fields /\ k.pc = "trigger" /\ k.file = job[b].file
          /\ k.content = job[b].content /\ k.sure = job[b].sure /\ k.before = job[b].before
          /\ k.attempts = job[b].attempts /\ k.rounds = job[b].rounds + 1 /\ k.fixes = job[b].fixes
      BY <1>0, <1>1 DEF Shape, Fields
    <2> HIDE DEF k
    <2>3. Shape(k) /\ FixOK(k)
      BY <1>0, <2>2 DEF Shape, FixOK
    <2>4. PackOK(b, k, packages)
      <3>1. Cardinality(PackagesOf(packages, b)) <= job[b].rounds /\ job[b].rounds \in Nat
        BY <1>0 DEF PackOK, Shape
      <3>2. Cardinality(PackagesOf(packages, b)) \in Nat
        <4>1. packages \in Seq(PackageType)
          BY DEF BInv, BuildType
        <4>2. IsFiniteSet(DOMAIN packages)
          <5>1. 1 \in Int /\ Len(packages) \in Int /\ DOMAIN packages = 1..Len(packages)
            BY <4>1
          <5>2. QED
            BY <5>1, FS_Interval
        <4>3. IsFiniteSet(PackagesOf(packages, b))
          BY <4>2, FS_Subset DEF PackagesOf
        <4>4. QED
          BY <4>3, FS_CardinalityType
      <3>3. QED
        BY <1>0, <2>2, <3>1, <3>2 DEF PackOK
    <2>5. VerdictOK(b, k, packages, working, revision', raced)
      BY <1>0, <1>1, <2>2 DEF VerdictOK
    <2>6. Shown'
      BY <1>0, <2>1, <2>2, ShownStays
    <2>7. QED
      BY <1>0, <1>1, <2>1, <2>2, <2>3, <2>4, <2>5, <2>6, BuildMoves DEF BuildSteps
  <1>2. CASE revision' = revision /\ Go(b, "failing")
    <2> DEFINE k == [job[b] EXCEPT !.pc = "failing"]
    <2>1. job' = [job EXCEPT ![b] = k]
      BY <1>2 DEF Go
    <2>2. /\ DOMAIN k = Fields /\ k.pc = "failing" /\ k.file = job[b].file
          /\ k.content = job[b].content /\ k.sure = job[b].sure
          /\ k.attempts = job[b].attempts /\ k.rounds = job[b].rounds /\ k.fixes = job[b].fixes
      BY <1>0, PcSet DEF Shape
    <2> HIDE DEF k
    <2>3. Shape(k) /\ FixOK(k)
      BY <1>0, <2>2 DEF Shape, FixOK
    <2>4. QED
      BY <1>0, <1>2, <2>1, <2>2, <2>3, PlainStep DEF polygon
  <1>3. QED
    BY <1>1, <1>2 DEF CommitWork
-----------------------------------------------------------------------------
\* A package of b is started.
LEMMA StartedKeeps ==
  ASSUME BInv, NEW b \in Builds, job[b].pc = "trigger", NEW k, job' = [job EXCEPT ![b] = k],
         DOMAIN k = Fields, k.pc \in {"poll", "failing"}, k.file = job[b].file,
         k.content = job[b].content, k.sure = job[b].sure, k.before = job[b].before,
         k.attempts = job[b].attempts, k.rounds = job[b].rounds, k.fixes = job[b].fixes,
         packages' = Append(packages, [by |-> b, revision |-> revision,
                                       state |-> "queued", culprit |-> None]),
         UNCHANGED <<files, revision, session, lost>>
  PROVE  BInv'
  <1> DEFINE x == [by |-> b, revision |-> revision, state |-> "queued", culprit |-> None]
             n == Len(packages) + 1
  <1>1. /\ b \in Actors /\ b \in Running /\ Shape(job[b]) /\ FixOK(job[b])
        /\ PackOK(b, job[b], packages) /\ VerdictOK(b, job[b], packages, working, revision, raced)
        /\ b \notin Edits
        /\ job'[b] = k /\ DOMAIN job' = Actors /\ \A o \in Actors : o # b => job'[o] = job[o]
    BY OneMoves DEF Actors, Running
  <1>2. packages \in Seq(PackageType) /\ x \in PackageType
    BY DEF BInv, BuildType, PackageType
  <1>3. /\ packages' \in Seq(PackageType) /\ DOMAIN packages' = DOMAIN packages \cup {n}
        /\ n \notin DOMAIN packages /\ packages'[n] = x
        /\ \A i \in DOMAIN packages : packages'[i] = packages[i]
        /\ \A c : /\ Cardinality(PackagesOf(packages, c)) \in Nat
                  /\ Cardinality(PackagesOf(packages', c)) =
                       Cardinality(PackagesOf(packages, c)) + (IF x.by = c THEN 1 ELSE 0)
    BY <1>2, PackageAppended
  <1>4. x.by = b /\ x.revision = revision
    OBVIOUS
  <1> HIDE DEF x, n
  <1>5. Shape(k) /\ FixOK(k)
    BY <1>1 DEF Shape, FixOK
  <1>6. PackOK(b, k, packages')
    <2>1. Cardinality(PackagesOf(packages, b)) < job[b].rounds /\ job[b].rounds \in Nat
      BY <1>1 DEF PackOK, Shape
    <2>2. QED
      BY <1>3, <1>4, <2>1 DEF PackOK
  <1>7. VerdictOK(b, k, packages', working, revision, raced)
    <2>1. job[b].sure => job[b].before = DOMAIN packages
      BY <1>1 DEF PackOK
    <2>2. job[b].file \in Files \ raced => revision[job[b].file] >= job[b].content
      BY <1>1 DEF VerdictOK
    <2>3. QED
      BY <1>3, <1>4, <2>1, <2>2 DEF VerdictOK
  <1>8. store' = store /\ working' = working /\ newest' = newest /\ raced' = raced
    BY DEF files
  <1>9. BuildType'
    BY <1>1, <1>3, <1>5, <1>8 DEF BInv, BuildType, BuildSteps, EditSteps, Actors
  <1>10. \A f \in Files \ raced' : FileOK(f)'
    <2>1. k.pc \notin {"push", "mark", "loaded"}
      OBVIOUS
    <2>2. QED
      BY <1>1, <2>1, FilesStay
  <1>11. \A c \in Running' : c = b
    <2>1. \A c \in Running : c = b
      BY <1>1 DEF BInv
    <2>2. \A c \in Builds : c # b => job'[c] = job[c]
      BY <1>1 DEF Actors
    <2>3. QED
      BY <2>1, <2>2 DEF Running
  <1>12. ASSUME NEW c \in Builds
         PROVE  (FixOK(job[c]) /\ PackOK(c, job[c], packages)
                 /\ VerdictOK(c, job[c], packages, working, revision, raced))'
    <2>1. CASE c = b
      <3>1. /\ FixOK(k) /\ PackOK(b, k, packages')
            /\ VerdictOK(b, k, packages', working', revision', raced')
        BY <1>5, <1>6, <1>7, <1>8
      <3>2. job'[c] = k
        BY <1>1, <2>1
      <3>3. QED
        BY <2>1, <3>1, <3>2
    <2>2. CASE c # b
      <3> DEFINE j == job[c]
      <3>1. /\ j = job'[c] /\ FixOK(j) /\ PackOK(c, j, packages)
            /\ VerdictOK(c, j, packages, working, revision, raced) /\ Shape(j)
        BY <1>1, <2>2 DEF BInv, BuildType, Actors
      <3>2. j.pc \in {"new", "ended"}
        BY <1>1, <2>2 DEF BInv, Running
      <3> HIDE DEF j
      <3>3. PackOK(c, j, packages')
        <4>1. /\ Cardinality(PackagesOf(packages', c)) = Cardinality(PackagesOf(packages, c)) + 0
              /\ Cardinality(PackagesOf(packages, c)) \in Nat
          BY <1>3, <1>4, <2>2
        <4>2. Cardinality(PackagesOf(packages', c)) = Cardinality(PackagesOf(packages, c))
          BY <4>1
        <4>3. QED
          BY <3>1, <3>2, <4>2 DEF PackOK
      <3>4. VerdictOK(c, j, packages', working, revision, raced)
        BY <3>2 DEF VerdictOK
      <3>5. QED
        BY <1>8, <3>1, <3>3, <3>4
    <2>3. QED
      BY <2>1, <2>2
  <1>13. b \in Running'
    BY <1>1 DEF Running
  <1>14. Shown'
    BY <1>3, <1>13 DEF BInv, Shown, session
  <1>15. QED
    BY <1>9, <1>10, <1>11, <1>12, <1>14 DEF BInv

LEMMA TriggerPackageKeeps ==
  ASSUME BInv, NEW b \in Builds, TriggerPackage(b)
  PROVE  BInv'
  <1> DEFINE started == packages' = Append(packages, [by |-> b, revision |-> revision,
                                                      state |-> "queued", culprit |-> None])
  <1>0. /\ b \in Actors /\ b \in Running /\ Shape(job[b]) /\ FixOK(job[b])
        /\ PackOK(b, job[b], packages) /\ job[b].pc = "trigger" /\ DOMAIN job = Actors
        /\ VerdictOK(b, job[b], packages, working, revision, raced)
        /\ UNCHANGED <<files, revision, session, lost>>
    BY DEF BInv, BuildType, Actors, TriggerPackage, At, Running
  <1>1. ASSUME NEW pc \in {"poll", "failing"}, Go(b, pc), started
        PROVE  BInv'
    <2> DEFINE k == [job[b] EXCEPT !.pc = pc]
    <2>1. job' = [job EXCEPT ![b] = k]
      BY <1>1 DEF Go
    <2>2. /\ DOMAIN k = Fields /\ k.pc = pc
          /\ k.file = job[b].file /\ k.content = job[b].content /\ k.before = job[b].before
          /\ k.sure = job[b].sure /\ k.attempts = job[b].attempts
          /\ k.rounds = job[b].rounds /\ k.fixes = job[b].fixes
      BY <1>0, PcSet DEF Shape
    <2> HIDE DEF k
    <2>3. QED
      BY <1>0, <1>1, <2>1, <2>2, StartedKeeps
  <1>2. ASSUME Go(b, "failing"), packages' = packages
        PROVE  BInv'
    <2> DEFINE k == [job[b] EXCEPT !.pc = "failing"]
    <2>1. job' = [job EXCEPT ![b] = k]
      BY <1>2 DEF Go
    <2>2. /\ DOMAIN k = Fields /\ k.pc = "failing" /\ k.file = job[b].file
          /\ k.content = job[b].content /\ k.sure = job[b].sure
          /\ k.attempts = job[b].attempts /\ k.rounds = job[b].rounds /\ k.fixes = job[b].fixes
      BY <1>0, PcSet DEF Shape
    <2> HIDE DEF k
    <2>3. Shape(k) /\ FixOK(k)
      BY <1>0, <2>2 DEF Shape, FixOK
    <2>4. QED
      BY <1>0, <1>2, <2>1, <2>2, <2>3, PlainStep DEF polygon
  <1>3. ASSUME packages' = packages, NEW t, NEW pc \in {"trigger", "failing"},
               job' = [job EXCEPT ![b].tries = t, ![b].pc = pc]
        PROVE  BInv'
    <2> DEFINE k == [job[b] EXCEPT !.tries = t, !.pc = pc]
    <2>1. job' = [job EXCEPT ![b] = k]
      BY <1>0, <1>3
    <2>2. /\ DOMAIN k = Fields /\ k.pc = pc /\ k.file = job[b].file
          /\ k.content = job[b].content /\ k.sure = job[b].sure /\ k.before = job[b].before
          /\ k.attempts = job[b].attempts /\ k.rounds = job[b].rounds /\ k.fixes = job[b].fixes
      BY <1>0 DEF Shape, Fields
    <2> HIDE DEF k
    <2>3. Shape(k) /\ FixOK(k) /\ PackOK(b, k, packages)
      BY <1>0, <2>2 DEF Shape, FixOK, PackOK
    <2>4. VerdictOK(b, k, packages, working, revision, raced)
      BY <1>0, <2>2 DEF VerdictOK
    <2>5. Shown'
      BY <1>0, <1>3, <2>1, <2>2, ShownStays
    <2>6. QED
      BY <1>0, <1>3, <2>1, <2>2, <2>3, <2>4, <2>5, BuildMoves DEF BuildSteps
  <1>4. CASE started /\ Go(b, "poll")
    BY <1>1, <1>4
  <1>5. CASE started /\ Go(b, "failing")
    BY <1>1, <1>5
  <1>6. CASE packages' = packages /\ Go(b, "failing")
    BY <1>2, <1>6
  <1>7. CASE /\ packages' = packages
             /\ job' = [job EXCEPT ![b].tries = @ + 1,
                                   ![b].pc = IF job[b].tries + 1 < MaxAttempts
                                             THEN "trigger" ELSE "failing"]
    <2> DEFINE pc == IF job[b].tries + 1 < MaxAttempts THEN "trigger" ELSE "failing"
    <2>1. job' = [job EXCEPT ![b].tries = job[b].tries + 1, ![b].pc = pc]
      BY <1>7
    <2>2. pc \in {"trigger", "failing"}
      OBVIOUS
    <2> HIDE DEF pc
    <2>3. QED
      BY <1>3, <1>7, <2>1, <2>2
  <1>8. QED
    BY <1>4, <1>5, <1>6, <1>7 DEF TriggerPackage

\* Polygon lists and decides packages: what is READY stays READY.
LEMMA StatesMove ==
  ASSUME BInv, UNCHANGED <<files, revision, session, job, lost>>,
         packages' \in Seq(PackageType), DOMAIN packages' = DOMAIN packages,
         \A i \in DOMAIN packages :
            /\ packages'[i].by = packages[i].by /\ packages'[i].revision = packages[i].revision
            /\ packages[i].state = "READY" => packages'[i].state = "READY"
  PROVE  BInv'
  <1>1. store' = store /\ working' = working /\ newest' = newest /\ raced' = raced
    BY DEF files
  <1>2. BuildType'
    BY <1>1 DEF BInv, BuildType
  <1>3. \A f \in Files \ raced' : FileOK(f)'
    BY <1>1 DEF BInv, FileOK
  <1>4. \A b, c \in Running' : b = c
    BY DEF BInv, Running
  <1>5. ASSUME NEW b \in Builds
        PROVE  (FixOK(job[b]) /\ PackOK(b, job[b], packages)
                /\ VerdictOK(b, job[b], packages, working, revision, raced))'
    <2> DEFINE j == job[b]
    <2>1. /\ j = job'[b] /\ FixOK(j) /\ PackOK(b, j, packages)
          /\ VerdictOK(b, j, packages, working, revision, raced)
      BY DEF BInv
    <2> HIDE DEF j
    <2>2. PackagesOf(packages', b) = PackagesOf(packages, b)
      BY DEF PackagesOf
    <2>3. PackOK(b, j, packages')
      BY <2>1, <2>2 DEF PackOK
    <2>4. VerdictOK(b, j, packages', working, revision, raced)
      BY <2>1 DEF VerdictOK
    <2>5. QED
      BY <1>1, <2>1, <2>3, <2>4
  <1>6. Shown'
    BY DEF BInv, Shown, session, Running
  <1>7. QED
    BY <1>2, <1>3, <1>4, <1>5, <1>6 DEF BInv

LEMMA PolygonKeeps ==
  ASSUME BInv, NEW i \in DOMAIN packages, ListPackage(i) \/ DecidePackage(i)
  PROVE  BInv'
  <1>1. packages \in Seq(PackageType) /\ packages[i] \in PackageType /\ packages[i].state # "READY"
    <2>1. packages \in Seq(PackageType)
      BY DEF BInv, BuildType
    <2>2. packages[i] \in PackageType
      BY <2>1
    <2>3. QED
      BY <2>1, <2>2 DEF ListPackage, DecidePackage
  <1>2. PICK x \in PackageType :
          /\ x.by = packages[i].by /\ x.revision = packages[i].revision
          /\ packages' = [packages EXCEPT ![i] = x]
    <2>1. \A s \in {"pending", "READY"} :
            /\ [packages[i] EXCEPT !.state = s] \in PackageType
            /\ [packages[i] EXCEPT !.state = s].by = packages[i].by
            /\ [packages[i] EXCEPT !.state = s].revision = packages[i].revision
      BY <1>1 DEF PackageType
    <2>2. \A f \in Files \cup {None} :
            LET x == [packages[i] EXCEPT !.state = "FAILED", !.culprit = f]
            IN  /\ x \in PackageType /\ x.by = packages[i].by /\ x.revision = packages[i].revision
                /\ [packages EXCEPT ![i].state = "FAILED", ![i].culprit = f]
                   = [packages EXCEPT ![i] = x]
      BY <1>1 DEF PackageType
    <2>3. \/ packages' = [packages EXCEPT ![i].state = "pending"]
          \/ packages' = [packages EXCEPT ![i].state = "READY"]
          \/ \E f \in Files \cup {None} :
                packages' = [packages EXCEPT ![i].state = "FAILED", ![i].culprit = f]
      BY DEF ListPackage, DecidePackage
    <2>4. QED
      BY <2>1, <2>2, <2>3
  <1>3. /\ packages' \in Seq(PackageType) /\ DOMAIN packages' = DOMAIN packages
        /\ packages'[i] = x /\ \A l \in DOMAIN packages : l # i => packages'[l] = packages[l]
    BY <1>1, <1>2
  <1>4. UNCHANGED <<files, revision, session, job, lost>>
    BY DEF ListPackage, DecidePackage
  <1>5. \A l \in DOMAIN packages :
            /\ packages'[l].by = packages[l].by /\ packages'[l].revision = packages[l].revision
            /\ packages[l].state = "READY" => packages'[l].state = "READY"
    BY <1>1, <1>2, <1>3
  <1>6. QED
    BY <1>3, <1>4, <1>5, StatesMove
-----------------------------------------------------------------------------
\* The newest of the packages a build sees is one of them.
LEMMA LatestIsNew ==
  ASSUME BInv, NEW b \in Builds, NewPackages(b) # {}
  PROVE  LatestPackage(b) \in DOMAIN packages \ job[b].before
  <1>1. packages \in Seq(PackageType)
    BY DEF BInv, BuildType
  <1>2. DOMAIN packages = 1..Len(packages) /\ Len(packages) \in Int /\ 1 \in Int
    BY <1>1
  <1>3. IsFiniteSet(DOMAIN packages)
    BY <1>2, FS_Interval
  <1>4. NewPackages(b) \subseteq DOMAIN packages \ job[b].before
    BY DEF NewPackages, Listed
  <1>5. IsFiniteSet(NewPackages(b)) /\ NewPackages(b) \in SUBSET Nat
    BY <1>1, <1>2, <1>3, <1>4, FS_Subset
  <1>6. Max(NewPackages(b)) \in NewPackages(b)
    BY <1>5, MaxIsGreatest
  <1>7. QED
    BY <1>4, <1>6 DEF LatestPackage

LEMMA PollReadyKeeps ==
  ASSUME BInv, NEW b \in Builds, PollReady(b)
  PROVE  BInv'
  <1> DEFINE k == [job[b] EXCEPT !.pc = "finalize", !.result = "done", !.package = LatestPackage(b)]
  <1>0. /\ b \in Actors /\ b \in Running /\ Shape(job[b]) /\ FixOK(job[b])
        /\ PackOK(b, job[b], packages) /\ job[b].pc = "poll" /\ DOMAIN job = Actors
        /\ VerdictOK(b, job[b], packages, working, revision, raced)
        /\ UNCHANGED <<files, polygon, session, lost>>
    BY DEF BInv, BuildType, Actors, PollReady, Polled, At, Running
  <1>1. LatestPackage(b) \in DOMAIN packages \ job[b].before
    BY LatestIsNew DEF PollReady, Polled
  <1>2. packages[LatestPackage(b)].state = "READY"
    BY DEF PollReady, Polled
  <1>3. job' = [job EXCEPT ![b] = k]
    BY DEF PollReady
  <1>4. /\ DOMAIN k = Fields /\ k.pc = "finalize" /\ k.result = "done" /\ k.package = LatestPackage(b)
        /\ k.file = job[b].file /\ k.content = job[b].content /\ k.sure = job[b].sure
        /\ k.attempts = job[b].attempts /\ k.rounds = job[b].rounds /\ k.fixes = job[b].fixes
    BY <1>0 DEF Shape, Fields
  <1> HIDE DEF k
  <1>5. Shape(k) /\ FixOK(k) /\ PackOK(b, k, packages)
    BY <1>0, <1>4 DEF Shape, FixOK, PackOK
  <1>6. VerdictOK(b, k, packages, working, revision, raced)
    BY <1>0, <1>1, <1>2, <1>4 DEF VerdictOK
  <1>7. Shown'
    BY <1>0, <1>3, <1>4, ShownStays DEF polygon
  <1>8. QED
    BY <1>0, <1>3, <1>4, <1>5, <1>6, <1>7, BuildMoves DEF polygon, BuildSteps

LEMMA PollFailedKeeps ==
  ASSUME BInv, NEW b \in Builds, PollFailed(b)
  PROVE  BInv'
  <1> DEFINE j == job[b]
             given == [j EXCEPT !.pc = "apply", !.result = "manual_fix", !.file = None]
  <1>0. /\ b \in Actors /\ b \in Running /\ Shape(j) /\ FixOK(j) /\ j.pc = "poll"
        /\ UNCHANGED <<files, polygon, session, lost>> /\ DOMAIN job = Actors
        /\ packages \in Seq(PackageType)
    BY DEF BInv, BuildType, Actors, PollFailed, Polled, At, Running
  <1>1. packages[LatestPackage(b)].culprit \in Files \cup {None}
    <2>1. LatestPackage(b) \in DOMAIN packages
      BY LatestIsNew DEF PollFailed, Polled
    <2>2. packages[LatestPackage(b)] \in PackageType
      BY <1>0, <2>1
    <2>3. QED
      BY <2>2 DEF PackageType
  <1>2. PICK f \in Files \cup {None} :
          job' = [job EXCEPT ![b] =
                    IF f # None THEN Attempt(job[b], f)
                    ELSE IF job[b].attempts = NoAttempts
                         THEN [job[b] EXCEPT !.pc = "apply", !.result = "manual_fix", !.file = None]
                         ELSE Attempt(job[b], job[b].file)]
    BY <1>1 DEF PollFailed
  <1>3. ASSUME NEW g \in Files, job' = [job EXCEPT ![b] = Attempt(j, g)]
        PROVE  BInv'
    <2> DEFINE k == Attempt(j, g)
    <2>1. /\ Shape(k) /\ FixOK(k) /\ k.pc \in {"fix", "apply"}
          /\ k.pc = "apply" => k.result = "manual_fix"
          /\ k.rounds = j.rounds
      BY <1>0, AttemptIs
    <2> HIDE DEF k
    <2>2. job' = [job EXCEPT ![b] = k]
      BY <1>3 DEF k
    <2>3. QED
      BY <1>0, <2>1, <2>2, PlainStep
  <1>4. ASSUME job' = [job EXCEPT ![b] = given], j.attempts = NoAttempts
        PROVE  BInv'
    <2>1. /\ DOMAIN given = Fields /\ given.pc = "apply" /\ given.result = "manual_fix"
          /\ given.file = None /\ given.content = j.content /\ given.sure = j.sure
          /\ given.attempts = j.attempts /\ given.rounds = j.rounds /\ given.fixes = j.fixes
      BY <1>0 DEF Shape, Fields
    <2> HIDE DEF given
    <2>2. Shape(given) /\ FixOK(given)
      BY <1>0, <2>1 DEF Shape, FixOK
    <2>3. QED
      BY <1>0, <1>4, <2>1, <2>2, PlainStep
  <1>5. CASE f # None
    BY <1>2, <1>3, <1>5
  <1>6. CASE f = None /\ j.attempts = NoAttempts
    BY <1>2, <1>4, <1>6
  <1>7. CASE f = None /\ j.attempts # NoAttempts
    <2>1. j.file \in Files
      BY <1>0, <1>7 DEF FixOK, Shape
    <2>2. job' = [job EXCEPT ![b] = Attempt(j, j.file)]
      BY <1>2, <1>7
    <2>3. QED
      BY <1>3, <2>1, <2>2
  <1>8. QED
    BY <1>5, <1>6, <1>7

LEMMA PollEndsKeeps ==
  ASSUME BInv, NEW b \in Builds, PollTimeout(b) \/ PollError(b)
  PROVE  BInv'
  <1> DEFINE late == [job[b] EXCEPT !.pc = "apply", !.result = "timeout", !.file = None]
             dead == [job[b] EXCEPT !.pc = "failing"]
  <1>0. /\ b \in Actors /\ b \in Running /\ Shape(job[b]) /\ FixOK(job[b]) /\ job[b].pc = "poll"
        /\ UNCHANGED <<files, polygon, session, lost>>
    BY DEF BInv, BuildType, Actors, PollTimeout, PollError, At, Running
  <1>1. CASE PollTimeout(b)
    <2>1. job' = [job EXCEPT ![b] = late]
      BY <1>1 DEF PollTimeout
    <2>2. /\ DOMAIN late = Fields /\ late.pc = "apply" /\ late.result = "timeout" /\ late.file = None
          /\ late.content = job[b].content /\ late.sure = job[b].sure
          /\ late.attempts = job[b].attempts /\ late.rounds = job[b].rounds
          /\ late.fixes = job[b].fixes
      BY <1>0 DEF Shape, Fields
    <2> HIDE DEF late
    <2>3. Shape(late) /\ FixOK(late)
      BY <1>0, <2>2 DEF Shape, FixOK
    <2>4. QED
      BY <1>0, <2>1, <2>2, <2>3, PlainStep
  <1>2. CASE PollError(b)
    <2>1. job' = [job EXCEPT ![b] = dead]
      BY <1>2 DEF PollError, Go
    <2>2. /\ DOMAIN dead = Fields /\ dead.pc = "failing" /\ dead.file = job[b].file
          /\ dead.content = job[b].content /\ dead.sure = job[b].sure
          /\ dead.attempts = job[b].attempts /\ dead.rounds = job[b].rounds
          /\ dead.fixes = job[b].fixes
      BY <1>0, PcSet DEF Shape
    <2> HIDE DEF dead
    <2>3. Shape(dead) /\ FixOK(dead)
      BY <1>0, <2>2 DEF Shape, FixOK
    <2>4. QED
      BY <1>0, <2>1, <2>2, <2>3, PlainStep
  <1>3. QED
    BY <1>1, <1>2

LEMMA FixKeeps ==
  ASSUME BInv, NEW b \in Builds, Fix(b)
  PROVE  BInv'
  <1> DEFINE j == job[b]
             f == job[b].file
             w == [job[b].fixes EXCEPT ![f] = @ + 1]
             more == [job[b] EXCEPT !.pc = "upsert", !.fixes[f] = @ + 1]
             over == [job[b] EXCEPT !.pc = "apply", !.result = "manual_fix"]
  <1>0. /\ b \in Actors /\ b \in Running /\ Shape(job[b]) /\ FixOK(job[b]) /\ job[b].pc = "fix"
        /\ UNCHANGED <<files, polygon, session, lost>> /\ f \in Files
    BY DEF BInv, BuildType, Actors, Fix, At, Running, Shape
  <1>1. CASE job' = [job EXCEPT ![b] = over]
    <2>2. /\ DOMAIN over = Fields /\ over.pc = "apply" /\ over.result = "manual_fix"
          /\ over.file = f /\ over.content = job[b].content /\ over.sure = job[b].sure
          /\ over.attempts = job[b].attempts /\ over.rounds = job[b].rounds
          /\ over.fixes = job[b].fixes
      BY <1>0 DEF Shape, Fields
    <2> HIDE DEF over
    <2>3. Shape(over) /\ FixOK(over)
      BY <1>0, <2>2 DEF Shape, FixOK
    <2>4. QED
      BY <1>0, <1>1, <2>2, <2>3, PlainStep
  <1>2. CASE job' = [job EXCEPT ![b] = more]
    <2>1. /\ DOMAIN more = Fields /\ more.pc = "upsert" /\ more.file = f
          /\ more.content = job[b].content /\ more.sure = job[b].sure
          /\ more.attempts = job[b].attempts /\ more.rounds = job[b].rounds /\ more.fixes = w
      BY <1>0 DEF Shape, Fields
    <2>2. /\ w \in [Files -> Nat] /\ w[f] = job[b].fixes[f] + 1
          /\ \A g \in Files \ {f} : w[g] = job[b].fixes[g]
      BY <1>0 DEF Shape
    <2> HIDE DEF more, w
    <2>3. Shape(more)
      BY <1>0, <2>1, <2>2 DEF Shape
    <2>4. ASSUME NEW g \in Files PROVE w[g] <= job[b].attempts[g]
      <3>1. /\ job[b].fixes[g] <= job[b].attempts[g] /\ job[b].fixes[f] < job[b].attempts[f]
            /\ job[b].fixes[g] \in Nat /\ job[b].attempts[g] \in Nat
        BY <1>0 DEF FixOK, Shape
      <3>2. QED
        BY <2>2, <3>1
    <2>5. FixOK(more)
      BY <1>0, <2>1, <2>4 DEF FixOK
    <2>6. QED
      BY <1>0, <1>2, <2>1, <2>3, <2>5, PlainStep
  <1>3. QED
    BY <1>1, <1>2 DEF Fix

LEMMA FinalizeKeeps ==
  ASSUME BInv, NEW b \in Builds, Finalize(b)
  PROVE  BInv'
  <1> DEFINE k == [job[b] EXCEPT !.pc = "apply"]
  <1>0. /\ b \in Actors /\ b \in Running /\ Shape(job[b]) /\ FixOK(job[b])
        /\ PackOK(b, job[b], packages) /\ job[b].pc = "finalize"
        /\ VerdictOK(b, job[b], packages, working, revision, raced)
        /\ UNCHANGED <<files, packages, session, lost>> /\ revision' \in {revision, working}
    BY DEF BInv, BuildType, Actors, Finalize, At, Running
  <1>1. job' = [job EXCEPT ![b] = k]
    BY DEF Finalize, Go
  <1>2. /\ DOMAIN k = Fields /\ k.pc = "apply" /\ k.file = job[b].file
        /\ k.content = job[b].content /\ k.sure = job[b].sure /\ k.result = job[b].result
        /\ k.package = job[b].package
        /\ k.attempts = job[b].attempts /\ k.rounds = job[b].rounds /\ k.fixes = job[b].fixes
    BY <1>0, PcSet DEF Shape
  <1> HIDE DEF k
  <1>3. Shape(k) /\ FixOK(k) /\ PackOK(b, k, packages)
    BY <1>0, <1>2 DEF Shape, FixOK, PackOK
  <1>4. VerdictOK(b, k, packages, working, revision', raced)
    BY <1>0, <1>2 DEF VerdictOK
  <1>5. Shown'
    BY <1>0, <1>1, <1>2, ShownStays
  <1>6. QED
    BY <1>0, <1>1, <1>2, <1>3, <1>4, <1>5, BuildMoves DEF BuildSteps
-----------------------------------------------------------------------------
\* A build that has not started, and one that has ended.
LEMMA IdleIs ==
  /\ Shape(Fresh) /\ FixOK(Fresh) /\ Fresh.pc = "new" /\ Fresh.file = None
  /\ Shape(Ended) /\ FixOK(Ended) /\ Ended.pc = "ended" /\ Ended.file = None
  <1>1. NoAttempts \in [Files -> Nat] /\ \A f \in Files : NoAttempts[f] = 0
    BY DEF NoAttempts
  <1>2. SumOf(NoAttempts, Files) = 0
    <2>1. \A f \in Files : NoAttempts[f] \in Nat /\ NoAttempts[f] = 2 * NoAttempts[f]
      BY <1>1
    <2>2. SumOf(NoAttempts, Files) = 2 * SumOf(NoAttempts, Files)
      BY <2>1, FilesFinite, SumDoubles
    <2>3. SumOf(NoAttempts, Files) \in Nat
      BY <1>1, FilesFinite, SumTakes
    <2>4. QED
      BY <2>2, <2>3
  <1>3. MaxFileFixAttempts \in Nat /\ MaxTotal \in Nat
    BY FilesFinite DEF MaxTotal
  <1>4. ASSUME NEW j, DOMAIN j = Fields, j.pc \in {"new", "ended"}, j.file = None, j.content = 0,
               j.sure \in BOOLEAN, j.rounds = 0, j.attempts = NoAttempts, j.fixes = NoAttempts
        PROVE  Shape(j) /\ FixOK(j)
    <2>1. Shape(j)
      BY <1>1, <1>4 DEF Shape
    <2>2. FixOK(j)
      BY <1>1, <1>2, <1>3, <1>4 DEF FixOK
    <2>3. QED
      BY <2>1, <2>2
  <1>5. /\ DOMAIN Fresh = Fields /\ Fresh.pc = "new" /\ Fresh.file = None /\ Fresh.content = 0
        /\ Fresh.sure \in BOOLEAN /\ Fresh.rounds = 0 /\ Fresh.attempts = NoAttempts
        /\ Fresh.fixes = NoAttempts
    BY DEF Fresh, Fields
  <1>6. /\ DOMAIN Ended = Fields /\ Ended.pc = "ended" /\ Ended.file = None /\ Ended.content = 0
        /\ Ended.sure \in BOOLEAN /\ Ended.rounds = 0 /\ Ended.attempts = NoAttempts
        /\ Ended.fixes = NoAttempts
    BY DEF Fresh, Ended, Fields
  <1>7. QED
    BY <1>4, <1>5, <1>6

\* A build ends: the session shows a verdict, and no other build runs.
LEMMA EndKeeps ==
  ASSUME BInv, NEW b \in Builds, b \in Running, job' = [job EXCEPT ![b] = Ended],
         UNCHANGED <<files, polygon, lost>>, <<stage', status'>> \in Pairs,
         stage' = "done" => packageId' \in DOMAIN packages /\ packages[packageId'].state = "READY"
  PROVE  BInv'
  <1>1. Shape(Ended) /\ FixOK(Ended) /\ Ended.pc = "ended" /\ Ended.file = None
    BY IdleIs
  <1>2. PackOK(b, Ended, packages) /\ VerdictOK(b, Ended, packages, working, revision, raced)
    BY <1>1 DEF PackOK, VerdictOK
  <1>3. Shown'
    BY DEF Shown, polygon
  <1>4. QED
    BY <1>1, <1>2, <1>3, BuildMoves DEF polygon, BuildSteps

LEMMA BuildEndsKeeps ==
  ASSUME BInv, NEW b \in Builds, ApplyBuildResult(b) \/ BuildFails(b)
  PROVE  BInv'
  <1>0. /\ b \in Actors /\ b \in Running /\ job' = [job EXCEPT ![b] = Ended]
        /\ VerdictOK(b, job[b], packages, working, revision, raced)
        /\ UNCHANGED <<files, polygon, lost>>
    BY DEF BInv, Actors, ApplyBuildResult, BuildFails, At, Running
  <1>1. CASE ApplyBuildResult(b)
    <2>1. CASE job[b].result = "done"
      <3>1. /\ stage' = "done" /\ status' = "done" /\ packageId' = job[b].package
            /\ job[b].pc = "apply"
        BY <1>1, <2>1 DEF ApplyBuildResult, At
      <3>2. job[b].package \in DOMAIN packages /\ packages[job[b].package].state = "READY"
        BY <1>0, <2>1, <3>1 DEF VerdictOK
      <3>3. <<stage', status'>> \in Pairs
        BY <3>1 DEF Pairs
      <3>4. QED
        BY <1>0, <3>1, <3>2, <3>3, EndKeeps
    <2>2. CASE job[b].result # "done"
      <3>1. stage' = "fixing_errors" /\ status' = "waiting_manual_fix"
        BY <1>1, <2>2 DEF ApplyBuildResult
      <3>2. <<stage', status'>> \in Pairs /\ stage' # "done"
        BY <3>1 DEF Pairs
      <3>3. QED
        BY <1>0, <3>2, EndKeeps
    <2>3. QED
      BY <2>1, <2>2
  <1>2. CASE BuildFails(b)
    <2>1. stage' = "failed" /\ status' = "failed"
      BY <1>2 DEF BuildFails
    <2>2. <<stage', status'>> \in Pairs /\ stage' # "done"
      BY <2>1 DEF Pairs
    <2>3. QED
      BY <1>0, <2>2, EndKeeps
  <1>3. QED
    BY <1>1, <1>2

\* The process restarts: nothing runs, and what ran is lost.
LEMMA RestartKeeps ==
  ASSUME BInv, Restart
  PROVE  BInv'
  <1>1. /\ lost' # {} /\ UNCHANGED <<files, polygon, session>> /\ Running # {}
        /\ job' = [a \in Actors |-> IF job[a].pc = "new" THEN Fresh ELSE Ended]
    BY DEF Restart, At
  <1>2. \A a \in Actors : /\ job'[a] \in {Fresh, Ended}
                          /\ job'[a] = Fresh => job[a].pc = "new"
    BY <1>1, IdleIs
  <1>3. \A a \in Actors : /\ Shape(job'[a]) /\ FixOK(job'[a]) /\ job'[a].file = None
                          /\ job'[a].pc \in {"new", "ended"}
                          /\ job'[a].pc = "new" => job[a].pc = "new"
    BY <1>2, IdleIs
  <1>4. store' = store /\ working' = working /\ newest' = newest /\ raced' = raced
        /\ packages' = packages /\ revision' = revision
    BY <1>1 DEF files, polygon
  <1>5. BuildType'
    BY <1>1, <1>3, <1>4 DEF BInv, BuildType, Actors, BuildSteps, EditSteps
  <1>6. \A f \in Files \ raced' : FileOK(f)'
    BY <1>3, <1>4 DEF BInv, FileOK
  <1>7. \A b, c \in Running' : b = c
    BY <1>3 DEF Running, Actors
  <1>8. ASSUME NEW b \in Builds
        PROVE  (FixOK(job[b]) /\ PackOK(b, job[b], packages)
                /\ VerdictOK(b, job[b], packages, working, revision, raced))'
    <2> DEFINE k == job'[b]
    <2>1. /\ Shape(k) /\ FixOK(k) /\ k.file = None /\ k.pc \in {"new", "ended"}
          /\ k.pc = "new" => job[b].pc = "new"
      BY <1>3 DEF Actors
    <2>2. /\ k.pc = "new" => Cardinality(PackagesOf(packages, b)) = 0
          /\ k.rounds \in Nat
      BY <2>1 DEF BInv, PackOK, Shape
    <2> HIDE DEF k
    <2>3. PackOK(b, k, packages)
      BY <2>1, <2>2 DEF PackOK
    <2>4. VerdictOK(b, k, packages, working, revision, raced)
      BY <2>1 DEF VerdictOK
    <2>5. QED
      BY <1>4, <2>1, <2>3, <2>4 DEF k, FixOK, PackOK, VerdictOK, PackagesOf, NoAttempts, MaxTotal
  <1>9. Shown'
    BY <1>1, <1>4 DEF BInv, Shown, session
  <1>10. QED
    BY <1>5, <1>6, <1>7, <1>8, <1>9 DEF BInv
-----------------------------------------------------------------------------
\* The steps that write and send one file, of a build or of an edit.
LEMMA SyncIs ==
  ASSUME BInv, NEW a \in Actors, job[a].pc \in {"upsert", "push", "mark", "commitFile"}
  PROVE  /\ Shape(job[a]) /\ job[a].file \in Files /\ DOMAIN job[a] = Fields /\ DOMAIN job = Actors
         /\ a \in Builds => /\ a \in Running /\ FixOK(job[a]) /\ PackOK(a, job[a], packages)
                            /\ VerdictOK(a, job[a], packages, working, revision, raced)
         /\ a \in Builds => a \notin Edits
         /\ store \in [Files -> [content : Nat, uploaded : BOOLEAN]]
         /\ working \in [Files -> Nat] /\ newest \in [Files -> Nat]
  BY BuildAssumption DEF BInv, BuildType, Running, Shape, Actors

\* A write nobody else is in the middle of.
LEMMA AloneIs ==
  ASSUME NEW a \in Actors, NEW f, Race(a, f)
  PROVE  /\ raced \subseteq raced' /\ raced' \subseteq raced \cup {f}
         /\ f \notin raced' => \A o \in Actors \ {a} :
                /\ job[o].pc \in {"push", "mark"} => job[o].file # f
                /\ job[o].pc # "loaded"
  BY DEF Race, Writing, At

LEMMA UpsertKeeps ==
  ASSUME BInv, NEW a \in Actors, Upsert(a)
  PROVE  BInv'
  <1> DEFINE f == job[a].file
             c == newest[f] + 1
             k == [job[a] EXCEPT !.pc = "push", !.content = c]
  <1>1. job[a].pc = "upsert" /\ UNCHANGED <<working, polygon, session, lost>> /\ Race(a, f)
    BY DEF Upsert, At
  <1>2. /\ store' = [store EXCEPT ![f] = [content |-> c, uploaded |-> FALSE]]
        /\ newest' = [newest EXCEPT ![f] = c] /\ job' = [job EXCEPT ![a] = k]
    BY DEF Upsert, NewContent
  <1>3. /\ Shape(job[a]) /\ f \in Files /\ DOMAIN job[a] = Fields /\ DOMAIN job = Actors
        /\ a \in Builds => a \in Running /\ FixOK(job[a]) /\ PackOK(a, job[a], packages)
        /\ a \in Builds => a \notin Edits
        /\ store \in [Files -> [content : Nat, uploaded : BOOLEAN]]
        /\ working \in [Files -> Nat] /\ newest \in [Files -> Nat]
    BY <1>1, SyncIs
  <1>4. /\ DOMAIN k = Fields /\ k.pc = "push" /\ k.content = c /\ k.file = f /\ k.sure = job[a].sure
        /\ k.attempts = job[a].attempts /\ k.rounds = job[a].rounds /\ k.fixes = job[a].fixes
    BY <1>3 DEF Fields
  <1>5. c \in Nat /\ c = newest[f] + 1
    BY <1>3
  <1>6. job'[a] = k /\ \A o \in Actors : o # a => job'[o] = job[o]
    BY <1>2, <1>3
  <1>7. /\ store' \in [Files -> [content : Nat, uploaded : BOOLEAN]] /\ newest' \in [Files -> Nat]
        /\ store'[f].content = c /\ store'[f].uploaded = FALSE /\ newest'[f] = c
        /\ \A g \in Files \ {f} : store'[g] = store[g] /\ newest'[g] = newest[g]
        /\ working' = working
    BY <1>1, <1>2, <1>3, <1>5
  <1>8. /\ raced \subseteq raced'
        /\ f \notin raced' => \A o \in Actors \ {a} :
              /\ job[o].pc \in {"push", "mark"} => job[o].file # f
              /\ job[o].pc # "loaded"
    BY <1>1, AloneIs
  <1> HIDE DEF k, c
  <1>9. Shape(k) /\ (a \in Builds => FixOK(k) /\ PackOK(a, k, packages))
    BY <1>1, <1>3, <1>4, <1>5 DEF Shape, FixOK, PackOK
  <1>10. VerdictOK(a, k, packages, working', revision', raced')
    BY <1>4 DEF VerdictOK
  <1>11. ASSUME NEW g \in Files \ raced' PROVE FileOK(g)'
    <2>1. FileOK(g)
      BY <1>8 DEF BInv
    <2>2. CASE g = f
      <3>1. working[f] <= newest[f] /\ newest[f] \in Nat /\ working[f] \in Nat
        BY <1>3, <2>1, <2>2 DEF FileOK
      <3>2. working'[f] <= newest'[f]
        BY <1>5, <1>7, <3>1
      <3>3. QED
        BY <1>4, <1>6, <1>7, <1>8, <2>2, <3>2 DEF FileOK
    <2>3. CASE g # f
      BY <1>4, <1>6, <1>7, <2>1, <2>3 DEF FileOK
    <2>4. QED
      BY <2>2, <2>3
  <1>12. \A g \in Files \ raced' : working[g] <= working'[g]
    BY <1>3, <1>7
  <1>13. Shown'
    BY <1>1, <1>2, <1>4, ShownStays DEF polygon
  <1>14. a \in Edits => k.pc \in EditSteps
    BY <1>4 DEF EditSteps
  <1>15. a \in Builds => k.pc \in BuildSteps \ {"new"}
    BY <1>4 DEF BuildSteps
  <1>16. QED
    BY <1>1, <1>2, <1>3, <1>7, <1>8, <1>9, <1>10, <1>11, <1>12, <1>13, <1>14, <1>15, ActorMoves
       DEF polygon

\* A push or a commit that fails: another try for a build, the end for an edit.
LEMMA SyncFailedIs ==
  ASSUME BInv, NEW a \in Actors, job[a].pc \in {"push", "commitFile"}, SyncFailed(a)
  PROVE  \E k : /\ job' = [job EXCEPT ![a] = k] /\ Shape(k)
                /\ k.pc \in {"fix", "apply", "ended"} /\ (a \in Edits => k.pc \in EditSteps)
                /\ a \in Builds => /\ k.pc \in {"fix", "apply"} /\ FixOK(k) /\ PackOK(a, k, packages)
                                   /\ \A wk, rv, rc : VerdictOK(a, k, packages, wk, rv, rc)
  <1>1. /\ Shape(job[a]) /\ job[a].file \in Files
        /\ a \in Builds => /\ FixOK(job[a]) /\ PackOK(a, job[a], packages) /\ a \notin Edits
    BY SyncIs
  <1>2. CASE a \in Builds
    <2> DEFINE k == Attempt(job[a], job[a].file)
    <2>1. /\ Shape(k) /\ FixOK(k) /\ k.pc \in {"fix", "apply"}
          /\ k.pc = "apply" => k.result = "manual_fix"
          /\ k.rounds = job[a].rounds
      BY <1>1, <1>2, AttemptIs
    <2>2. job' = [job EXCEPT ![a] = k]
      BY <1>2 DEF SyncFailed
    <2> HIDE DEF k
    <2>3. PackOK(a, k, packages)
      BY <1>1, <1>2, <2>1 DEF PackOK
    <2>4. \A wk, rv, rc : VerdictOK(a, k, packages, wk, rv, rc)
      BY <2>1 DEF VerdictOK
    <2>5. QED
      BY <1>1, <1>2, <2>1, <2>2, <2>3, <2>4
  <1>3. CASE a \notin Builds
    <2>1. job' = [job EXCEPT ![a] = Ended]
      BY <1>3 DEF SyncFailed
    <2>2. QED
      BY <1>3, <2>1, IdleIs DEF EditSteps
  <1>4. QED
    BY <1>2, <1>3

LEMMA PushKeeps ==
  ASSUME BInv, NEW a \in Actors, Push(a)
  PROVE  BInv'
  <1> DEFINE f == job[a].file
             c == job[a].content
             m == [job[a] EXCEPT !.pc = "mark"]
  <1>1. /\ job[a].pc = "push" /\ UNCHANGED <<store, newest, polygon, session, lost>> /\ Race(a, f)
        /\ working' \in {working, [working EXCEPT ![f] = c]}
    BY DEF Push, At
  <1>2. /\ Shape(job[a]) /\ f \in Files /\ DOMAIN job[a] = Fields /\ DOMAIN job = Actors
        /\ a \in Builds => a \in Running /\ FixOK(job[a]) /\ PackOK(a, job[a], packages)
        /\ a \in Builds => a \notin Edits
        /\ store \in [Files -> [content : Nat, uploaded : BOOLEAN]]
        /\ working \in [Files -> Nat] /\ newest \in [Files -> Nat]
    BY <1>1, SyncIs
  <1>3. c \in Nat
    BY <1>2 DEF Shape
  <1>4. /\ raced \subseteq raced'
        /\ f \notin raced' => \A o \in Actors \ {a} :
              /\ job[o].pc \in {"push", "mark"} => job[o].file # f
              /\ job[o].pc # "loaded"
    BY <1>1, AloneIs
  <1>5. /\ working' \in [Files -> Nat]
        /\ \A g \in Files \ {f} : working'[g] = working[g]
        /\ working'[f] \in {working[f], c}
        /\ store' = store /\ newest' = newest
    BY <1>1, <1>2, <1>3
  <1>6. PICK k : /\ job' = [job EXCEPT ![a] = k] /\ Shape(k)
                 /\ \/ k.pc = "mark" /\ k.file = f /\ k.content = c /\ working'[f] = c
                    \/ k.pc \in {"fix", "apply", "ended"}
                 /\ (a \in Edits => k.pc \in EditSteps)
                 /\ a \in Builds => /\ k.pc \in {"mark", "fix", "apply"} /\ FixOK(k)
                                    /\ PackOK(a, k, packages)
                                    /\ \A wk, rv, rc : VerdictOK(a, k, packages, wk, rv, rc)
    <2>1. CASE working' = [working EXCEPT ![f] = c] /\ Go(a, "mark")
      <3>1. job' = [job EXCEPT ![a] = m] /\ working'[f] = c
        BY <1>2, <2>1 DEF Go
      <3>2. /\ DOMAIN m = Fields /\ m.pc = "mark" /\ m.file = f /\ m.content = c
            /\ m.sure = job[a].sure /\ m.attempts = job[a].attempts
            /\ m.rounds = job[a].rounds /\ m.fixes = job[a].fixes
        BY <1>2, PcSet
      <3> HIDE DEF m
      <3>3. Shape(m) /\ (a \in Builds => FixOK(m) /\ PackOK(a, m, packages))
        BY <1>1, <1>2, <3>2 DEF Shape, FixOK, PackOK
      <3>4. \A wk, rv, rc : VerdictOK(a, m, packages, wk, rv, rc)
        BY <3>2 DEF VerdictOK
      <3>5. m.pc \in EditSteps
        BY <3>2 DEF EditSteps
      <3>6. QED
        BY <3>1, <3>2, <3>3, <3>4, <3>5
    <2>2. CASE SyncFailed(a)
      BY <1>1, <2>2, SyncFailedIs
    <2>3. QED
      BY <2>1, <2>2 DEF Push
  <1>7. job'[a] = k /\ \A o \in Actors : o # a => job'[o] = job[o]
    BY <1>2, <1>6
  <1>8. f \notin raced' => /\ store[f].content = c /\ newest[f] = c /\ working[f] <= newest[f]
                           /\ store[f].uploaded => working[f] = store[f].content
    BY <1>1, <1>2, <1>4 DEF BInv, FileOK
  <1>9. ASSUME NEW g \in Files \ raced' PROVE FileOK(g)' /\ working[g] <= working'[g]
    <2>1. FileOK(g)
      BY <1>4 DEF BInv
    <2>2. CASE g = f
      <3>1. /\ working'[f] <= newest'[f] /\ working[f] <= working'[f]
            /\ store'[f].uploaded => working'[f] = store'[f].content
        BY <1>2, <1>3, <1>5, <1>8, <2>2
      <3>2. QED
        BY <1>4, <1>5, <1>6, <1>7, <1>8, <2>2, <3>1 DEF FileOK
    <2>3. CASE g # f
      <3>1. working[g] <= working'[g]
        BY <1>2, <1>5, <2>3
      <3>2. FileOK(g)'
        BY <1>5, <1>6, <1>7, <2>1, <2>3 DEF FileOK
      <3>3. QED
        BY <3>1, <3>2
    <2>4. QED
      BY <2>2, <2>3
  <1>10. Shown'
    BY <1>1, <1>6, ShownStays DEF polygon
  <1>11. /\ packages' = packages /\ revision' \in {revision, working}
         /\ a \in Builds => k.pc \in BuildSteps \ {"new"}
    BY <1>1, <1>6 DEF polygon, BuildSteps
  <1>12. QED
    BY <1>2, <1>4, <1>5, <1>6, <1>9, <1>10, <1>11, ActorMoves

LEMMA MarkUploadedKeeps ==
  ASSUME BInv, NEW a \in Actors, MarkUploaded(a)
  PROVE  BInv'
  <1> DEFINE f == job[a].file
             k == [job[a] EXCEPT !.pc = "commitFile"]
  <1>1. /\ job[a].pc = "mark" /\ UNCHANGED <<working, newest, raced, polygon, session, lost>>
        /\ store' = [store EXCEPT ![f].uploaded = TRUE] /\ job' = [job EXCEPT ![a] = k]
    BY DEF MarkUploaded, At, Go
  <1>2. /\ Shape(job[a]) /\ f \in Files /\ DOMAIN job[a] = Fields /\ DOMAIN job = Actors
        /\ a \in Builds => a \in Running /\ FixOK(job[a]) /\ PackOK(a, job[a], packages)
        /\ a \in Builds => a \notin Edits
        /\ store \in [Files -> [content : Nat, uploaded : BOOLEAN]]
        /\ working \in [Files -> Nat] /\ newest \in [Files -> Nat]
    BY <1>1, SyncIs
  <1>3. /\ DOMAIN k = Fields /\ k.pc = "commitFile" /\ k.file = f /\ k.content = job[a].content
        /\ k.sure = job[a].sure /\ k.attempts = job[a].attempts
        /\ k.rounds = job[a].rounds /\ k.fixes = job[a].fixes
    BY <1>2, PcSet
  <1>4. /\ store' \in [Files -> [content : Nat, uploaded : BOOLEAN]]
        /\ \A g \in Files : store'[g].content = store[g].content
        /\ \A g \in Files \ {f} : store'[g] = store[g]
    BY <1>1, <1>2
  <1>5. job'[a] = k /\ \A o \in Actors : o # a => job'[o] = job[o]
    BY <1>1, <1>2
  <1> HIDE DEF k
  <1>6. f \notin raced => working[f] = k.content /\ store[f].content = k.content
    BY <1>1, <1>2, <1>3 DEF BInv, FileOK
  <1>7. Shape(k) /\ (a \in Builds => FixOK(k) /\ PackOK(a, k, packages))
    BY <1>1, <1>2, <1>3 DEF Shape, FixOK, PackOK
  <1>8. VerdictOK(a, k, packages, working', revision', raced')
    <2>1. k.file \in Files \ raced => working[k.file] >= k.content
      BY <1>2, <1>3, <1>6
    <2>2. QED
      BY <1>1, <1>3, <2>1 DEF VerdictOK
  <1>9. ASSUME NEW g \in Files \ raced' PROVE FileOK(g)' /\ working[g] <= working'[g]
    <2>1. FileOK(g)
      BY <1>1 DEF BInv
    <2>2. FileOK(g)'
      <3>1. CASE g = f
        <4>1. f \in Files /\ f \notin raced /\ working' = working /\ newest' = newest
          BY <1>1, <3>1
        <4>2. working'[f] = store'[f].content
          BY <1>4, <1>6, <4>1
        <4>3. job'[a].pc = "commitFile" /\ store'[f].content = store[f].content
          BY <1>3, <1>4, <1>5, <4>1
        <4>4. ASSUME NEW o \in Actors
              PROVE  /\ job'[o].pc \in {"push", "mark"} /\ job'[o].file = f =>
                          store'[f].content = job'[o].content /\ newest'[f] = job'[o].content
                     /\ job'[o].pc = "mark" /\ job'[o].file = f => working'[f] = job'[o].content
                     /\ job'[o].pc = "loaded" => job'[o].attempts[f] = working'[f]
          <5>1. CASE o = a
            BY <4>3, <5>1
          <5>2. CASE o # a
            BY <1>5, <2>1, <3>1, <4>1, <4>3, <5>2 DEF FileOK
          <5>3. QED
            BY <5>1, <5>2
        <4>5. working'[f] <= newest'[f]
          BY <2>1, <3>1, <4>1 DEF FileOK
        <4>6. QED
          BY <3>1, <4>2, <4>4, <4>5 DEF FileOK
      <3>2. CASE g # f
        BY <1>1, <1>3, <1>4, <1>5, <2>1, <3>2 DEF FileOK
      <3>3. QED
        BY <3>1, <3>2
    <2>3. QED
      BY <1>1, <1>2, <2>2
  <1>10. Shown'
    BY <1>1, <1>3, ShownStays DEF polygon
  <1>11. /\ packages' = packages /\ revision' \in {revision, working} /\ raced \subseteq raced'
         /\ a \in Builds => k.pc \in BuildSteps \ {"new"}
         /\ a \in Edits => k.pc \in EditSteps
         /\ working' \in [Files -> Nat] /\ newest' \in [Files -> Nat]
    BY <1>1, <1>2, <1>3 DEF polygon, BuildSteps, EditSteps
  <1>12. QED
    BY <1>1, <1>2, <1>4, <1>7, <1>8, <1>9, <1>10, <1>11, ActorMoves

LEMMA CommitFileKeeps ==
  ASSUME BInv, NEW a \in Actors, CommitFile(a)
  PROVE  BInv'
  <1> DEFINE i == [job[a] EXCEPT !.pc = "ids"]
  <1>1. /\ job[a].pc = "commitFile" /\ UNCHANGED <<files, packages, session, lost>>
        /\ revision' \in {revision, working}
    BY DEF CommitFile, At
  <1>2. /\ Shape(job[a]) /\ DOMAIN job[a] = Fields /\ DOMAIN job = Actors /\ job[a].file \in Files
        /\ a \in Builds => /\ a \in Running /\ FixOK(job[a]) /\ PackOK(a, job[a], packages)
                           /\ VerdictOK(a, job[a], packages, working, revision, raced)
        /\ a \in Builds => a \notin Edits
    BY <1>1, SyncIs
  <1>3. PICK k : /\ job' = [job EXCEPT ![a] = k] /\ Shape(k)
                 /\ k.pc \in {"ids", "fix", "apply", "ended"} /\ (a \in Edits => k.pc \in EditSteps)
                 /\ a \in Builds => /\ k.pc \in {"ids", "fix", "apply"} /\ FixOK(k)
                                    /\ PackOK(a, k, packages)
                                    /\ VerdictOK(a, k, packages, working, revision', raced)
    <2>1. CASE job' = [job EXCEPT ![a] = IF a \in Builds THEN [@ EXCEPT !.pc = "ids"] ELSE Ended]
      <3>1. CASE a \in Builds
        <4>1. job' = [job EXCEPT ![a] = i]
          BY <2>1, <3>1
        <4>2. /\ DOMAIN i = Fields /\ i.pc = "ids" /\ i.file = job[a].file
              /\ i.content = job[a].content /\ i.sure = job[a].sure
              /\ i.attempts = job[a].attempts /\ i.rounds = job[a].rounds
              /\ i.fixes = job[a].fixes
          BY <1>2, PcSet
        <4> HIDE DEF i
        <4>3. Shape(i) /\ FixOK(i) /\ PackOK(a, i, packages)
          BY <1>1, <1>2, <3>1, <4>2, FilesFinite DEF Shape, FixOK, PackOK
        <4>4. VerdictOK(a, i, packages, working, revision', raced)
          BY <1>1, <1>2, <3>1, <4>2 DEF VerdictOK
        <4>5. QED
          BY <1>2, <3>1, <4>1, <4>2, <4>3, <4>4
      <3>2. CASE a \notin Builds
        BY <2>1, <3>2, IdleIs DEF EditSteps
      <3>3. QED
        BY <3>1, <3>2
    <2>2. CASE SyncFailed(a)
      BY <1>1, <2>2, SyncFailedIs
    <2>3. QED
      BY <2>1, <2>2 DEF CommitFile
  <1>4. Shown'
    BY <1>1, <1>3, ShownStays
  <1>5. /\ \A g \in Files \ raced' : FileOK(g)' /\ working[g] <= working'[g]
        /\ store' \in [Files -> [content : Nat, uploaded : BOOLEAN]]
        /\ working' \in [Files -> Nat] /\ newest' \in [Files -> Nat] /\ raced \subseteq raced'
    BY <1>1, <1>3, FilesStay
  <1>6. working' = working /\ raced' = raced
    BY <1>1 DEF files
  <1>7. a \in Builds => VerdictOK(a, k, packages, working', revision', raced')
    BY <1>3, <1>6
  <1>8. a \in Builds => k.pc \in BuildSteps \ {"new"}
    BY <1>3 DEF BuildSteps
  <1>9. QED
    BY <1>1, <1>2, <1>3, <1>4, <1>5, <1>7, <1>8, ActorMoves
-----------------------------------------------------------------------------
\* The requests that write files.
LEMMA EditIs ==
  ASSUME BInv, NEW e \in Edits, job[e].pc \in {"new", "loaded"}
  PROVE  /\ e \in Actors /\ e \notin Builds /\ Shape(job[e]) /\ DOMAIN job[e] = Fields
         /\ DOMAIN job = Actors /\ packages \in Seq(PackageType)
         /\ store \in [Files -> [content : Nat, uploaded : BOOLEAN]]
         /\ working \in [Files -> Nat] /\ newest \in [Files -> Nat]
  BY BuildAssumption DEF BInv, BuildType, Shape, Actors

LEMMA ModifyFileKeeps ==
  ASSUME BInv, NEW e \in Edits, NEW f \in Files, ModifyFile(e, f)
  PROVE  BInv'
  <1> DEFINE k == [job[e] EXCEPT !.pc = "upsert", !.file = f]
  <1>1. /\ job[e].pc = "new" /\ UNCHANGED <<files, polygon, session, lost>>
        /\ job' = [job EXCEPT ![e] = k]
    BY DEF ModifyFile, At
  <1>2. /\ e \in Actors /\ e \notin Builds /\ Shape(job[e]) /\ DOMAIN job[e] = Fields
        /\ DOMAIN job = Actors
    BY <1>1, EditIs
  <1>3. /\ DOMAIN k = Fields /\ k.pc = "upsert" /\ k.file = f /\ k.content = job[e].content
        /\ k.sure = job[e].sure /\ k.attempts = job[e].attempts
        /\ k.rounds = job[e].rounds /\ k.fixes = job[e].fixes
    BY <1>2 DEF Fields
  <1> HIDE DEF k
  <1>4. Shape(k) /\ k.pc \in EditSteps
    BY <1>2, <1>3 DEF Shape, EditSteps
  <1>5. /\ \A g \in Files \ raced' : FileOK(g)' /\ working[g] <= working'[g]
        /\ store' \in [Files -> [content : Nat, uploaded : BOOLEAN]]
        /\ working' \in [Files -> Nat] /\ newest' \in [Files -> Nat] /\ raced \subseteq raced'
    BY <1>1, <1>2, <1>3, FilesStay
  <1>6. Shown'
    BY <1>1, <1>2, ShownStays DEF polygon
  <1>7. packages' = packages /\ revision' \in {revision, working}
    BY <1>1 DEF polygon
  <1>8. QED
    BY <1>1, <1>2, <1>4, <1>5, <1>6, <1>7, ActorMoves

LEMMA RefineFileKeeps ==
  ASSUME BInv, NEW e \in Edits, NEW f \in Files, RefineFile(e, f)
  PROVE  BInv'
  <1> DEFINE c == newest[f] + 1
  <1>1. /\ job[e].pc = "new" /\ UNCHANGED <<working, polygon, session, lost>> /\ Race(e, f)
        /\ job' = [job EXCEPT ![e] = Ended]
        /\ store' = [store EXCEPT ![f] = [content |-> c, uploaded |-> FALSE]]
        /\ newest' = [newest EXCEPT ![f] = c]
    BY DEF RefineFile, At, NewContent
  <1>2. /\ e \in Actors /\ e \notin Builds /\ DOMAIN job = Actors
        /\ store \in [Files -> [content : Nat, uploaded : BOOLEAN]]
        /\ working \in [Files -> Nat] /\ newest \in [Files -> Nat]
    BY <1>1, EditIs
  <1>3. c \in Nat /\ c = newest[f] + 1
    BY <1>2
  <1>4. job'[e] = Ended /\ \A o \in Actors : o # e => job'[o] = job[o]
    BY <1>1, <1>2
  <1>5. /\ store' \in [Files -> [content : Nat, uploaded : BOOLEAN]] /\ newest' \in [Files -> Nat]
        /\ store'[f].content = c /\ store'[f].uploaded = FALSE /\ newest'[f] = c
        /\ \A g \in Files \ {f} : store'[g] = store[g] /\ newest'[g] = newest[g]
        /\ working' = working
    BY <1>1, <1>2, <1>3
  <1>6. /\ raced \subseteq raced'
        /\ f \notin raced' => \A o \in Actors \ {e} :
              /\ job[o].pc \in {"push", "mark"} => job[o].file # f
              /\ job[o].pc # "loaded"
    BY <1>1, <1>2, AloneIs
  <1> HIDE DEF c
  <1>7. ASSUME NEW g \in Files \ raced' PROVE FileOK(g)'
    <2>1. FileOK(g)
      BY <1>6 DEF BInv
    <2>2. CASE g = f
      <3>1. working[f] <= newest[f] /\ newest[f] \in Nat /\ working[f] \in Nat
        BY <1>2, <2>1, <2>2 DEF FileOK
      <3>2. working'[f] <= newest'[f]
        BY <1>3, <1>5, <3>1
      <3>3. QED
        BY <1>4, <1>5, <1>6, <2>2, <3>2, IdleIs DEF FileOK
    <2>3. CASE g # f
      BY <1>4, <1>5, <2>1, <2>3, IdleIs DEF FileOK
    <2>4. QED
      BY <2>2, <2>3
  <1>8. \A g \in Files \ raced' : working[g] <= working'[g]
    BY <1>2, <1>5
  <1>9. Shown'
    BY <1>1, <1>2, ShownStays DEF polygon
  <1>10. packages' = packages /\ revision' \in {revision, working} /\ working' \in [Files -> Nat]
    BY <1>1, <1>2 DEF polygon
  <1>11. Shape(Ended) /\ Ended.pc \in EditSteps
    BY IdleIs DEF EditSteps
  <1>12. QED
    BY <1>1, <1>2, <1>5, <1>6, <1>7, <1>8, <1>9, <1>10, <1>11, ActorMoves

LEMMA ReadFromPolygonKeeps ==
  ASSUME BInv, NEW e \in Edits, ReadFromPolygon(e)
  PROVE  BInv'
  <1> DEFINE k == [job[e] EXCEPT !.pc = "loaded", !.attempts = working]
  <1>1. /\ job[e].pc = "new" /\ UNCHANGED <<files, polygon, session, lost>>
        /\ job' = [job EXCEPT ![e] = k]
    BY DEF ReadFromPolygon, At
  <1>2. /\ e \in Actors /\ e \notin Builds /\ Shape(job[e]) /\ DOMAIN job[e] = Fields
        /\ DOMAIN job = Actors /\ working \in [Files -> Nat]
    BY <1>1, EditIs
  <1>3. /\ DOMAIN k = Fields /\ k.pc = "loaded" /\ k.file = job[e].file
        /\ k.content = job[e].content /\ k.sure = job[e].sure /\ k.attempts = working
        /\ k.rounds = job[e].rounds /\ k.fixes = job[e].fixes
    BY <1>2 DEF Fields
  <1>4. job'[e] = k /\ \A o \in Actors : o # e => job'[o] = job[o]
    BY <1>1, <1>2
  <1> HIDE DEF k
  <1>5. Shape(k) /\ k.pc \in EditSteps
    BY <1>2, <1>3 DEF Shape, EditSteps
  <1>6. store' = store /\ working' = working /\ newest' = newest /\ raced' = raced
    BY <1>1 DEF files
  <1>7. ASSUME NEW g \in Files \ raced' PROVE FileOK(g)' /\ working[g] <= working'[g]
    <2>1. FileOK(g)
      BY <1>6 DEF BInv
    <2>2. FileOK(g)'
      BY <1>3, <1>4, <1>6, <2>1 DEF FileOK
    <2>3. QED
      BY <1>2, <1>6, <2>2
  <1>8. Shown'
    BY <1>1, <1>2, ShownStays DEF polygon
  <1>9. /\ packages' = packages /\ revision' \in {revision, working}
        /\ store' \in [Files -> [content : Nat, uploaded : BOOLEAN]]
        /\ working' \in [Files -> Nat] /\ newest' \in [Files -> Nat] /\ raced \subseteq raced'
    BY <1>1, <1>6 DEF polygon, BInv, BuildType
  <1>10. QED
    BY <1>1, <1>2, <1>5, <1>7, <1>8, <1>9, ActorMoves

LEMMA StoreLoadedKeeps ==
  ASSUME BInv, NEW e \in Edits, StoreLoaded(e)
  PROVE  BInv'
  <1>1. /\ job[e].pc = "loaded" /\ UNCHANGED <<working, newest, polygon, session, lost>>
        /\ job' = [job EXCEPT ![e] = Ended]
        /\ store' = [f \in Files |-> [content |-> job[e].attempts[f], uploaded |-> TRUE]]
        /\ raced' = raced \cup {f \in Files : \E o \in Actors \ {e} : Writing(o, f)}
    BY DEF StoreLoaded, At
  <1>2. /\ e \in Actors /\ e \notin Builds /\ DOMAIN job = Actors /\ Shape(job[e])
        /\ working \in [Files -> Nat] /\ newest \in [Files -> Nat]
    BY <1>1, EditIs
  <1>3. job'[e] = Ended /\ \A o \in Actors : o # e => job'[o] = job[o]
    BY <1>1, <1>2
  <1>4. /\ store' \in [Files -> [content : Nat, uploaded : BOOLEAN]]
        /\ \A f \in Files : store'[f].content = job[e].attempts[f]
    BY <1>1, <1>2 DEF Shape
  <1>5. ASSUME NEW f \in Files \ raced' PROVE FileOK(f)' /\ working[f] <= working'[f]
    <2>1. FileOK(f)
      BY <1>1 DEF BInv
    <2>2. \A o \in Actors \ {e} : /\ job[o].pc \in {"push", "mark"} => job[o].file # f
                                  /\ job[o].pc # "loaded"
      BY <1>1 DEF Writing, At
    <2>3. store'[f].content = working[f] /\ working[f] <= newest[f]
      BY <1>1, <1>2, <1>4, <2>1 DEF FileOK
    <2>4. FileOK(f)'
      BY <1>1, <1>3, <2>2, <2>3, IdleIs DEF FileOK
    <2>5. QED
      BY <1>1, <1>2, <2>4
  <1>6. Shown'
    BY <1>1, <1>2, ShownStays DEF polygon
  <1>7. /\ packages' = packages /\ revision' \in {revision, working} /\ raced \subseteq raced'
        /\ working' \in [Files -> Nat] /\ newest' \in [Files -> Nat]
    BY <1>1, <1>2 DEF polygon
  <1>8. Shape(Ended) /\ Ended.pc \in EditSteps
    BY IdleIs DEF EditSteps
  <1>9. QED
    BY <1>1, <1>2, <1>4, <1>5, <1>6, <1>7, <1>8, ActorMoves
-----------------------------------------------------------------------------
LEMMA InitBInv ==
  ASSUME Init
  PROVE  BInv
  <1>1. \A a \in Actors : job[a] = Fresh
    BY DEF Init
  <1>2. working \in [Files -> Nat] /\ \A f \in Files : working[f] = 1
    BY DEF Init
  <1>3. packages \in Seq(PackageType)
    BY <1>2 DEF Init, PackageType
  <1>4. \A b \in Builds : PackagesOf(packages, b) = {}
    BY BuildAssumption DEF Init, PackagesOf
  <1>5. BuildType
    BY <1>1, <1>2, <1>3, IdleIs DEF Init, BuildType, Actors, BuildSteps, EditSteps
  <1>6. \A f \in Files \ raced : FileOK(f)
    BY <1>1, <1>2, IdleIs DEF Init, FileOK
  <1>7. Running = {}
    BY <1>1, IdleIs DEF Running, Actors
  <1>8. ASSUME NEW b \in Builds
        PROVE  /\ FixOK(job[b]) /\ PackOK(b, job[b], packages)
               /\ VerdictOK(b, job[b], packages, working, revision, raced)
    <2>1. /\ job[b] = Fresh /\ Cardinality(PackagesOf(packages, b)) = 0
          /\ Fresh.rounds \in Nat
      BY <1>1, <1>4, IdleIs, FS_EmptySet DEF Actors, Shape
    <2>2. PackOK(b, Fresh, packages)
      BY <2>1, IdleIs DEF PackOK
    <2>3. VerdictOK(b, Fresh, packages, working, revision, raced)
      BY IdleIs DEF VerdictOK
    <2>4. QED
      BY <2>1, <2>2, <2>3, IdleIs
  <1>9. Shown
    BY DEF Init, Shown, Pairs
  <1>10. QED
    BY <1>5, <1>6, <1>7, <1>8, <1>9 DEF BInv

LEMMA StutterKeeps ==
  ASSUME BInv, UNCHANGED vars
  PROVE  BInv'
  <1>1. UNCHANGED <<files, revision, session, job, lost>> /\ packages' = packages
    BY DEF vars, polygon
  <1>2. QED
    BY <1>1, StatesMove DEF BInv, BuildType

\* The inductive invariant: every step of every actor keeps it.
LEMMA BInvHolds == Spec => []BInv
  <1>1. Init => BInv
    BY InitBInv
  <1>2. BInv /\ [Next]_vars => BInv'
    <2> SUFFICES ASSUME BInv, [Next]_vars PROVE BInv'
      OBVIOUS
    <2>1. ASSUME NEW b \in Builds, StartBuild(b) \/ TaskStep(b) PROVE BInv'
      BY <2>1, StartBuildKeeps, PrepareKeeps, PackageIdsKeeps, CommitWorkKeeps,
         TriggerPackageKeeps, PollReadyKeeps, PollFailedKeeps, PollEndsKeeps, FixKeeps,
         FinalizeKeeps, BuildEndsKeeps DEF TaskStep
    <2>2. ASSUME NEW a \in Actors, SyncStep(a) PROVE BInv'
      BY <2>2, UpsertKeeps, PushKeeps, MarkUploadedKeeps, CommitFileKeeps DEF SyncStep
    <2>3. ASSUME NEW e \in Edits, EditStep(e) PROVE BInv'
      BY <2>3, ModifyFileKeeps, RefineFileKeeps, ReadFromPolygonKeeps, StoreLoadedKeeps
         DEF EditStep
    <2>4. ASSUME NEW i \in DOMAIN packages, ListPackage(i) \/ DecidePackage(i) PROVE BInv'
      BY <2>4, PolygonKeeps
    <2>5. CASE Restart
      BY <2>5, RestartKeeps
    <2>6. CASE UNCHANGED vars
      BY <2>6, StutterKeeps
    <2>7. QED
      BY <2>1, <2>2, <2>3, <2>4, <2>5, <2>6 DEF Next
  <1>3. QED
    BY <1>1, <1>2, PTL DEF Spec

\* A row marked as uploaded holds what Polygon's working copy holds, whatever
\* pushes fail, answers are lost and builds and edits take turns (sync_file,
\* _load_all), for files no two requests were writing at once.
THEOREM UploadedSound == Spec => []UploadedIsOnPolygon
  <1>1. BInv => UploadedIsOnPolygon
    BY DEF BInv, FileOK, UploadedIsOnPolygon
  <1>2. QED
    BY <1>1, BInvHolds, PTL

\* A build reported as done names its own READY package with the files it last
\* wrote, and with nothing running the session shows one verdict
\* (package_loop.py, build.py).
THEOREM VerdictTrue == Spec => []VerdictIsTrue
  <1>1. BInv => DoneIsOurs
    <2> SUFFICES ASSUME BInv, NEW b \in Builds, job[b].pc \in {"finalize", "apply"},
                        job[b].result = "done", job[b].sure
                 PROVE  LET p == packages[job[b].package]
                            f == job[b].file
                        IN  /\ p.by = b /\ p.state = "READY"
                            /\ f # None /\ f \notin raced => p.revision[f] >= job[b].content
      BY DEF DoneIsOurs
    <2>1. job[b].file \in Files \cup {None}
      BY DEF BInv, BuildType, Shape, Actors
    <2>2. VerdictOK(b, job[b], packages, working, revision, raced)
      BY DEF BInv
    <2>3. QED
      BY <2>1, <2>2 DEF VerdictOK
  <1>2. BInv => VerdictAgrees
    BY DEF BInv, Shown, VerdictAgrees, Pairs
  <1>3. QED
    BY <1>1, <1>2, BInvHolds, PTL DEF VerdictIsTrue

\* One round asks for one package at most, also when the call fails, and the
\* repairs of a build stay within the limits of a file and of the build
\* (NOT_REPEATABLE_METHODS, MAX_FILE_FIX_ATTEMPTS).
THEOREM RoundsBounded == Spec => []RoundsAreBounded
  <1>1. BInv => OnePackagePerRound
    BY DEF BInv, PackOK, PackagesOf, OnePackagePerRound, At
  <1>2. BInv => FixesBounded
    <2> SUFFICES ASSUME BInv, NEW b \in Builds
                 PROVE  /\ \A f \in Files : job[b].fixes[f] <= MaxFileFixAttempts
                        /\ MapThenSumSet(LAMBDA f : job[b].fixes[f], Files) <= MaxTotal
      BY DEF FixesBounded
    <2> DEFINE v == job[b].fixes
               w == job[b].attempts
    <2>1. /\ \A f \in Files : v[f] <= w[f] /\ w[f] <= MaxFileFixAttempts
          /\ SumOf(w, Files) <= MaxTotal
          /\ v \in [Files -> Nat] /\ w \in [Files -> Nat]
      BY DEF BInv, BuildType, Shape, FixOK, Actors
    <2> HIDE DEF v, w
    <2>2. \A f \in Files : v[f] \in Nat /\ w[f] \in Nat
      BY <2>1
    <2>3. /\ SumOf(v, Files) <= SumOf(w, Files)
          /\ SumOf(v, Files) \in Nat /\ SumOf(w, Files) \in Nat
      <3>1. SumOf(v, Files) <= SumOf(w, Files)
        BY <2>1, <2>2, FilesFinite, SumGrows
      <3>2. SumOf(v, Files) \in Nat
        BY <2>2, FilesFinite, SumTakes
      <3>3. SumOf(w, Files) \in Nat
        BY <2>2, FilesFinite, SumTakes
      <3>4. QED
        BY <3>1, <3>2, <3>3
    <2>4. MaxFileFixAttempts \in Nat /\ MaxTotal \in Nat
      BY FilesFinite DEF MaxTotal
    <2>5. SumOf(v, Files) <= MaxTotal /\ \A f \in Files : v[f] <= MaxFileFixAttempts
      BY <2>1, <2>2, <2>3, <2>4
    <2>6. QED
      BY <2>5 DEF v, SumOf
  <1>3. QED
    BY <1>1, <1>2, BInvHolds, PTL DEF RoundsAreBounded

-----------------------------------------------------------------------------
(* Exports *)
\* A problem's section of serve.cfg, with the directory it names.
Names == {Wanted[p] : p \in Problems} \X (Nat \ {0})
Sections ==
  [id : Nat \ {0}, short : Nat \ {0}, name : Names, extid : Problems \cup {Unset}, version : Nat]
ExportPlans == [id : Nat, short : Nat, name : Names \cup {<<>>}]

Outside == {"queued", "done", "failed"}
Stages == {"create", "commit", "fetch", "upload", "reread", "swap", "write", "tell", "save"}
Steps(pcs) == {j \in Jobs : jobs[j].pc \in pcs}

JobRecords ==
  [pc : Outside \cup Stages, req : Requests, tries : Nat, contest : Nat \cup {Unset}, blind : BOOLEAN,
   seen : Seq(Sections), plan : ExportPlans, stamp : Nat, version : Nat, ok : BOOLEAN]

ExportTypes ==
  /\ IsFiniteSet(DOMAIN contests) /\ DOMAIN contests \subseteq Nat \ {0}
  /\ contests \in [DOMAIN contests -> Seq(Sections)]
  /\ blocks \in Seq(Nat) /\ clock \in Nat /\ version \in [Problems -> Nat]
  /\ jobs \in [Jobs -> JobRecords]

\* The advisory lock is held by whoever is between the look at the blocks and the commit.
LockIsHeld ==
  /\ lock \in Jobs \cup {Unset}
  /\ \A j \in Jobs : (jobs[j].pc \in {"create", "commit"}) <=> (lock = j)

\* The contests anybody refers to; a contest whose row is not committed is none of them.
Homes == OldContests \cup {blocks[i] : i \in DOMAIN blocks}
HomesExist ==
  /\ Homes \subseteq DOMAIN contests
  /\ \A j \in Jobs :
       /\ jobs[j].pc = "commit" => Contest(j) \in DOMAIN contests \ Homes
       /\ jobs[j].pc \in Stages \ {"create", "commit"} => Contest(j) \in Homes
  /\ \A at \in DOMAIN published : at[2] \in Homes
  /\ \A at \in DOMAIN nlogn : at[1] \in Homes

PlansHold ==
  \A j \in Steps({"upload", "reread", "swap", "write"}) : jobs[j].plan = BuildPlan(jobs[j].seen, Problem(j))

\* Uploads are named after seconds that have passed, no two of a quiet contest after one.
Alone(j) == Contest(j) \notin contested
StampsDiffer ==
  /\ \A j \in Steps({"queued", "create", "commit", "fetch", "upload"}) : jobs[j].stamp = 0
  /\ \A j \in Steps({"reread", "swap", "write"}) :
       /\ jobs[j].stamp \in 1..clock
       /\ Alone(j) => \A i \in Steps({"reread", "swap", "write"}) : i # j => Stamped(i) # Stamped(j)
  /\ \A at \in DOMAIN staged \cup DOMAIN kept : at[3] \in 1..clock

UploadsWait ==
  \A j \in Steps({"reread", "swap"}) : Alone(j) =>
    /\ Stamped(j) \in DOMAIN staged \ DOMAIN kept
    /\ staged[Stamped(j)] = Packed(j)

WritersAlone ==
  \A j \in Steps({"swap", "write"}) : Alone(j) =>
    jobs[j].seen = contests[Contest(j)] /\ Writers(Contest(j)) = {j}

\* No two problems of a configuration share what names them.
Distinct(cfg) ==
  \A i, k \in DOMAIN cfg : i # k =>
    /\ cfg[i].id # cfg[k].id /\ cfg[i].short # cfg[k].short /\ cfg[i].name # cfg[k].name
    /\ cfg[i].extid # Unset => cfg[i].extid # cfg[k].extid
ConfigsSound == \A c \in DOMAIN contests \ contested : Distinct(contests[c])

\* The package d is what section s of contest c was made from, or a newer one whose
\* export was cut off.
Serves(d, c, s) == d.problem = s.extid /\ (d.version = s.version \/ <<c, s.extid>> \in torn)
DirsServed ==
  \A c \in DOMAIN contests \ contested : \A s \in Own(c) :
    /\ <<c, s.name>> \in DOMAIN dirs
    /\ dirs[<<c, s.name>>].problem = s.extid
    /\ \/ Serves(dirs[<<c, s.name>>], c, s)
       \/ \E j \in Writers(c) : Is(j, "write") /\ Problem(j) = s.extid

\* Until serve.cfg is written, the backup is what the old section was made from.
BackupsKept ==
  \A j \in Steps({"write"}) : Alone(j) =>
    /\ Final(j) \in DOMAIN dirs /\ dirs[Final(j)] = Packed(j)
    /\ \A s \in Own(Contest(j)) : s.name = jobs[j].plan.name =>
         Stamped(j) \in DOMAIN kept /\ Serves(kept[Stamped(j)], Contest(j), s)

\* A problem is served under an id in a contest.
IsServed(c, id, p) == \E s \in Own(c) : s.id = id /\ s.extid = p
ToldIsServed ==
  \A j \in Steps({"tell", "save"}) : Alone(j) => IsServed(Contest(j), jobs[j].plan.id, Problem(j))

NewestIsFull == blocks = <<>> \/ ~HasRoom(Newest) \/ Newest \in contested
BlocksAreFull ==
  \A j \in Steps({"create", "commit"}) : jobs[j].blind \/ NewestIsFull

ExportIInv ==
  /\ ExportTypes /\ LockIsHeld /\ HomesExist /\ PlansHold /\ StampsDiffer /\ UploadsWait
  /\ WritersAlone /\ ConfigsSound /\ DirsServed /\ BackupsKept /\ ToldIsServed
  /\ PublishedIsServed /\ BlocksAreFull

\* A finite set has no more images than elements.
LEMMA ImagesAreFew ==
  ASSUME NEW S, IsFiniteSet(S), NEW f
  PROVE  LET T == {f[x] : x \in S}
         IN  IsFiniteSet(T) /\ Cardinality(T) <= Cardinality(S)
  <1> DEFINE T == {f[x] : x \in S}
             h == [x \in S |-> f[x]]
  <1>1. h \in [S -> T] /\ \A y \in T : \E x \in S : h[x] = y
    OBVIOUS
  <1> HIDE DEF h, T
  <1>2. h \in Surjection(S, T)
    BY <1>1 DEF Surjection
  <1>3. IsFiniteSet(T) /\ Cardinality(T) <= Cardinality(S)
    BY <1>2, FS_Surjection
  <1>4. QED
    BY <1>3 DEF T

\* Of n + 1 different values one is not among n: the smallest free index exists.
LEMMA OneIsFree ==
  ASSUME NEW n \in Nat, NEW S, IsFiniteSet(S), Cardinality(S) <= n,
         NEW f, \A i, k \in 1..(n + 1) : f[i] = f[k] => i = k
  PROVE  LET free == {i \in 1..(n + 1) : f[i] \notin S}
         IN  Min(free) \in 1..(n + 1) /\ f[Min(free)] \notin S
  <1> DEFINE I == 1..(n + 1)
             free == {i \in I : f[i] \notin S}
             h == [i \in I |-> f[i]]
  <1>1. IsFiniteSet(I) /\ Cardinality(I) = n + 1
    BY FS_Interval
  <1>2. free # {}
    <2>1. SUFFICES ASSUME free = {} PROVE FALSE
      OBVIOUS
    <2>2. h \in [I -> S] /\ \A i \in I : h[i] = f[i]
      BY <2>1
    <2>3. Cardinality(S) < Cardinality(I)
      BY <1>1, FS_CardinalityType
    <2> HIDE DEF I, h, free
    <2>4. \E i, k \in I : i # k /\ h[i] = h[k]
      BY <1>1, <2>2, <2>3, FS_PigeonHole
    <2>5. QED
      BY <2>2, <2>4 DEF I
  <1>3. IsFiniteSet(free) /\ free \in SUBSET Nat
    <2>1. free \in SUBSET I
      OBVIOUS
    <2>2. I \subseteq Nat
      OBVIOUS
    <2> HIDE DEF I, free
    <2>3. QED
      BY <1>1, <2>1, <2>2, FS_Subset
  <1>4. Min(free) \in free
    <2> HIDE DEF free
    <2> QED
      BY <1>2, <1>3, MinIsLeast
  <1>5. QED
    BY <1>4

\* The ids of serve.cfg leave the next one free.
LEMMA NextIdIsFree ==
  ASSUME NEW cfg \in Seq(Sections)
  PROVE  NextId(cfg) \in Nat \ {0} /\ \A i \in DOMAIN cfg : cfg[i].id # NextId(cfg)
  <1> DEFINE S == DOMAIN cfg
             f == [i \in S |-> cfg[i].id]
             m == Max({0} \cup {f[i] : i \in S})
  <1>1. S = 1..Len(cfg) /\ Len(cfg) \in Nat /\ \A i \in S : cfg[i] \in Sections
    OBVIOUS
  <1>2. IsFiniteSet(S)
    BY <1>1, FS_Interval
  <1>3. \A i \in S : f[i] = cfg[i].id /\ f[i] \in Nat
    BY <1>1 DEF Sections
  <1>4. {f[i] : i \in S} = {cfg[i].id : i \in S}
    BY <1>3
  <1>5. NextId(cfg) = 1 + m
    BY <1>4 DEF NextId
  <1>6. m \in Nat /\ \A i \in S : f[i] <= m
    <2> HIDE DEF f, S
    <2> QED
      BY <1>2, <1>3, MaxOfValues, SMTT(30)
  <1> HIDE DEF m, f
  <1>7. QED
    BY <1>3, <1>5, <1>6

\* The other problems of serve.cfg have no more names of a kind than it has problems.
LEMMA OthersAreFew ==
  ASSUME NEW cfg \in Seq(Sections), NEW at, NEW f
  PROVE  LET T == {f[i] : i \in DOMAIN cfg \ {at}}
         IN  IsFiniteSet(T) /\ Cardinality(T) <= Len(cfg)
  <1> DEFINE S == DOMAIN cfg
  <1>1. IsFiniteSet(S) /\ Cardinality(S) = Len(cfg) /\ Len(cfg) \in Nat
    <2>1. S = 1..Len(cfg) /\ Len(cfg) \in Nat
      OBVIOUS
    <2>2. /\ IsFiniteSet(1..Len(cfg))
          /\ Cardinality(1..Len(cfg)) = IF 1 > Len(cfg) THEN 0 ELSE Len(cfg) - 1 + 1
      BY <2>1, FS_Interval, SMTT(30)
    <2>3. QED
      BY <2>1, <2>2
  <1> HIDE DEF S
  <1>2. IsFiniteSet(S \ {at}) /\ Cardinality(S \ {at}) <= Cardinality(S) /\ Cardinality(S \ {at}) \in Nat
    BY <1>1, FS_Subset, FS_CardinalityType, S \ {at} \in SUBSET S
  <1>3. /\ IsFiniteSet({f[i] : i \in S \ {at}})
        /\ Cardinality({f[i] : i \in S \ {at}}) <= Cardinality(S \ {at})
    BY <1>2, ImagesAreFew
  <1>4. Cardinality({f[i] : i \in S \ {at}}) \in Nat
    BY <1>3, FS_CardinalityType
  <1>5. QED
    BY <1>1, <1>2, <1>3, <1>4 DEF S

\* A free internal name is free, and is one of the names a package may get.
LEMMA FreeNameIsFree ==
  ASSUME NEW cfg \in Seq(Sections), NEW at, NEW p \in Problems
  PROVE  /\ FreeName(cfg, Wanted[p], at) \in Names
         /\ \A i \in DOMAIN cfg \ {at} : cfg[i].name # FreeName(cfg, Wanted[p], at)
  <1> DEFINE n == Len(cfg)
             T == {s.name : s \in Others(cfg, at)}
             f == [i \in 1..(n + 1) |-> <<Wanted[p], i>>]
             g == [i \in DOMAIN cfg |-> cfg[i].name]
             free == {i \in 1..(n + 1) : f[i] \notin T}
  <1>1. n \in Nat
    OBVIOUS
  <1>2. T = {g[i] : i \in DOMAIN cfg \ {at}}
    BY DEF Others
  <1>3. IsFiniteSet(T) /\ Cardinality(T) <= n
    <2> HIDE DEF g
    <2>1. /\ IsFiniteSet({g[i] : i \in DOMAIN cfg \ {at}})
          /\ Cardinality({g[i] : i \in DOMAIN cfg \ {at}}) <= Len(cfg)
      BY OthersAreFew
    <2> HIDE DEF T
    <2>2. QED
      BY <1>2, <2>1
  <1>4. \A i \in 1..(n + 1) : f[i] = <<Wanted[p], i>>
    OBVIOUS
  <1>5. \A i, k \in 1..(n + 1) : f[i] = f[k] => i = k
    OBVIOUS
  <1>6. Min(free) \in 1..(n + 1) /\ f[Min(free)] \notin T
    <2> HIDE DEF f, T, n
    <2> QED
      BY <1>1, <1>3, <1>5, OneIsFree
  <1>7. free = {i \in 1..(n + 1) : <<Wanted[p], i>> \notin T}
    BY <1>4
  <1>8. FreeName(cfg, Wanted[p], at) = <<Wanted[p], Min(free)>>
    BY <1>7 DEF FreeName
  <1>9. <<Wanted[p], Min(free)>> \notin T
    BY <1>4, <1>6
  <1> HIDE DEF free, f
  <1>10. QED
    BY <1>1, <1>6, <1>8, <1>9 DEF Names, Others

\* A free short name is free.
LEMMA FreeShortIsFree ==
  ASSUME NEW cfg \in Seq(Sections), NEW at, NEW short \in Nat \cup {Unset}, short # 0
  PROVE  /\ FreeShort(cfg, short, at) \in Nat \ {0}
         /\ \A i \in DOMAIN cfg \ {at} : cfg[i].short # FreeShort(cfg, short, at)
  <1> DEFINE n == Len(cfg)
             T == {s.short : s \in Others(cfg, at)}
             f == [i \in 1..(n + 1) |-> i]
             g == [i \in DOMAIN cfg |-> cfg[i].short]
             free == {i \in 1..(n + 1) : f[i] \notin T}
  <1>1. n \in Nat
    OBVIOUS
  <1>2. T = {g[i] : i \in DOMAIN cfg \ {at}}
    BY DEF Others
  <1>3. IsFiniteSet(T) /\ Cardinality(T) <= n
    <2> HIDE DEF g
    <2>1. /\ IsFiniteSet({g[i] : i \in DOMAIN cfg \ {at}})
          /\ Cardinality({g[i] : i \in DOMAIN cfg \ {at}}) <= Len(cfg)
      BY OthersAreFew
    <2> HIDE DEF T
    <2>2. QED
      BY <1>2, <2>1
  <1>4. \A i \in 1..(n + 1) : f[i] = i
    OBVIOUS
  <1>5. \A i, k \in 1..(n + 1) : f[i] = f[k] => i = k
    OBVIOUS
  <1>6. Min(free) \in 1..(n + 1) /\ f[Min(free)] \notin T
    <2> HIDE DEF f, T, n
    <2> QED
      BY <1>1, <1>3, <1>5, OneIsFree
  <1>7. free = (1..(n + 1)) \ T
    BY <1>4
  <1>8. FreeShort(cfg, short, at) = IF short # Unset /\ short \notin T THEN short ELSE Min(free)
    BY <1>7 DEF FreeShort
  <1>9. Min(free) \notin T /\ Min(free) \in Nat \ {0}
    BY <1>1, <1>4, <1>6
  <1>10. \A i \in DOMAIN cfg \ {at} : cfg[i].short \in T
    BY DEF Others
  <1> HIDE DEF free, f, T
  <1>11. FreeShort(cfg, short, at) \in Nat \ {0} /\ FreeShort(cfg, short, at) \notin T
    BY <1>8, <1>9
  <1>12. QED
    BY <1>10, <1>11

\* Where serve.cfg has the problem, or nowhere.
LEMMA FoundIsOwn ==
  ASSUME NEW cfg \in Seq(Sections), NEW p \in Problems, NEW id,
         \A i \in DOMAIN cfg : cfg[i].id = id => cfg[i].extid = p
  PROVE  LET at == FindProblem(cfg, p, id)
         IN  \/ at = 0 /\ \A i \in DOMAIN cfg : cfg[i].extid # p
             \/ at \in DOMAIN cfg /\ cfg[at].extid = p
  <1> DEFINE own == {i \in DOMAIN cfg : cfg[i].extid = p}
             same == {i \in DOMAIN cfg : cfg[i].id = id}
  <1>1. CASE own = {}
    <2>1. same = {}
      BY <1>1
    <2>2. FindProblem(cfg, p, id) = 0
      BY <1>1, <2>1 DEF FindProblem
    <2>3. QED
      BY <1>1, <2>2
  <1>2. CASE own # {}
    <2>1. DOMAIN cfg = 1..Len(cfg) /\ Len(cfg) \in Nat
      OBVIOUS
    <2>2. own \in SUBSET (1..Len(cfg)) /\ own \in SUBSET Nat
      BY <2>1
    <2>3. IsFiniteSet(own)
      <3>1. IsFiniteSet(1..Len(cfg))
        BY <2>1, FS_Interval
      <3> HIDE DEF own
      <3>2. QED
        BY <2>2, <3>1, FS_Subset
    <2>4. Min(own) \in own
      <3> HIDE DEF own
      <3> QED
        BY <1>2, <2>2, <2>3, MinIsLeast
    <2>5. FindProblem(cfg, p, id) = Min(own)
      BY <1>2 DEF FindProblem
    <2>6. QED
      BY <2>4, <2>5
  <1>3. QED
    BY <1>1, <1>2

\* Where an export puts a problem: in the place it has, or under what nobody else has.
LEMMA PlanFits ==
  ASSUME NEW cfg \in Seq(Sections), NEW p \in Problems
  PROVE  LET plan == BuildPlan(cfg, p)
             at == FindProblem(cfg, p, 0)
         IN  /\ plan \in [id : Nat \ {0}, short : Nat \ {0}, name : Names]
             /\ \/ /\ at = 0
                   /\ \A i \in DOMAIN cfg : /\ cfg[i].extid # p
                                            /\ cfg[i].id # plan.id
                                            /\ cfg[i].short # plan.short
                                            /\ cfg[i].name # plan.name
                \/ /\ at \in DOMAIN cfg
                   /\ cfg[at].extid = p
                   /\ plan.id = cfg[at].id
                   /\ plan.name = cfg[at].name \/ \E i \in DOMAIN cfg \ {at} : cfg[i].name = cfg[at].name
                   /\ \A i \in DOMAIN cfg \ {at} : cfg[i].short # plan.short /\ cfg[i].name # plan.name
  <1> DEFINE plan == BuildPlan(cfg, p)
             at == FindProblem(cfg, p, 0)
             free == FreeName(cfg, Wanted[p], at)
             short == FreeShort(cfg, IF at = 0 THEN Unset ELSE cfg[at].short, at)
  <1>1. \A i \in DOMAIN cfg : cfg[i] \in Sections
    OBVIOUS
  <1>2. \/ at = 0 /\ \A i \in DOMAIN cfg : cfg[i].extid # p
        \/ at \in DOMAIN cfg /\ cfg[at].extid = p
    <2>1. \A i \in DOMAIN cfg : cfg[i].id # 0
      BY <1>1 DEF Sections
    <2>2. QED
      BY <2>1, FoundIsOwn
  <1>3. free \in Names /\ \A i \in DOMAIN cfg \ {at} : cfg[i].name # free
    BY FreeNameIsFree
  <1>4. at = 0 => at \notin DOMAIN cfg
    OBVIOUS
  <1>5. NextId(cfg) \in Nat \ {0} /\ \A i \in DOMAIN cfg : cfg[i].id # NextId(cfg)
    BY NextIdIsFree
  <1>6. short \in Nat \ {0} /\ \A i \in DOMAIN cfg \ {at} : cfg[i].short # short
    <2>1. at # 0 => cfg[at] \in Sections
      BY <1>1, <1>2
    <2>2. (IF at = 0 THEN Unset ELSE cfg[at].short) \in Nat \cup {Unset}
      BY <2>1 DEF Sections
    <2>3. (IF at = 0 THEN Unset ELSE cfg[at].short) # 0
      BY <2>1, ExportAssumption DEF Sections
    <2> HIDE DEF at
    <2>4. QED
      BY <2>2, <2>3, FreeShortIsFree
  <1>7. /\ plan.id = (IF at = 0 THEN NextId(cfg) ELSE cfg[at].id)
        /\ plan.short = short
        /\ plan.name = IF at = 0 THEN free
                       ELSE IF cfg[at].name \in {s.name : s \in Others(cfg, at)} THEN free ELSE cfg[at].name
        /\ plan = [id |-> plan.id, short |-> plan.short, name |-> plan.name]
    <2>1. at = 0 => free = FreeName(cfg, Wanted[p], 0)
      OBVIOUS
    <2> HIDE DEF at
    <2>2. QED
      BY <2>1 DEF BuildPlan, at
  <1>8. cfg[at].name \notin {s.name : s \in Others(cfg, at)} => \A i \in DOMAIN cfg \ {at} : cfg[i].name # cfg[at].name
    BY DEF Others
  <1>9. cfg[at].name \in {s.name : s \in Others(cfg, at)} => \E i \in DOMAIN cfg \ {at} : cfg[i].name = cfg[at].name
    BY DEF Others
  <1> HIDE DEF plan, at, free, short
  <1>10. CASE at = 0
    <2>1. plan \in [id : Nat \ {0}, short : Nat \ {0}, name : Names]
      BY <1>3, <1>5, <1>6, <1>7, <1>10
    <2>2. QED
      BY <1>2, <1>3, <1>4, <1>5, <1>6, <1>7, <1>10, <2>1 DEF plan, at
  <1>11. CASE at # 0
    <2>1. at \in DOMAIN cfg /\ cfg[at].extid = p /\ cfg[at] \in Sections
      BY <1>1, <1>2, <1>11
    <2>2. plan.id = cfg[at].id /\ plan.short = short
      BY <1>7, <1>11
    <2>3. plan.name \in {free, cfg[at].name}
      BY <1>7, <1>11
    <2>4. plan \in [id : Nat \ {0}, short : Nat \ {0}, name : Names]
      BY <1>3, <1>6, <1>7, <2>1, <2>2, <2>3 DEF Sections
    <2>5. \A i \in DOMAIN cfg \ {at} : cfg[i].short # plan.short /\ cfg[i].name # plan.name
      BY <1>3, <1>6, <1>7, <1>8, <1>11, <2>2
    <2>6. plan.name = cfg[at].name \/ \E i \in DOMAIN cfg \ {at} : cfg[i].name = cfg[at].name
      BY <1>7, <1>9, <1>11
    <2>7. QED
      BY <2>1, <2>2, <2>4, <2>5, <2>6 DEF plan, at
  <1>12. QED
    BY <1>10, <1>11

\* The section of problem p, written as the k-th.
WrittenAt(cfg, new, p, v, plan, k) ==
  /\ new[k] = Section(p, v, plan)
  /\ DOMAIN new = DOMAIN cfg \cup {k}
  /\ \A i \in DOMAIN cfg \ {k} : new[i] = cfg[i]
  /\ Distinct(cfg) => \A i \in DOMAIN cfg \ {k} : cfg[i].extid # p
  /\ k \in DOMAIN cfg => cfg[k].extid = p /\ cfg[k].id = plan.id
  /\ Distinct(cfg) /\ k \in DOMAIN cfg => cfg[k].name = plan.name

\* What a written section leaves: the problem where the plan puts it, the others as they were.
LEMMA SectionKeeps ==
  ASSUME NEW cfg \in Seq(Sections), NEW p \in Problems, NEW v \in Nat,
         NEW plan, plan = BuildPlan(cfg, p), NEW new, new = UpsertProblem(cfg, p, v, plan)
  PROVE  /\ new \in Seq(Sections) /\ Len(new) >= Len(cfg)
         /\ Distinct(cfg) => Distinct(new)
         /\ \E k \in DOMAIN new : WrittenAt(cfg, new, p, v, plan, k)
  <1> DEFINE at == FindProblem(cfg, p, 0)
             s == Section(p, v, plan)
  <1>1. /\ plan \in [id : Nat \ {0}, short : Nat \ {0}, name : Names]
        /\ \/ /\ at = 0
              /\ \A i \in DOMAIN cfg : /\ cfg[i].extid # p
                                       /\ cfg[i].id # plan.id
                                       /\ cfg[i].short # plan.short
                                       /\ cfg[i].name # plan.name
           \/ /\ at \in DOMAIN cfg
              /\ cfg[at].extid = p
              /\ plan.id = cfg[at].id
              /\ plan.name = cfg[at].name \/ \E i \in DOMAIN cfg \ {at} : cfg[i].name = cfg[at].name
              /\ \A i \in DOMAIN cfg \ {at} : cfg[i].short # plan.short /\ cfg[i].name # plan.name
    BY PlanFits
  <1>2. DOMAIN cfg = 1..Len(cfg) /\ Len(cfg) \in Nat /\ \A i \in DOMAIN cfg : cfg[i] \in Sections
    OBVIOUS
  <1>3. /\ s \in Sections /\ s.id = plan.id /\ s.short = plan.short /\ s.name = plan.name /\ s.extid = p
    BY <1>1 DEF Section, Sections
  <1>4. CASE at = 0
    <2>1. \A i \in DOMAIN cfg : /\ cfg[i].extid # p
                                /\ cfg[i].id # plan.id
                                /\ cfg[i].short # plan.short
                                /\ cfg[i].name # plan.name
      BY <1>1, <1>2, <1>4
    <2>2. FindProblem(cfg, p, plan.id) = 0
      <3>1. {i \in DOMAIN cfg : cfg[i].extid = p} = {} /\ {i \in DOMAIN cfg : cfg[i].id = plan.id} = {}
        BY <2>1
      <3>2. QED
        BY <3>1 DEF FindProblem
    <2>3. new = Append(cfg, s)
      BY <2>2 DEF UpsertProblem
    <2> DEFINE k == Len(cfg) + 1
    <2> HIDE DEF s
    <2>4. new \in Seq(Sections) /\ Len(new) = k /\ new[k] = s /\ \A i \in DOMAIN cfg : new[i] = cfg[i]
      BY <1>2, <1>3, <2>3
    <2>5. DOMAIN new = DOMAIN cfg \cup {k} /\ k \notin DOMAIN cfg
      BY <1>2, <2>4
    <2>6. Distinct(cfg) => Distinct(new)
      <3> SUFFICES ASSUME Distinct(cfg), NEW i \in DOMAIN new, NEW j \in DOMAIN new, i # j
                   PROVE  /\ new[i].id # new[j].id /\ new[i].short # new[j].short /\ new[i].name # new[j].name
                          /\ new[i].extid # Unset => new[i].extid # new[j].extid
        BY DEF Distinct
      <3>1. CASE i = k
        BY <1>3, <2>1, <2>4, <2>5, <3>1
      <3>2. CASE j = k
        BY <1>3, <2>1, <2>4, <2>5, <3>2
      <3>3. CASE i # k /\ j # k
        BY <2>4, <2>5, <3>3 DEF Distinct
      <3>4. QED
        BY <3>1, <3>2, <3>3
    <2>7. Len(new) >= Len(cfg) /\ k \in DOMAIN new
      BY <1>2, <2>4, <2>5
    <2>8. QED
      BY <2>1, <2>4, <2>5, <2>6, <2>7 DEF s, WrittenAt
  <1>5. CASE at # 0
    <2>1. /\ at \in DOMAIN cfg /\ cfg[at].extid = p /\ plan.id = cfg[at].id
          /\ plan.name = cfg[at].name \/ \E i \in DOMAIN cfg \ {at} : cfg[i].name = cfg[at].name
          /\ \A i \in DOMAIN cfg \ {at} : cfg[i].short # plan.short /\ cfg[i].name # plan.name
      BY <1>1, <1>5
    <2>2. FindProblem(cfg, p, plan.id) = at
      <3>1. {i \in DOMAIN cfg : cfg[i].extid = p} # {}
        BY <2>1
      <3>2. QED
        BY <3>1 DEF FindProblem
    <2>3. new = [cfg EXCEPT ![at] = s]
      BY <1>5, <2>2 DEF UpsertProblem
    <2> HIDE DEF s, at
    <2>4. new \in Seq(Sections) /\ Len(new) = Len(cfg) /\ DOMAIN new = DOMAIN cfg
      BY <1>2, <1>3, <2>1, <2>3
    <2>5. new[at] = s /\ \A i \in DOMAIN cfg \ {at} : new[i] = cfg[i]
      BY <1>2, <2>1, <2>3
    <2>6. Distinct(cfg) => plan.name = cfg[at].name /\ \A i \in DOMAIN cfg \ {at} : cfg[i].extid # p
      <3>1. p # Unset
        BY ExportAssumption
      <3>2. QED
        BY <2>1, <3>1 DEF Distinct
    <2>7. Distinct(cfg) => Distinct(new)
      <3> SUFFICES ASSUME Distinct(cfg), NEW i \in DOMAIN new, NEW j \in DOMAIN new, i # j
                   PROVE  /\ new[i].id # new[j].id /\ new[i].short # new[j].short /\ new[i].name # new[j].name
                          /\ new[i].extid # Unset => new[i].extid # new[j].extid
        BY DEF Distinct
      <3>0. i \in DOMAIN cfg /\ j \in DOMAIN cfg
        BY <2>4
      <3>5. cfg[i].id # cfg[j].id
        BY <3>0 DEF Distinct
      <3>1. CASE i = at
        BY <1>3, <2>1, <2>5, <2>6, <3>0, <3>1, <3>5
      <3>2. CASE j = at
        BY <1>3, <2>1, <2>5, <2>6, <3>0, <3>2, <3>5
      <3>3. CASE i # at /\ j # at
        BY <2>5, <3>0, <3>3 DEF Distinct
      <3>4. QED
        BY <3>1, <3>2, <3>3
    <2>8. QED
      BY <1>2, <2>1, <2>4, <2>5, <2>6, <2>7 DEF s, WrittenAt
  <1>6. QED
    BY <1>4, <1>5

\* A problem somebody adds by hand has an id and names of its own.
LEMMA AddedIsApart ==
  ASSUME NEW cfg \in Seq(Sections), NEW p \in Problems, NEW own,
         own = [id |-> NextId(cfg), short |-> FreeShort(cfg, Unset, 0), name |-> FreeName(cfg, Wanted[p], 0)]
  PROVE  LET new == Append(cfg, Section(Unset, 0, own))
             k == Len(cfg) + 1
         IN  /\ new \in Seq(Sections) /\ Len(new) >= Len(cfg)
             /\ Distinct(cfg) => Distinct(new)
             /\ DOMAIN new = DOMAIN cfg \cup {k} /\ new[k].extid = Unset /\ k \notin DOMAIN cfg
             /\ \A i \in DOMAIN cfg : new[i] = cfg[i] /\ cfg[i].name # own.name
  <1> DEFINE s == Section(Unset, 0, own)
             new == Append(cfg, s)
             k == Len(cfg) + 1
  <1>1. DOMAIN cfg = 1..Len(cfg) /\ Len(cfg) \in Nat /\ 0 \notin DOMAIN cfg
    OBVIOUS
  <1>2. NextId(cfg) \in Nat \ {0} /\ \A i \in DOMAIN cfg : cfg[i].id # NextId(cfg)
    BY NextIdIsFree
  <1>3. /\ FreeShort(cfg, Unset, 0) \in Nat \ {0}
        /\ \A i \in DOMAIN cfg : cfg[i].short # FreeShort(cfg, Unset, 0)
    <2>1. Unset \in Nat \cup {Unset} /\ Unset # 0
      BY ExportAssumption
    <2>2. QED
      BY <1>1, <2>1, FreeShortIsFree
  <1>4. /\ FreeName(cfg, Wanted[p], 0) \in Names
        /\ \A i \in DOMAIN cfg : cfg[i].name # FreeName(cfg, Wanted[p], 0)
    BY <1>1, FreeNameIsFree
  <1>5. /\ s \in Sections /\ s.id = own.id /\ s.short = own.short /\ s.name = own.name /\ s.extid = Unset
        /\ \A i \in DOMAIN cfg : cfg[i].id # own.id /\ cfg[i].short # own.short /\ cfg[i].name # own.name
    BY <1>2, <1>3, <1>4 DEF Section, Sections
  <1> HIDE DEF s
  <1>6. new \in Seq(Sections) /\ Len(new) = k /\ new[k] = s /\ \A i \in DOMAIN cfg : new[i] = cfg[i]
    BY <1>1, <1>5
  <1> HIDE DEF new
  <1>7. DOMAIN new = DOMAIN cfg \cup {k} /\ k \notin DOMAIN cfg
    BY <1>1, <1>6
  <1>8. Distinct(cfg) => Distinct(new)
    <2> SUFFICES ASSUME Distinct(cfg), NEW i \in DOMAIN new, NEW j \in DOMAIN new, i # j
                 PROVE  /\ new[i].id # new[j].id /\ new[i].short # new[j].short /\ new[i].name # new[j].name
                        /\ new[i].extid # Unset => new[i].extid # new[j].extid
      BY DEF Distinct
    <2>1. CASE i = k
      BY <1>5, <1>6, <1>7, <2>1
    <2>2. CASE j = k
      BY <1>5, <1>6, <1>7, <2>2
    <2>3. CASE i # k /\ j # k
      BY <1>6, <1>7, <2>3 DEF Distinct
    <2>4. QED
      BY <2>1, <2>2, <2>3
  <1>9. QED
    BY <1>1, <1>5, <1>6, <1>7, <1>8 DEF new, s

\* The steps of a job.
JobActs(j) ==
  \/ ChooseContest(j) \/ MakeContest(j) \/ MakeFails(j) \/ CommitContest(j)
  \/ PlanExport(j) \/ Upload(j) \/ UploadFails(j) \/ Reread(j)
  \/ Swap(j) \/ WriteServeCfg(j) \/ WriteFails(j)
  \/ Tell(j) \/ SavePublication(j) \/ Crash(j)

\* A function with one more value.
LEMMA PutIs ==
  ASSUME NEW f, NEW x, NEW y
  PROVE  /\ DOMAIN Put(f, x, y) = DOMAIN f \cup {x} /\ Put(f, x, y)[x] = y
         /\ \A z \in DOMAIN f \ {x} : Put(f, x, y)[z] = f[z]
  BY DEF Put

\* A function with one value less.
LEMMA WithoutIs ==
  ASSUME NEW f, NEW x
  PROVE  /\ DOMAIN Without(f, x) = DOMAIN f \ {x}
         /\ \A z \in DOMAIN f \ {x} : Without(f, x)[z] = f[z]
  BY DEF Without, Restrict

\* What a step makes of the jobs: one of them goes on, or is over or queued again.
Rest(j) == \A i \in Jobs \ {j} : jobs'[i] = jobs[i]
Turns(j, pc) ==
  /\ Rest(j) /\ jobs' \in [Jobs -> JobRecords] /\ jobs'[j].req = jobs[j].req
  /\ jobs'[j].pc = pc
Leaves(j) ==
  /\ Rest(j) /\ jobs' \in [Jobs -> JobRecords] /\ jobs'[j].req = jobs[j].req
  /\ jobs'[j].pc \in Outside /\ jobs'[j].stamp = 0
SameTarget(j) ==
  /\ jobs'[j].contest = jobs[j].contest /\ jobs'[j].blind = jobs[j].blind
SamePlan(j) ==
  /\ jobs'[j].plan = jobs[j].plan /\ jobs'[j].version = jobs[j].version
SameFiles(j) == jobs'[j].stamp = jobs[j].stamp

\* A job that is over keeps its request and nothing else.
LEMMA EndsLeaves ==
  ASSUME ExportTypes, NEW j \in Jobs, NEW pc \in Outside, Ends(j, pc)
  PROVE  Leaves(j)
  <1>1. jobs[j] \in JobRecords
    BY DEF ExportTypes
  <1>2. Idle(pc, jobs[j].req, jobs[j].tries) \in JobRecords
    BY <1>1 DEF Idle, JobRecords, ExportPlans, NoPlan
  <1>3. jobs' = [jobs EXCEPT ![j] = Idle(pc, jobs[j].req, jobs[j].tries)]
    BY DEF Ends
  <1>4. jobs'[j] = Idle(pc, jobs[j].req, jobs[j].tries)
    BY <1>3 DEF ExportTypes
  <1>5. Rest(j) /\ jobs' \in [Jobs -> JobRecords]
    BY <1>2, <1>3 DEF ExportTypes, Rest
  <1>6. QED
    BY <1>4, <1>5 DEF Leaves, Idle

\* A job that goes on keeps everything.
LEMMA GoesTurns ==
  ASSUME ExportTypes, NEW j \in Jobs, NEW pc \in Stages, Goes(j, pc)
  PROVE  Turns(j, pc) /\ SameTarget(j) /\ SamePlan(j) /\ SameFiles(j) /\ jobs'[j].seen = jobs[j].seen
  <1>1. jobs[j] \in JobRecords
    BY DEF ExportTypes
  <1>2. jobs'[j] = [jobs[j] EXCEPT !.pc = pc]
    BY DEF ExportTypes, Goes
  <1>3. jobs'[j] \in JobRecords
    BY <1>1, <1>2 DEF JobRecords
  <1>4. Rest(j) /\ jobs' \in [Jobs -> JobRecords]
    BY <1>3 DEF ExportTypes, Rest, Goes
  <1>5. QED
    BY <1>1, <1>2, <1>4 DEF Turns, SameTarget, SamePlan, SameFiles, JobRecords

\* A job that has chosen goes to its contest.
LEMMA ChosenTurns ==
  ASSUME ExportTypes, NEW j \in Jobs, NEW c \in Nat, Chooses(j, c)
  PROVE  /\ Turns(j, "fetch") /\ SameFiles(j) /\ jobs'[j].contest = c
         /\ UNCHANGED lock
  <1>1. jobs[j] \in JobRecords
    BY DEF ExportTypes
  <1>2. jobs'[j] = [jobs[j] EXCEPT !.pc = "fetch", !.contest = c]
    BY DEF ExportTypes, Chooses
  <1>3. jobs'[j] \in JobRecords
    BY <1>1, <1>2 DEF JobRecords, Stages
  <1>4. Rest(j) /\ jobs' \in [Jobs -> JobRecords]
    BY <1>3 DEF ExportTypes, Rest, Chooses
  <1>5. QED
    BY <1>1, <1>2, <1>4 DEF Turns, SameFiles, JobRecords, Chooses

\* A job without a contest finds one, or finds the newest block full and takes the lock.
LEMMA ChooseContestMoves ==
  ASSUME ExportTypes, HomesExist, NEW j \in Jobs, ChooseContest(j)
  PROVE  /\ SameFiles(j)
         /\ UNCHANGED <<contests, dirs, staged, kept, blocks, published, nlogn, version, clock, contested, torn>>
         /\ \/ Turns(j, "fetch") /\ jobs'[j].contest \in Homes /\ UNCHANGED lock
            \/ /\ Turns(j, "create") /\ (jobs'[j].blind \/ NewestIsFull)
               /\ lock = Unset /\ lock' = j
  <1>1. jobs[j] \in JobRecords /\ jobs[j].req \in Requests
    BY DEF ExportTypes, JobRecords
  <1>2. UNCHANGED <<contests, dirs, staged, kept, blocks, published, nlogn, version, clock, contested, torn>>
    BY DEF ChooseContest, host
  <1>3. Homes \subseteq Nat
    BY DEF HomesExist, ExportTypes
  <1>4. ASSUME NEW c \in Homes, Chooses(j, c)
        PROVE  SameFiles(j) /\ Turns(j, "fetch") /\ jobs'[j].contest \in Homes /\ UNCHANGED lock
    BY <1>3, <1>4, ChosenTurns
  <1>5. CASE jobs[j].req.contest # Unset
    <2>1. jobs[j].req.contest \in Homes
      BY <1>1, <1>5, ExportAssumption DEF Homes
    <2>2. Chooses(j, jobs[j].req.contest)
      BY <1>5 DEF ChooseContest
    <2>3. QED
      BY <1>2, <1>4, <2>1, <2>2
  <1>6. CASE jobs[j].req.contest = Unset /\ Previous(Problem(j)) # {}
    <2>1. PICK at \in Latest(Problem(j)) : Chooses(j, at[2])
      BY <1>6 DEF ChooseContest
    <2>2. at[2] \in Homes
      BY <2>1 DEF Latest, Previous, HomesExist
    <2>3. QED
      BY <1>2, <1>4, <2>1, <2>2
  <1>7. CASE jobs[j].req.contest = Unset /\ Previous(Problem(j)) = {}
    <2>1. Allocate(j)
      BY <1>7 DEF ChooseContest
    <2>2. CASE blocks # <<>> /\ HasRoom(Newest) /\ Chooses(j, Newest)
      <3>1. Newest \in Homes
        BY <2>2 DEF Newest, Homes, ExportTypes
      <3>2. QED
        BY <1>2, <1>4, <2>2, <3>1
    <2>3. CASE jobs' = [jobs EXCEPT ![j].pc = "create", ![j].blind = TRUE]
      <3>1. jobs'[j] = [jobs[j] EXCEPT !.pc = "create", !.blind = TRUE]
        BY <2>3 DEF ExportTypes
      <3>2. jobs'[j] \in JobRecords
        BY <1>1, <3>1 DEF JobRecords, Stages
      <3>3. Turns(j, "create") /\ jobs'[j].blind /\ SameFiles(j)
        BY <1>1, <2>3, <3>1, <3>2 DEF ExportTypes, Turns, Rest, SameFiles, JobRecords
      <3>4. lock = Unset
        BY <2>1 DEF Allocate, LockIsFree
      <3>5. CASE lock' = j
        BY <1>2, <3>3, <3>4, <3>5
      <3>6. CASE lock' # j
        <4>1. Chooses(j, Newest)
          BY <2>1, <3>6 DEF Allocate
        <4>2. jobs'[j].pc = "fetch"
          BY <1>1, <4>1 DEF Chooses, ExportTypes, JobRecords
        <4>3. QED
          BY <3>3, <4>2 DEF Turns
      <3>7. QED
        BY <3>5, <3>6
    <2>4. CASE Goes(j, "create") /\ lock' = j /\ ~(blocks # <<>> /\ HasRoom(Newest))
      <3>1. Turns(j, "create") /\ SameFiles(j)
        BY <2>4, GoesTurns DEF Stages
      <3>2. NewestIsFull /\ lock = Unset
        BY <2>1, <2>4 DEF NewestIsFull, Allocate, LockIsFree
      <3>3. QED
        BY <1>2, <2>4, <3>1, <3>2
    <2>5. QED
      BY <2>1, <2>2, <2>3, <2>4 DEF Allocate
  <1>8. QED
    BY <1>5, <1>6, <1>7

\* The new contest is one that nobody has.
LEMMA NewContestIsNew ==
  ASSUME ExportTypes, HomesExist
  PROVE  NewContest \in Nat \ {0} /\ NewContest \notin DOMAIN contests
  <1> DEFINE D == DOMAIN contests
  <1>1. D \in SUBSET Nat /\ IsFiniteSet(D)
    BY DEF ExportTypes
  <1>2. D # {}
    BY ExportAssumption DEF HomesExist, Homes
  <1>3. Max(D) \in D /\ \A c \in D : Max(D) >= c
    <2> HIDE DEF D
    <2> QED
      BY <1>1, <1>2, MaxIsGreatest
  <1>4. NewContest = 1 + Max(D)
    BY DEF NewContest
  <1> HIDE DEF D
  <1>5. Max(D) \in Nat
    BY <1>1, <1>3
  <1>6. \A n \in Nat : 1 + n \in Nat \ {0} /\ ~ (n >= 1 + n)
    OBVIOUS
  <1>7. NewContest \in Nat \ {0} /\ NewContest \notin D
    BY <1>3, <1>4, <1>5, <1>6
  <1>8. QED
    BY <1>7 DEF D

\* A contest is made under the lock.
LEMMA MakeContestMoves ==
  ASSUME ExportTypes, HomesExist, NEW j \in Jobs, MakeContest(j)
  PROVE  /\ jobs[j].pc = "create" /\ Turns(j, "commit") /\ SameFiles(j) /\ jobs'[j].blind = jobs[j].blind
         /\ jobs'[j].contest = NewContest /\ contests' = Put(contests, NewContest, <<>>)
         /\ UNCHANGED <<dirs, staged, kept, blocks, lock, published, nlogn, version, clock, contested, torn>>
  <1>1. jobs[j] \in JobRecords
    BY DEF ExportTypes
  <1>2. jobs'[j] = [jobs[j] EXCEPT !.pc = "commit", !.contest = NewContest]
    BY DEF ExportTypes, MakeContest
  <1>3. jobs'[j] \in JobRecords
    BY <1>1, <1>2, NewContestIsNew DEF JobRecords, Stages
  <1>4. Rest(j) /\ jobs' \in [Jobs -> JobRecords]
    BY <1>3 DEF ExportTypes, Rest, MakeContest
  <1>5. QED
    BY <1>1, <1>2, <1>4 DEF Turns, SameFiles, JobRecords, MakeContest, Is, base

\* A contest that cannot be made ends the job.
LEMMA MakeFailsMoves ==
  ASSUME ExportTypes, NEW j \in Jobs, MakeFails(j)
  PROVE  /\ jobs[j].pc = "create" /\ Leaves(j) /\ lock' = Unset
         /\ UNCHANGED <<contests, dirs, staged, kept, blocks, published, nlogn, version, clock, contested, torn>>
  <1>1. Ends(j, "failed")
    BY DEF MakeFails
  <1>2. Leaves(j)
    BY <1>1, EndsLeaves DEF Outside
  <1>3. QED
    BY <1>2 DEF MakeFails, Is, host

\* The new contest becomes a block, or is taken away again.
LEMMA CommitContestMoves ==
  ASSUME ExportTypes, NEW j \in Jobs, CommitContest(j)
  PROVE  /\ jobs[j].pc = "commit" /\ lock' = Unset
         /\ \/ /\ Turns(j, "fetch") /\ SameFiles(j) /\ SameTarget(j)
               /\ blocks' = Append(blocks, Contest(j)) /\ UNCHANGED contests
            \/ Leaves(j) /\ contests' = Without(contests, Contest(j)) /\ UNCHANGED blocks
         /\ UNCHANGED <<dirs, staged, kept, published, nlogn, version, clock, contested, torn>>
  <1>1. Goes(j, "fetch") => Turns(j, "fetch") /\ SameFiles(j) /\ SameTarget(j)
    BY GoesTurns DEF Stages
  <1>2. Ends(j, "failed") => Leaves(j)
    BY EndsLeaves DEF Outside
  <1>3. QED
    BY <1>1, <1>2 DEF CommitContest, Is

\* The plan is for the configuration just read.
LEMMA PlanExportMoves ==
  ASSUME ExportTypes, HomesExist, NEW j \in Jobs, PlanExport(j)
  PROVE  /\ jobs[j].pc = "fetch" /\ Turns(j, "upload") /\ SameFiles(j) /\ SameTarget(j)
         /\ jobs'[j].plan = BuildPlan(jobs'[j].seen, Problem(j))
         /\ UNCHANGED <<contests, dirs, staged, kept, blocks, lock, published, nlogn, version, clock, contested, torn>>
  <1>1. jobs[j] \in JobRecords /\ jobs[j].req \in Requests /\ Problem(j) \in Problems
    BY ExportAssumption DEF ExportTypes, JobRecords, Problem
  <1>2. Contest(j) \in DOMAIN contests /\ contests[Contest(j)] \in Seq(Sections)
    BY DEF PlanExport, Is, HomesExist, Stages, ExportTypes
  <1>3. BuildPlan(contests[Contest(j)], Problem(j)) \in ExportPlans
    BY <1>1, <1>2, PlanFits DEF ExportPlans
  <1>4. version[Problem(j)] \in Nat
    BY <1>1 DEF ExportTypes
  <1>5. jobs'[j] = [jobs[j] EXCEPT !.pc = "upload", !.version = version[Problem(j)],
                       !.seen = contests[Contest(j)], !.plan = BuildPlan(contests[Contest(j)], Problem(j))]
    BY DEF ExportTypes, PlanExport
  <1>6. jobs'[j] \in JobRecords
    BY <1>1, <1>2, <1>3, <1>4, <1>5 DEF JobRecords, Stages
  <1>7. Rest(j) /\ jobs' \in [Jobs -> JobRecords]
    BY <1>6 DEF ExportTypes, Rest, PlanExport
  <1>8. QED
    BY <1>1, <1>5, <1>7 DEF Turns, SameFiles, SameTarget, JobRecords, PlanExport, Is, host, base

\* An upload is named after a second that has passed.
LEMMA UploadMoves ==
  ASSUME ExportTypes, NEW j \in Jobs, Upload(j)
  PROVE  /\ jobs[j].pc = "upload" /\ Turns(j, "reread") /\ SameTarget(j) /\ SamePlan(j)
         /\ jobs'[j].seen = jobs[j].seen
         /\ clock' = jobs'[j].stamp /\ clock' \in Nat
         /\ staged' = Put(staged, <<Contest(j), jobs[j].plan.name, clock'>>, Packed(j))
         /\ \/ clock' = clock + 1 /\ contested' = contested
            \/ clock' = clock /\ contested' = contested \cup {Contest(j)} /\ SameSecond(j) # {}
         /\ UNCHANGED <<contests, dirs, kept, blocks, lock, published, nlogn, version, torn>>
  <1>1. jobs[j] \in JobRecords /\ clock \in Nat
    BY DEF ExportTypes
  <1>2. PICK s \in {clock + 1} \cup (IF SameSecond(j) = {} THEN {} ELSE {clock}) :
          /\ clock' = s
          /\ staged' = Put(staged, <<Contest(j), jobs[j].plan.name, s>>, Packed(j))
          /\ contested' = IF s = clock THEN contested \cup {Contest(j)} ELSE contested
          /\ jobs' = [jobs EXCEPT ![j].pc = "reread", ![j].stamp = s]
    BY DEF Upload
  <1>3. s \in Nat /\ (s = clock + 1 \/ (s = clock /\ SameSecond(j) # {}))
    BY <1>1, <1>2
  <1>4. jobs'[j] = [jobs[j] EXCEPT !.pc = "reread", !.stamp = s]
    BY <1>2 DEF ExportTypes
  <1>5. jobs'[j] \in JobRecords
    BY <1>1, <1>3, <1>4 DEF JobRecords, Stages
  <1>6. Rest(j) /\ jobs' \in [Jobs -> JobRecords]
    BY <1>2, <1>5 DEF ExportTypes, Rest
  <1>7. Turns(j, "reread") /\ SameTarget(j) /\ SamePlan(j) /\ jobs'[j].seen = jobs[j].seen /\ jobs'[j].stamp = s
    BY <1>1, <1>4, <1>6 DEF Turns, SamePlan, SameTarget, JobRecords
  <1>8. jobs[j].pc = "upload" /\ UNCHANGED <<contests, dirs, kept, blocks, lock, published, nlogn, version, torn>>
    BY DEF Upload, Is, base
  <1>9. \/ clock' = clock + 1 /\ contested' = contested
        \/ clock' = clock /\ contested' = contested \cup {Contest(j)} /\ SameSecond(j) # {}
    BY <1>1, <1>2, <1>3
  <1>10. QED
    BY <1>2, <1>3, <1>7, <1>8, <1>9

\* A failed upload takes its files along.
LEMMA UploadFailsMoves ==
  ASSUME ExportTypes, NEW j \in Jobs, UploadFails(j)
  PROVE  /\ jobs[j].pc \in {"fetch", "upload", "reread"} /\ Leaves(j) /\ staged' = Without(staged, Stamped(j))
         /\ UNCHANGED <<contests, dirs, kept, blocks, lock, published, nlogn, version, clock, contested, torn>>
  <1>1. Ends(j, "failed")
    BY DEF UploadFails
  <1>2. Leaves(j)
    BY <1>1, EndsLeaves DEF Outside
  <1>3. QED
    BY <1>2 DEF UploadFails, base

\* After the second look the plan is for the configuration of that look.
LEMMA RereadMoves ==
  ASSUME ExportTypes, HomesExist, PlansHold, NEW j \in Jobs, Reread(j)
  PROVE  /\ jobs[j].pc = "reread"
         /\ \/ /\ Turns(j, "swap") /\ SameTarget(j) /\ SamePlan(j) /\ SameFiles(j)
               /\ jobs'[j].seen = contests[Contest(j)]
               /\ jobs'[j].plan = BuildPlan(jobs'[j].seen, Problem(j))
               /\ contested' = IF Writers(Contest(j)) # {} THEN contested \cup {Contest(j)} ELSE contested
               /\ UNCHANGED staged
            \/ Leaves(j) /\ staged' = Without(staged, Stamped(j)) /\ UNCHANGED contested
         /\ UNCHANGED <<contests, dirs, kept, blocks, lock, published, nlogn, version, clock, torn>>
  <1> DEFINE cfg == contests[Contest(j)]
  <1>1. jobs[j] \in JobRecords /\ jobs[j].pc = "reread"
    BY DEF ExportTypes, Reread, Is
  <1>2. cfg \in Seq(Sections)
    BY <1>1 DEF HomesExist, Stages, ExportTypes
  <1>3. UNCHANGED <<contests, dirs, kept, blocks, lock, published, nlogn, version, clock, torn>>
    BY DEF Reread, base
  <1>4. CASE StillHolds(j, cfg)
    <2>1. /\ jobs' = [jobs EXCEPT ![j].pc = "swap", ![j].seen = cfg]
          /\ contested' = IF Writers(Contest(j)) # {} THEN contested \cup {Contest(j)} ELSE contested
          /\ UNCHANGED staged
      BY <1>4 DEF Reread
    <2>2. jobs'[j] = [jobs[j] EXCEPT !.pc = "swap", !.seen = cfg]
      BY <2>1 DEF ExportTypes
    <2>3. jobs'[j] \in JobRecords
      BY <1>1, <1>2, <2>2 DEF JobRecords, Stages
    <2>4. Rest(j) /\ jobs' \in [Jobs -> JobRecords]
      BY <2>1, <2>3 DEF ExportTypes, Rest
    <2>5. jobs[j].plan = BuildPlan(cfg, Problem(j))
      BY <1>1, <1>4 DEF StillHolds, PlansHold, Steps
    <2>6. /\ Turns(j, "swap") /\ SameTarget(j) /\ SamePlan(j) /\ SameFiles(j)
          /\ jobs'[j].seen = cfg /\ jobs'[j].plan = jobs[j].plan
      BY <1>1, <2>2, <2>4 DEF Turns, SameTarget, SamePlan, SameFiles, JobRecords
    <2> HIDE DEF cfg
    <2>7. QED
      BY <1>1, <1>3, <2>1, <2>5, <2>6 DEF cfg
  <1>5. CASE ~StillHolds(j, cfg)
    <2>1. Ends(j, "failed") /\ staged' = Without(staged, Stamped(j)) /\ UNCHANGED contested
      BY <1>5 DEF Reread
    <2>2. Leaves(j)
      BY <2>1, EndsLeaves DEF Outside
    <2>3. QED
      BY <1>1, <1>3, <2>1, <2>2
  <1>6. QED
    BY <1>4, <1>5

\* The swap moves what was uploaded, and keeps what was there.
LEMMA SwapMoves ==
  ASSUME ExportTypes, NEW j \in Jobs, Swap(j)
  PROVE  /\ jobs[j].pc = "swap" /\ kept' = Moved(j)
         /\ \/ /\ Stamped(j) \in DOMAIN staged
               /\ dirs' = Put(dirs, Final(j), staged[Stamped(j)]) /\ staged' = Without(staged, Stamped(j))
               /\ \/ /\ Turns(j, "write") /\ SameTarget(j) /\ SamePlan(j) /\ SameFiles(j)
                     /\ jobs'[j].seen = jobs[j].seen /\ UNCHANGED torn
                  \/ Leaves(j) /\ torn' = torn \cup {<<Contest(j), Problem(j)>>}
            \/ /\ Stamped(j) \notin DOMAIN staged
               /\ Leaves(j) /\ dirs' = Without(dirs, Final(j)) /\ UNCHANGED <<staged, torn>>
         /\ UNCHANGED <<contests, blocks, lock, published, nlogn, version, clock, contested>>
  <1>1. Goes(j, "write") => /\ Turns(j, "write") /\ SameTarget(j) /\ SamePlan(j) /\ SameFiles(j)
                            /\ jobs'[j].seen = jobs[j].seen
    BY GoesTurns DEF Stages
  <1>2. Ends(j, "failed") => Leaves(j)
    BY EndsLeaves DEF Outside
  <1>3. QED
    BY <1>1, <1>2 DEF Swap, Is, base

\* The write replaces the configuration read before.
LEMMA WriteServeCfgMoves ==
  ASSUME ExportTypes, NEW j \in Jobs, WriteServeCfg(j)
  PROVE  /\ jobs[j].pc = "write"
         /\ contests' = [contests EXCEPT ![Contest(j)] =
                           UpsertProblem(jobs[j].seen, Problem(j), jobs[j].version, jobs[j].plan)]
         /\ torn' = torn \ {<<Contest(j), Problem(j)>>}
         /\ \/ Leaves(j)
            \/ Turns(j, "tell") /\ SameTarget(j) /\ SamePlan(j) /\ SameFiles(j) /\ jobs'[j].seen = jobs[j].seen
         /\ UNCHANGED <<dirs, staged, kept, blocks, lock, published, nlogn, version, clock, contested>>
  <1>1. Goes(j, "tell") => /\ Turns(j, "tell") /\ SameTarget(j) /\ SamePlan(j) /\ SameFiles(j)
                           /\ jobs'[j].seen = jobs[j].seen
    BY GoesTurns DEF Stages
  <1>2. Ends(j, "done") => Leaves(j)
    BY EndsLeaves DEF Outside
  <1>3. QED
    BY <1>1, <1>2 DEF WriteServeCfg, Is, base

\* A failed write puts the old directory back.
LEMMA WriteFailsMoves ==
  ASSUME ExportTypes, NEW j \in Jobs, WriteFails(j)
  PROVE  /\ jobs[j].pc = "write" /\ Leaves(j)
         /\ dirs' = Restored(j) /\ kept' = Without(kept, Stamped(j))
         /\ UNCHANGED <<contests, staged, blocks, lock, published, nlogn, version, clock, contested, torn>>
  <1>1. Ends(j, "failed")
    BY DEF WriteFails
  <1>2. Leaves(j)
    BY <1>1, EndsLeaves DEF Outside
  <1>3. QED
    BY <1>2 DEF WriteFails, Is, base

\* NlogN is told one problem.
LEMMA TellMoves ==
  ASSUME ExportTypes, NEW j \in Jobs, Tell(j)
  PROVE  /\ jobs[j].pc = "tell" /\ Turns(j, "save") /\ SameTarget(j) /\ SamePlan(j) /\ SameFiles(j)
         /\ nlogn' \in {nlogn, Put(nlogn, <<Contest(j), jobs[j].plan.id>>, Problem(j))}
         /\ UNCHANGED <<contests, dirs, staged, kept, blocks, lock, published, version, clock, contested, torn>>
  <1>1. Goes(j, "save") => Turns(j, "save") /\ SameTarget(j) /\ SamePlan(j) /\ SameFiles(j)
    BY GoesTurns DEF Stages
  <1>2. ASSUME jobs' = [jobs EXCEPT ![j].pc = "save", ![j].ok = FALSE]
        PROVE  Turns(j, "save") /\ SameTarget(j) /\ SamePlan(j) /\ SameFiles(j)
    <2>1. jobs[j] \in JobRecords
      BY DEF ExportTypes
    <2>2. jobs'[j] = [jobs[j] EXCEPT !.pc = "save", !.ok = FALSE]
      BY <1>2 DEF ExportTypes
    <2>3. jobs'[j] \in JobRecords
      BY <2>1, <2>2 DEF JobRecords, Stages
    <2>4. Rest(j) /\ jobs' \in [Jobs -> JobRecords]
      BY <1>2, <2>3 DEF ExportTypes, Rest
    <2>5. QED
      BY <2>1, <2>2, <2>4 DEF Turns, SameTarget, SamePlan, SameFiles, JobRecords
  <1>3. QED
    BY <1>1, <1>2 DEF Tell, Is, host, base

\* One publication is remembered.
LEMMA SavePublicationMoves ==
  ASSUME ExportTypes, NEW j \in Jobs, SavePublication(j)
  PROVE  /\ jobs[j].pc = "save" /\ Leaves(j)
         /\ \/ UNCHANGED published
            \/ \E row : row.id = jobs[j].plan.id /\ published' = Put(published, <<Problem(j), Contest(j)>>, row)
         /\ UNCHANGED <<contests, dirs, staged, kept, blocks, lock, nlogn, version, clock, contested, torn>>
  <1>1. \A pc \in {"done", "failed"} : Ends(j, pc) => Leaves(j)
    BY EndsLeaves DEF Outside
  <1>2. Leaves(j)
    BY <1>1 DEF SavePublication
  <1> DEFINE turn == 1 + Max({0} \cup {published[other].turn : other \in DOMAIN published})
             row == [id |-> jobs[j].plan.id, version |-> jobs[j].version, turn |-> turn]
  <1>3. UNCHANGED published \/ published' = Put(published, <<Problem(j), Contest(j)>>, row)
    BY DEF SavePublication
  <1>4. row.id = jobs[j].plan.id
    OBVIOUS
  <1> HIDE DEF row
  <1>5. QED
    BY <1>2, <1>3, <1>4 DEF SavePublication, Is, host

\* A lost worker leaves the host as it is.
LEMMA CrashMoves ==
  ASSUME ExportTypes, NEW j \in Jobs, Crash(j)
  PROVE  /\ jobs[j].pc \in Stages /\ Leaves(j)
         /\ lock' = (IF lock = j THEN Unset ELSE lock)
         /\ torn' = (IF jobs[j].pc = "write" THEN torn \cup {<<Contest(j), Problem(j)>>} ELSE torn)
         /\ clock' = clock + 1
         /\ UNCHANGED <<contests, dirs, staged, kept, blocks, published, nlogn, version, contested>>
  <1>1. jobs[j] \in JobRecords
    BY DEF ExportTypes
  <1>2. jobs[j].pc \in Stages
    BY <1>1 DEF Crash, JobRecords, Outside
  <1>3. PICK new \in {Idle("queued", jobs[j].req, jobs[j].tries + 1), Idle("failed", jobs[j].req, jobs[j].tries)} :
          jobs' = [jobs EXCEPT ![j] = new]
    BY DEF Crash
  <1>4. new \in JobRecords /\ new.pc \in Outside /\ new.req = jobs[j].req /\ new.stamp = 0
    <2>1. ASSUME NEW pc \in Outside, NEW tries \in Nat
          PROVE  /\ Idle(pc, jobs[j].req, tries) \in JobRecords /\ Idle(pc, jobs[j].req, tries).pc = pc
                 /\ Idle(pc, jobs[j].req, tries).req = jobs[j].req /\ Idle(pc, jobs[j].req, tries).stamp = 0
      BY <1>1 DEF Idle, JobRecords, ExportPlans, NoPlan
    <2>2. {jobs[j].tries, jobs[j].tries + 1} \subseteq Nat
      BY <1>1 DEF JobRecords
    <2>3. QED
      BY <1>3, <2>1, <2>2 DEF Outside
  <1>5. Leaves(j)
    BY <1>3, <1>4 DEF ExportTypes, Leaves, Rest
  <1>6. QED
    BY <1>2, <1>5 DEF Crash, Is, host

\* Contests are finite, and configurations and jobs well formed.
LEMMA TypesKept ==
  ASSUME ExportTypes, HomesExist, PlansHold, NEW j \in Jobs, JobActs(j)
  PROVE  ExportTypes'
  <1>1. CASE ChooseContest(j)
    BY <1>1, ChooseContestMoves DEF Turns, Leaves, Rest, ExportTypes
  <1>2. CASE MakeContest(j)
    <2>1. contests' = Put(contests, NewContest, <<>>) /\ NewContest \in Nat \ {0}
      BY <1>2, MakeContestMoves, NewContestIsNew
    <2>2. DOMAIN contests' = DOMAIN contests \cup {NewContest} /\ contests' \in [DOMAIN contests' -> Seq(Sections)]
      BY <2>1 DEF ExportTypes, Put
    <2>3. IsFiniteSet(DOMAIN contests \cup {NewContest})
      BY FS_AddElement DEF ExportTypes
    <2>4. QED
      BY <1>2, MakeContestMoves, <2>1, <2>2, <2>3 DEF ExportTypes, Turns
  <1>3. CASE MakeFails(j)
    BY <1>3, MakeFailsMoves DEF Turns, Leaves, Rest, ExportTypes
  <1>4. CASE CommitContest(j)
    <2>1. Contest(j) \in Nat
      BY <1>4, CommitContestMoves DEF HomesExist, ExportTypes
    <2>2. CASE blocks' = Append(blocks, Contest(j)) /\ UNCHANGED contests
      <3>1. blocks' \in Seq(Nat)
        BY <2>1, <2>2 DEF ExportTypes
      <3>2. QED
        BY <1>4, CommitContestMoves, <2>2, <3>1 DEF ExportTypes, Turns, Leaves
    <2>3. CASE contests' = Without(contests, Contest(j)) /\ UNCHANGED blocks
      <3>1. DOMAIN contests' = DOMAIN contests \ {Contest(j)} /\ contests' \in [DOMAIN contests' -> Seq(Sections)]
        BY <2>3 DEF ExportTypes, Without, Restrict
      <3>2. IsFiniteSet(DOMAIN contests')
        BY <3>1, FS_Subset DEF ExportTypes
      <3>3. QED
        BY <1>4, CommitContestMoves, <2>3, <3>1, <3>2 DEF ExportTypes, Turns, Leaves
    <2>4. QED
      BY <1>4, CommitContestMoves, <2>2, <2>3
  <1>5. CASE PlanExport(j)
    BY <1>5, PlanExportMoves DEF Turns, Leaves, Rest, ExportTypes
  <1>6. CASE Upload(j)
    BY <1>6, UploadMoves DEF Turns, Leaves, Rest, ExportTypes
  <1>7. CASE UploadFails(j)
    BY <1>7, UploadFailsMoves DEF Turns, Leaves, Rest, ExportTypes
  <1>8. CASE Reread(j)
    BY <1>8, RereadMoves DEF Turns, Leaves, Rest, ExportTypes
  <1>9. CASE Swap(j)
    BY <1>9, SwapMoves DEF Turns, Leaves, Rest, ExportTypes
  <1>10. CASE WriteServeCfg(j)
    <2> DEFINE new == UpsertProblem(jobs[j].seen, Problem(j), jobs[j].version, jobs[j].plan)
    <2>1. /\ contests' = [contests EXCEPT ![Contest(j)] = new]
          /\ jobs' \in [Jobs -> JobRecords] /\ UNCHANGED <<blocks, clock, version>>
      BY <1>10, WriteServeCfgMoves DEF Turns, Leaves
    <2>2. new \in Seq(Sections)
      <3>1. jobs[j].plan = BuildPlan(jobs[j].seen, Problem(j))
        BY <1>10, WriteServeCfgMoves DEF PlansHold, Steps
      <3>2. jobs[j].seen \in Seq(Sections) /\ Problem(j) \in Problems /\ jobs[j].version \in Nat
        BY ExportAssumption DEF ExportTypes, JobRecords, Problem
      <3>3. QED
        BY <3>1, <3>2, SectionKeeps
    <2> HIDE DEF new
    <2>3. QED
      BY <2>1, <2>2 DEF ExportTypes
  <1>11. CASE WriteFails(j)
    BY <1>11, WriteFailsMoves DEF Turns, Leaves, Rest, ExportTypes
  <1>12. CASE Tell(j)
    BY <1>12, TellMoves DEF Turns, Leaves, Rest, ExportTypes
  <1>13. CASE SavePublication(j)
    BY <1>13, SavePublicationMoves DEF Turns, Leaves, Rest, ExportTypes
  <1>14. CASE Crash(j)
    BY <1>14, CrashMoves DEF Turns, Leaves, Rest, ExportTypes
  <1>15. QED
    BY <1>1, <1>2, <1>3, <1>4, <1>5, <1>6, <1>7, <1>8, <1>9, <1>10, <1>11, <1>12, <1>13, <1>14 DEF JobActs

\* A step outside the critical section that leaves the lock alone.
LEMMA LockStays ==
  ASSUME LockIsHeld, NEW j \in Jobs, Rest(j), lock' = lock,
         jobs[j].pc \notin {"create", "commit"}, jobs'[j].pc \notin {"create", "commit"}
  PROVE  LockIsHeld'
  BY DEF LockIsHeld, Rest

\* Whoever makes a contest holds the advisory lock.
LEMMA LockKept ==
  ASSUME ExportTypes, HomesExist, PlansHold, LockIsHeld, NEW j \in Jobs, JobActs(j)
  PROVE  LockIsHeld'
  <1>1. CASE ChooseContest(j)
    <2>1. CASE Turns(j, "fetch") /\ UNCHANGED lock
      BY <1>1, <2>1, ExportAssumption DEF Turns, Rest, LockIsHeld, ChooseContest, Is
    <2>2. CASE Turns(j, "create") /\ lock = Unset /\ lock' = j
      BY <1>1, <2>2, ExportAssumption DEF Turns, Rest, LockIsHeld
    <2>3. QED
      BY <1>1, ChooseContestMoves, <2>1, <2>2
  <1>2. CASE MakeContest(j)
    BY <1>2, MakeContestMoves, ExportAssumption DEF Turns, Leaves, Rest, LockIsHeld, Outside, Stages
  <1>3. CASE MakeFails(j)
    BY <1>3, MakeFailsMoves, ExportAssumption DEF Turns, Leaves, Rest, LockIsHeld, Outside, Stages
  <1>4. CASE CommitContest(j)
    BY <1>4, CommitContestMoves, ExportAssumption DEF Turns, Leaves, Rest, LockIsHeld, Outside, Stages
  <1>5. CASE PlanExport(j)
    BY <1>5, PlanExportMoves, LockStays DEF Turns, Leaves, Outside
  <1>6. CASE Upload(j)
    BY <1>6, UploadMoves, LockStays DEF Turns, Leaves, Outside
  <1>7. CASE UploadFails(j)
    BY <1>7, UploadFailsMoves, LockStays DEF Turns, Leaves, Outside
  <1>8. CASE Reread(j)
    BY <1>8, RereadMoves, LockStays DEF Turns, Leaves, Outside
  <1>9. CASE Swap(j)
    BY <1>9, SwapMoves, LockStays DEF Turns, Leaves, Outside
  <1>10. CASE WriteServeCfg(j)
    BY <1>10, WriteServeCfgMoves, LockStays DEF Turns, Leaves, Outside
  <1>11. CASE WriteFails(j)
    BY <1>11, WriteFailsMoves, LockStays DEF Turns, Leaves, Outside
  <1>12. CASE Tell(j)
    BY <1>12, TellMoves, LockStays DEF Turns, Leaves, Outside
  <1>13. CASE SavePublication(j)
    BY <1>13, SavePublicationMoves, LockStays DEF Turns, Leaves, Outside
  <1>14. CASE Crash(j)
    BY <1>14, CrashMoves, ExportAssumption DEF Turns, Leaves, Rest, LockIsHeld, Outside, Stages
  <1>15. QED
    BY <1>1, <1>2, <1>3, <1>4, <1>5, <1>6, <1>7, <1>8, <1>9, <1>10, <1>11, <1>12, <1>13, <1>14 DEF JobActs

\* What a job, a publication or NlogN refers to is a contest that is there.
LEMMA HomesKept ==
  ASSUME ExportTypes, LockIsHeld, HomesExist, PlansHold, NEW j \in Jobs, JobActs(j)
  PROVE  HomesExist'
  <1>1. CASE ChooseContest(j)
    <2>1. /\ Rest(j) /\ jobs'[j].pc \in {"fetch", "create"} /\ (jobs'[j].pc = "fetch" => jobs'[j].contest \in Homes)
          /\ UNCHANGED <<contests, blocks, published, nlogn>>
      BY <1>1, ChooseContestMoves DEF Turns
    <2>2. Homes' = Homes
      BY <2>1 DEF Homes
    <2>3. QED
      BY <2>1, <2>2 DEF Rest, HomesExist, Contest, Stages
  <1>2. CASE MakeContest(j)
    <2>1. /\ contests' = Put(contests, NewContest, <<>>) /\ Rest(j) /\ jobs'[j].pc = "commit"
          /\ jobs'[j].contest = NewContest /\ UNCHANGED <<blocks, published, nlogn>>
      BY <1>2, MakeContestMoves DEF Turns
    <2>2. NewContest \notin DOMAIN contests
      BY NewContestIsNew
    <2>3. DOMAIN contests' = DOMAIN contests \cup {NewContest}
      BY <2>1 DEF Put
    <2>4. Homes' = Homes
      BY <2>1 DEF Homes
    <2>5. \A i \in Jobs \ {j} : jobs[i].pc # "commit"
      BY <1>2, MakeContestMoves DEF LockIsHeld
    <2>6. Homes \subseteq DOMAIN contests'
      BY <2>3 DEF HomesExist
    <2>7. NewContest \in DOMAIN contests' \ Homes
      BY <2>2, <2>3 DEF HomesExist
    <2>8. \A i \in Jobs : /\ jobs'[i].pc = "commit" => jobs'[i].contest \in DOMAIN contests' \ Homes
                          /\ jobs'[i].pc \in Stages \ {"create", "commit"} => jobs'[i].contest \in Homes

      <3> QED
        BY <2>1, <2>5, <2>7 DEF Rest, HomesExist, Contest
    <2>9. /\ \A at \in DOMAIN published' : at[2] \in Homes
          /\ \A at \in DOMAIN nlogn' : at[1] \in Homes
      BY <2>1 DEF HomesExist
    <2>10. (\A i \in Jobs :
              /\ jobs[i].pc = "commit" => Contest(i) \in DOMAIN contests \ Homes
              /\ jobs[i].pc \in Stages \ {"create", "commit"} => Contest(i) \in Homes)'
      BY <2>4, <2>8 DEF Contest, Stages
    <2>11. QED
      BY <2>4, <2>6, <2>9, <2>10 DEF HomesExist
  <1>3. CASE MakeFails(j)
    BY <1>3, MakeFailsMoves DEF Turns, Leaves, Rest, SameTarget, HomesExist, Homes, Contest, Outside, Stages
  <1>4. CASE CommitContest(j)
    <2>1. /\ Contest(j) \in DOMAIN contests \ Homes /\ \A i \in Jobs \ {j} : jobs[i].pc # "commit"
          /\ Rest(j) /\ UNCHANGED <<published, nlogn>>
      BY <1>4, CommitContestMoves DEF HomesExist, LockIsHeld, Turns, Leaves
    <2>2. CASE blocks' = Append(blocks, Contest(j)) /\ UNCHANGED contests /\ Turns(j, "fetch") /\ SameTarget(j)
      <3>1. Homes' = Homes \cup {Contest(j)}
        <4>1. /\ DOMAIN blocks' = DOMAIN blocks \cup {Len(blocks) + 1} /\ blocks'[Len(blocks) + 1] = Contest(j)
              /\ \A i \in DOMAIN blocks : blocks'[i] = blocks[i]
          <5>1. blocks \in Seq(Nat) /\ Contest(j) \in Nat
            BY <2>1 DEF ExportTypes
          <5>2. QED
            BY <2>2, <5>1
        <4>2. QED
          BY <4>1 DEF Homes
      <3>2. QED
        BY <2>1, <2>2, <3>1 DEF HomesExist, Turns, Rest, SameTarget, Contest, Stages
    <2>3. CASE contests' = Without(contests, Contest(j)) /\ UNCHANGED blocks /\ Leaves(j)
      <3>1. Homes' = Homes
        BY <2>3 DEF Homes
      <3>2. DOMAIN contests' = DOMAIN contests \ {Contest(j)}
        BY <2>3, WithoutIs
      <3>3. QED
        BY <2>1, <2>3, <3>1, <3>2 DEF HomesExist, Leaves, Rest, Contest, Stages, Outside
    <2>4. QED
      BY <1>4, CommitContestMoves, <2>2, <2>3
  <1>5. CASE PlanExport(j)
    BY <1>5, PlanExportMoves DEF Turns, Leaves, Rest, SameTarget, HomesExist, Homes, Contest, Outside, Stages
  <1>6. CASE Upload(j)
    <2>1. /\ Turns(j, "reread") /\ SameTarget(j) /\ jobs[j].pc = "upload"
          /\ UNCHANGED <<contests, blocks, published, nlogn>>
      BY <1>6, UploadMoves
    <2>2. QED
      BY <2>1 DEF Turns, Leaves, Rest, SameTarget, HomesExist, Homes, Contest, Outside, Stages
  <1>7. CASE UploadFails(j)
    BY <1>7, UploadFailsMoves DEF Turns, Leaves, Rest, SameTarget, HomesExist, Homes, Contest, Outside, Stages
  <1>8. CASE Reread(j)
    BY <1>8, RereadMoves DEF Turns, Leaves, Rest, SameTarget, HomesExist, Homes, Contest, Outside, Stages
  <1>9. CASE Swap(j)
    BY <1>9, SwapMoves DEF Turns, Leaves, Rest, SameTarget, HomesExist, Homes, Contest, Outside, Stages
  <1>10. CASE WriteServeCfg(j)
    <2>1. DOMAIN contests' = DOMAIN contests /\ UNCHANGED <<blocks, published, nlogn>>
      BY <1>10, WriteServeCfgMoves
    <2>2. Homes' = Homes
      BY <2>1 DEF Homes
    <2>3. QED
      BY <1>10, WriteServeCfgMoves, <2>1, <2>2 DEF Turns, Leaves, Rest, SameTarget, HomesExist, Contest, Outside, Stages
  <1>11. CASE WriteFails(j)
    BY <1>11, WriteFailsMoves DEF Turns, Leaves, Rest, SameTarget, HomesExist, Homes, Contest, Outside, Stages
  <1>12. CASE Tell(j)
    <2>1. Contest(j) \in Homes /\ Homes' = Homes
      <3>1. jobs[j].pc = "tell" /\ blocks' = blocks
        BY <1>12, TellMoves
      <3>2. Contest(j) \in Homes
        BY <3>1 DEF HomesExist, Stages
      <3>3. QED
        BY <3>1, <3>2 DEF Homes
    <2>2. DOMAIN nlogn' \subseteq DOMAIN nlogn \cup {<<Contest(j), jobs[j].plan.id>>}
      <3>1. nlogn' \in {nlogn, Put(nlogn, <<Contest(j), jobs[j].plan.id>>, Problem(j))}
        BY <1>12, TellMoves
      <3>2. QED
        BY <3>1 DEF Put
    <2>3. \A at \in DOMAIN nlogn' : at[1] \in Homes'
      BY <2>1, <2>2 DEF HomesExist
    <2>4. QED
      BY <1>12, TellMoves, <2>1, <2>3, ZenonT(30) DEF Turns, Rest, SameTarget, HomesExist, Contest, Stages
  <1>13. CASE SavePublication(j)
    <2>1. Contest(j) \in Homes /\ Homes' = Homes
      <3>1. jobs[j].pc = "save" /\ blocks' = blocks
        BY <1>13, SavePublicationMoves
      <3>2. Contest(j) \in Homes
        BY <3>1 DEF HomesExist, Stages
      <3>3. QED
        BY <3>1, <3>2 DEF Homes
    <2>2. DOMAIN published' \subseteq DOMAIN published \cup {<<Problem(j), Contest(j)>>}
      <3>1. UNCHANGED published \/ \E row : published' = Put(published, <<Problem(j), Contest(j)>>, row)
        BY <1>13, SavePublicationMoves
      <3>2. QED
        BY <3>1 DEF Put
    <2>3. \A at \in DOMAIN published' : at[2] \in Homes'
      BY <2>1, <2>2 DEF HomesExist
    <2>4. QED
      BY <1>13, SavePublicationMoves, <2>1, <2>3 DEF Leaves, Rest, HomesExist, Contest, Stages, Outside
  <1>14. CASE Crash(j)
    BY <1>14, CrashMoves DEF Turns, Leaves, Rest, SameTarget, HomesExist, Homes, Contest, Outside, Stages
  <1>15. QED
    BY <1>1, <1>2, <1>3, <1>4, <1>5, <1>6, <1>7, <1>8, <1>9, <1>10, <1>11, <1>12, <1>13, <1>14 DEF JobActs

\* An export's plan is the one its configuration asks for.
LEMMA PlansKept ==
  ASSUME ExportTypes, HomesExist, PlansHold, NEW j \in Jobs, JobActs(j)
  PROVE  PlansHold'
  <1>1. CASE ChooseContest(j)
    BY <1>1, ChooseContestMoves DEF Turns, Leaves, Rest, SamePlan, PlansHold, Steps, Problem, Outside, Stages
  <1>2. CASE MakeContest(j)
    BY <1>2, MakeContestMoves DEF Turns, Leaves, Rest, SamePlan, PlansHold, Steps, Problem, Outside, Stages
  <1>3. CASE MakeFails(j)
    BY <1>3, MakeFailsMoves DEF Turns, Leaves, Rest, SamePlan, PlansHold, Steps, Problem, Outside, Stages
  <1>4. CASE CommitContest(j)
    BY <1>4, CommitContestMoves DEF Turns, Leaves, Rest, SamePlan, PlansHold, Steps, Problem, Outside, Stages
  <1>5. CASE PlanExport(j)
    BY <1>5, PlanExportMoves DEF Turns, Leaves, Rest, SamePlan, PlansHold, Steps, Problem, Outside, Stages
  <1>6. CASE Upload(j)
    <2>1. Turns(j, "reread") /\ SamePlan(j) /\ jobs'[j].seen = jobs[j].seen /\ jobs[j].pc = "upload"
      BY <1>6, UploadMoves
    <2>2. QED
      BY <2>1 DEF Turns, Leaves, Rest, SamePlan, PlansHold, Steps, Problem, Outside, Stages
  <1>7. CASE UploadFails(j)
    BY <1>7, UploadFailsMoves DEF Turns, Leaves, Rest, SamePlan, PlansHold, Steps, Problem, Outside, Stages
  <1>8. CASE Reread(j)
    BY <1>8, RereadMoves DEF Turns, Leaves, Rest, SamePlan, PlansHold, Steps, Problem, Outside, Stages
  <1>9. CASE Swap(j)
    BY <1>9, SwapMoves DEF Turns, Leaves, Rest, SamePlan, PlansHold, Steps, Problem, Outside, Stages
  <1>10. CASE WriteServeCfg(j)
    BY <1>10, WriteServeCfgMoves DEF Turns, Leaves, Rest, SamePlan, PlansHold, Steps, Problem, Outside, Stages
  <1>11. CASE WriteFails(j)
    BY <1>11, WriteFailsMoves DEF Turns, Leaves, Rest, SamePlan, PlansHold, Steps, Problem, Outside, Stages
  <1>12. CASE Tell(j)
    <2>1. Turns(j, "save")
      BY <1>12, TellMoves
    <2>2. QED
      BY <2>1 DEF Turns, Leaves, Rest, SamePlan, PlansHold, Steps, Problem, Outside, Stages
  <1>13. CASE SavePublication(j)
    <2>1. Leaves(j)
      BY <1>13, SavePublicationMoves
    <2>2. QED
      BY <2>1 DEF Turns, Leaves, Rest, SamePlan, PlansHold, Steps, Problem, Outside, Stages
  <1>14. CASE Crash(j)
    BY <1>14, CrashMoves DEF Turns, Leaves, Rest, SamePlan, PlansHold, Steps, Problem, Outside, Stages
  <1>15. QED
    BY <1>1, <1>2, <1>3, <1>4, <1>5, <1>6, <1>7, <1>8, <1>9, <1>10, <1>11, <1>12, <1>13, <1>14 DEF JobActs

-----------------------------------------------------------------------------
\* What a job's step does to itself.
Waiting == {"reread", "swap", "write"}
Same(j) == SameTarget(j) /\ SamePlan(j) /\ SameFiles(j)
JobsGoOn(j) ==
  /\ Rest(j) /\ jobs'[j].req = jobs[j].req /\ contested \subseteq contested'
  /\ clock \in Nat /\ clock' \in Nat /\ clock <= clock'
  /\ jobs'[j].pc \in {"queued", "create", "commit", "fetch", "upload"} => jobs'[j].stamp = 0
  /\ jobs'[j].pc = "create" => ChooseContest(j)
  /\ jobs'[j].pc = "commit" => MakeContest(j)
  /\ jobs'[j].pc = "reread" => Upload(j)
  /\ jobs'[j].pc = "swap" =>
       /\ jobs[j].pc = "reread" /\ Same(j) /\ UNCHANGED <<staged, kept>>
       /\ jobs'[j].seen = contests[Contest(j)]
       /\ Writers(Contest(j)) # {} => Contest(j) \in contested'
  /\ jobs'[j].pc = "write" => jobs[j].pc = "swap" /\ Same(j) /\ jobs'[j].seen = jobs[j].seen
  /\ jobs'[j].pc = "tell" => WriteServeCfg(j) /\ jobs[j].pc = "write" /\ Same(j)
  /\ jobs'[j].pc = "save" => jobs[j].pc = "tell" /\ Same(j)

\* What it does to the uploads and the backups.
FilesGoOn(j) ==
  /\ \A at \in DOMAIN staged \ {Stamped(j)} : at \in DOMAIN staged' /\ staged'[at] = staged[at]
  /\ \A at \in DOMAIN kept \ {Stamped(j)} : at \in DOMAIN kept' /\ kept'[at] = kept[at]
  /\ DOMAIN staged' \subseteq DOMAIN staged /\ DOMAIN kept' \subseteq DOMAIN kept \cup {Stamped(j)}
  /\ jobs[j].pc \in {"fetch", "upload"} \cup Waiting \/ UNCHANGED <<staged, kept>>
  /\ jobs[j].pc = "swap" \/ DOMAIN kept' \subseteq DOMAIN kept

\* What it does to the contests and the directories it serves them from.
HostGoesOn(j) ==
  /\ \A at \in DOMAIN dirs \ {Final(j)} : at \in DOMAIN dirs' /\ dirs'[at] = dirs[at]
  /\ jobs[j].pc \in {"swap", "write"} \/ UNCHANGED dirs
  /\ \A c \in DOMAIN contests' :
       \/ c \in DOMAIN contests /\ contests'[c] = contests[c]
       \/ c \notin DOMAIN contests /\ contests'[c] = <<>>
       \/ c \in DOMAIN contests /\ c = Contest(j) /\ jobs[j].pc = "write" /\ WriteServeCfg(j)
  /\ \A at \in torn : at \in torn' \/ (at[1] = Contest(j) /\ jobs[j].pc = "write" /\ WriteServeCfg(j))

\* A step of a job leaves the other jobs alone.
LEMMA JobsStep ==
  ASSUME ExportTypes, HomesExist, PlansHold, StampsDiffer, NEW j \in Jobs, JobActs(j)
  PROVE  JobsGoOn(j)
  <1>0. /\ clock \in Nat /\ clock <= clock /\ clock + 1 \in Nat /\ clock <= clock + 1
        /\ jobs[j].pc \in {"queued", "create", "commit", "fetch", "upload"} => jobs[j].stamp = 0
    BY DEF ExportTypes, StampsDiffer, Steps
  <1>1. CASE ChooseContest(j)
    <2>1. jobs[j].pc = "queued"
      BY <1>1 DEF ChooseContest, Is
    <2>2. QED
      BY <1>1, <1>0, <2>1, ChooseContestMoves DEF JobsGoOn, Same, SameFiles, Turns
  <1>2. CASE MakeContest(j)
    BY <1>2, MakeContestMoves, <1>0 DEF JobsGoOn, Same, SameTarget, SamePlan, SameFiles, Turns, Leaves, Outside
  <1>3. CASE MakeFails(j)
    BY <1>3, MakeFailsMoves, <1>0 DEF JobsGoOn, Same, SameTarget, SamePlan, SameFiles, Turns, Leaves, Outside
  <1>4. CASE CommitContest(j)
    BY <1>4, CommitContestMoves, <1>0 DEF JobsGoOn, Same, SameTarget, SamePlan, SameFiles, Turns, Leaves, Outside
  <1>5. CASE PlanExport(j)
    BY <1>5, PlanExportMoves, <1>0 DEF JobsGoOn, Same, SameTarget, SamePlan, SameFiles, Turns, Leaves, Outside
  <1>6. CASE Upload(j)
    BY <1>6, UploadMoves, <1>0 DEF JobsGoOn, Same, SameTarget, SamePlan, SameFiles, Turns, Leaves, Outside
  <1>7. CASE UploadFails(j)
    BY <1>7, UploadFailsMoves, <1>0 DEF JobsGoOn, Same, SameTarget, SamePlan, SameFiles, Turns, Leaves, Outside
  <1>8. CASE Reread(j)
    BY <1>8, RereadMoves, <1>0 DEF JobsGoOn, Same, SameTarget, SamePlan, SameFiles, Turns, Leaves, Outside
  <1>9. CASE Swap(j)
    BY <1>9, SwapMoves, <1>0 DEF JobsGoOn, Same, SameTarget, SamePlan, SameFiles, Turns, Leaves, Outside
  <1>10. CASE WriteServeCfg(j)
    BY <1>10, WriteServeCfgMoves, <1>0 DEF JobsGoOn, Same, SameTarget, SamePlan, SameFiles, Turns, Leaves, Outside
  <1>11. CASE WriteFails(j)
    BY <1>11, WriteFailsMoves, <1>0 DEF JobsGoOn, Same, SameTarget, SamePlan, SameFiles, Turns, Leaves, Outside
  <1>12. CASE Tell(j)
    BY <1>12, TellMoves, <1>0 DEF JobsGoOn, Same, SameTarget, SamePlan, SameFiles, Turns, Leaves, Outside
  <1>13. CASE SavePublication(j)
    BY <1>13, SavePublicationMoves, <1>0 DEF JobsGoOn, Same, SameTarget, SamePlan, SameFiles, Turns, Leaves, Outside
  <1>14. CASE Crash(j)
    BY <1>14, CrashMoves, <1>0 DEF JobsGoOn, Same, SameTarget, SamePlan, SameFiles, Turns, Leaves, Outside
  <1>15. QED
    BY <1>1, <1>2, <1>3, <1>4, <1>5, <1>6, <1>7, <1>8, <1>9, <1>10, <1>11, <1>12, <1>13, <1>14 DEF JobActs

\* It touches uploads and backups of its own name only.
LEMMA FilesStep ==
  ASSUME ExportTypes, HomesExist, PlansHold, NEW j \in Jobs, JobActs(j)
  PROVE  Upload(j) \/ FilesGoOn(j)
  <1>1. CASE ChooseContest(j)
    BY <1>1, ChooseContestMoves DEF FilesGoOn, Waiting, Put, Without, Restrict, Moved
  <1>2. CASE MakeContest(j)
    BY <1>2, MakeContestMoves DEF FilesGoOn, Waiting, Put, Without, Restrict, Moved
  <1>3. CASE MakeFails(j)
    BY <1>3, MakeFailsMoves DEF FilesGoOn, Waiting, Put, Without, Restrict, Moved
  <1>4. CASE CommitContest(j)
    BY <1>4, CommitContestMoves DEF FilesGoOn, Waiting, Put, Without, Restrict, Moved
  <1>5. CASE PlanExport(j)
    BY <1>5, PlanExportMoves DEF FilesGoOn, Waiting, Put, Without, Restrict, Moved
  <1>6. CASE Upload(j)
    BY <1>6, UploadMoves DEF FilesGoOn, Waiting, Put, Without, Restrict, Moved
  <1>7. CASE UploadFails(j)
    BY <1>7, UploadFailsMoves DEF FilesGoOn, Waiting, Put, Without, Restrict, Moved
  <1>8. CASE Reread(j)
    BY <1>8, RereadMoves DEF FilesGoOn, Waiting, Put, Without, Restrict, Moved
  <1>9. CASE Swap(j)
    BY <1>9, SwapMoves DEF FilesGoOn, Waiting, Put, Without, Restrict, Moved
  <1>10. CASE WriteServeCfg(j)
    BY <1>10, WriteServeCfgMoves DEF FilesGoOn, Waiting, Put, Without, Restrict, Moved
  <1>11. CASE WriteFails(j)
    BY <1>11, WriteFailsMoves DEF FilesGoOn, Waiting, Put, Without, Restrict, Moved
  <1>12. CASE Tell(j)
    BY <1>12, TellMoves DEF FilesGoOn, Waiting, Put, Without, Restrict, Moved
  <1>13. CASE SavePublication(j)
    BY <1>13, SavePublicationMoves DEF FilesGoOn, Waiting, Put, Without, Restrict, Moved
  <1>14. CASE Crash(j)
    BY <1>14, CrashMoves DEF FilesGoOn, Waiting, Put, Without, Restrict, Moved
  <1>15. QED
    BY <1>1, <1>2, <1>3, <1>4, <1>5, <1>6, <1>7, <1>8, <1>9, <1>10, <1>11, <1>12, <1>13, <1>14 DEF JobActs

\* It touches the contest it writes, and the directory it replaces.
LEMMA HostStep ==
  ASSUME ExportTypes, HomesExist, PlansHold, NEW j \in Jobs, JobActs(j)
  PROVE  HostGoesOn(j)
  <1>1. CASE ChooseContest(j)
    BY <1>1, ChooseContestMoves DEF HostGoesOn, Put, Without, Restrict, Restored
  <1>2. CASE MakeContest(j)
    BY <1>2, MakeContestMoves, NewContestIsNew DEF HostGoesOn, Put, Without, Restrict, Restored
  <1>3. CASE MakeFails(j)
    BY <1>3, MakeFailsMoves DEF HostGoesOn, Put, Without, Restrict, Restored
  <1>4. CASE CommitContest(j)
    BY <1>4, CommitContestMoves DEF HostGoesOn, Put, Without, Restrict, Restored
  <1>5. CASE PlanExport(j)
    BY <1>5, PlanExportMoves DEF HostGoesOn, Put, Without, Restrict, Restored
  <1>6. CASE Upload(j)
    BY <1>6, UploadMoves DEF HostGoesOn, Put, Without, Restrict, Restored
  <1>7. CASE UploadFails(j)
    BY <1>7, UploadFailsMoves DEF HostGoesOn, Put, Without, Restrict, Restored
  <1>8. CASE Reread(j)
    BY <1>8, RereadMoves DEF HostGoesOn, Put, Without, Restrict, Restored
  <1>9. CASE Swap(j)
    BY <1>9, SwapMoves DEF HostGoesOn, Put, Without, Restrict, Restored
  <1>10. CASE WriteServeCfg(j)
    BY <1>10, WriteServeCfgMoves DEF HostGoesOn, Put, Without, Restrict, Restored
  <1>11. CASE WriteFails(j)
    BY <1>11, WriteFailsMoves DEF HostGoesOn, Put, Without, Restrict, Restored
  <1>12. CASE Tell(j)
    BY <1>12, TellMoves DEF HostGoesOn, Put, Without, Restrict, Restored
  <1>13. CASE SavePublication(j)
    BY <1>13, SavePublicationMoves DEF HostGoesOn, Put, Without, Restrict, Restored
  <1>14. CASE Crash(j)
    BY <1>14, CrashMoves DEF HostGoesOn, Put, Without, Restrict, Restored
  <1>15. QED
    BY <1>1, <1>2, <1>3, <1>4, <1>5, <1>6, <1>7, <1>8, <1>9, <1>10, <1>11, <1>12, <1>13, <1>14 DEF JobActs

\* The names of uploads stay different.
LEMMA StampsKept ==
  ASSUME ExportTypes, HomesExist, PlansHold, StampsDiffer, NEW j \in Jobs, JobActs(j)
  PROVE  StampsDiffer'
  <1>1. JobsGoOn(j)
    BY JobsStep
  <1>2. Rest(j) /\ contested \subseteq contested' /\ clock \in Nat /\ clock' \in Nat /\ clock <= clock'
    BY <1>1 DEF JobsGoOn
  <1>3. \A i \in Jobs : jobs'[i].pc \in {"queued", "create", "commit", "fetch", "upload"} => jobs'[i].stamp = 0
    BY <1>1 DEF JobsGoOn, Rest, StampsDiffer, Steps
  <1>4. CASE Upload(j)
    <2>1. /\ jobs[j].pc = "upload" /\ jobs'[j].pc = "reread" /\ SameTarget(j) /\ SamePlan(j)
          /\ clock' = jobs'[j].stamp
          /\ staged' = Put(staged, <<Contest(j), jobs[j].plan.name, clock'>>, Packed(j))
          /\ \/ clock' = clock + 1 /\ contested' = contested
             \/ clock' = clock /\ contested' = contested \cup {Contest(j)} /\ SameSecond(j) # {}
          /\ UNCHANGED kept
      BY <1>4, UploadMoves DEF Turns
    <2>2. clock' \in 1..clock'
      <3>1. SameSecond(j) # {} => clock \in 1..clock
        BY DEF SameSecond, StampsDiffer, Steps
      <3>2. QED
        BY <1>2, <2>1, <3>1
    <2>3. \A at \in DOMAIN staged' \cup DOMAIN kept' : at[3] \in 1..clock'
      <3>1. DOMAIN staged' = DOMAIN staged \cup {<<Contest(j), jobs[j].plan.name, clock'>>}
        BY <2>1 DEF Put
      <3>2. \A at \in DOMAIN staged \cup DOMAIN kept : at[3] \in 1..clock'
        BY <1>2 DEF StampsDiffer
      <3>3. QED
        BY <2>1, <2>2, <3>1, <3>2
    <2>4. ASSUME NEW i \in Jobs, jobs'[i].pc \in Waiting, i # j
          PROVE  jobs'[i] = jobs[i] /\ jobs[i].stamp \in 1..clock /\ jobs[i].pc \in Waiting
      BY <1>2, <2>4 DEF Rest, StampsDiffer, Steps, Waiting
    <2>5. ASSUME NEW i \in Jobs, NEW k \in Jobs, jobs'[i].pc \in Waiting, jobs'[k].pc \in Waiting, i # k,
                 jobs'[i].contest \notin contested'
          PROVE  <<jobs'[i].contest, jobs'[i].plan.name, jobs'[i].stamp>>
                 # <<jobs'[k].contest, jobs'[k].plan.name, jobs'[k].stamp>>
      <3>1. CASE i # j /\ k # j
        BY <1>2, <2>4, <2>5, <3>1 DEF StampsDiffer, Steps, Waiting, Alone, Contest, Stamped
      <3>2. CASE i = j
        <4>1. clock' = clock + 1
          BY <2>1, <2>5, <3>2 DEF SameTarget, Contest
        <4>2. jobs'[k].stamp \in 1..clock /\ jobs'[j].stamp = clock + 1
          BY <2>1, <2>4, <2>5, <3>2, <4>1
        <4>3. QED
          BY <1>2, <3>2, <4>2
      <3>3. CASE k = j
        <4>1. jobs'[i].stamp \in 1..clock /\ jobs'[j].stamp = clock'
          BY <2>1, <2>4, <2>5, <3>3
        <4>2. CASE clock' = clock + 1
          BY <1>2, <3>3, <4>1, <4>2
        <4>3. CASE contested' = contested \cup {Contest(j)}
          BY <2>1, <2>5, <3>3, <4>3 DEF SameTarget, Contest
        <4>4. QED
          BY <2>1, <4>2, <4>3
      <3>4. QED
        BY <3>1, <3>2, <3>3
    <2>6. \A i \in Jobs : jobs'[i].pc \in Waiting => jobs'[i].stamp \in 1..clock'
      BY <1>2, <2>1, <2>2, <2>4
    <2>7. QED
      BY <1>3, <2>3, <2>5, <2>6 DEF StampsDiffer, Steps, Waiting, Alone, Contest, Stamped
  <1>5. CASE ~Upload(j)
    <2>1. FilesGoOn(j)
      BY <1>5, FilesStep
    <2>2. jobs'[j].pc \in Waiting => jobs[j].pc \in Waiting /\ Same(j)
      BY <1>1, <1>5 DEF JobsGoOn, Waiting
    <2>3. \A i \in Jobs : jobs'[i].pc \in Waiting =>
             /\ jobs[i].pc \in Waiting /\ jobs'[i].contest = jobs[i].contest
             /\ jobs'[i].plan = jobs[i].plan /\ jobs'[i].stamp = jobs[i].stamp
      BY <1>2, <2>2 DEF Rest, Same, SameTarget, SamePlan, SameFiles
    <2>4. \A i \in Jobs : jobs'[i].pc \in Waiting =>
             /\ jobs'[i].stamp \in 1..clock'
             /\ jobs'[i].contest \notin contested' => \A k \in Jobs : jobs'[k].pc \in Waiting /\ k # i =>
                  <<jobs'[i].contest, jobs'[i].plan.name, jobs'[i].stamp>>
                  # <<jobs'[k].contest, jobs'[k].plan.name, jobs'[k].stamp>>
      <3>1. \A i \in Jobs : jobs[i].pc \in Waiting =>
             /\ jobs[i].stamp \in 1..clock
             /\ jobs[i].contest \notin contested => \A k \in Jobs : jobs[k].pc \in Waiting /\ k # i =>
                  <<jobs[i].contest, jobs[i].plan.name, jobs[i].stamp>>
                  # <<jobs[k].contest, jobs[k].plan.name, jobs[k].stamp>>
        BY DEF StampsDiffer, Steps, Waiting, Alone, Contest, Stamped
      <3>2. QED
        BY <1>2, <2>3, <3>1
    <2>5. \A at \in DOMAIN staged' \cup DOMAIN kept' : at[3] \in 1..clock'
      <3>1. \A at \in DOMAIN staged \cup DOMAIN kept : at[3] \in 1..clock'
        BY <1>2 DEF StampsDiffer
      <3>2. DOMAIN kept' \subseteq DOMAIN kept \/ Stamped(j)[3] \in 1..clock'
        BY <1>2, <2>1 DEF FilesGoOn, StampsDiffer, Steps, Stamped
      <3>3. QED
        BY <2>1, <3>1, <3>2 DEF FilesGoOn
    <2>6. QED
      BY <1>3, <2>4, <2>5 DEF StampsDiffer, Steps, Waiting, Alone, Contest, Stamped
  <1>6. QED
    BY <1>4, <1>5

\* What one job uploads or keeps is not another's.
LEMMA FilesApart ==
  ASSUME StampsDiffer, NEW i \in Steps(Waiting), NEW j \in Jobs, i # j, Alone(i),
         jobs[j].pc \in {"fetch", "upload"} \cup Waiting
  PROVE  Stamped(j) # Stamped(i)
  <1>1. CASE jobs[j].pc \in Waiting
    BY <1>1 DEF StampsDiffer, Steps, Waiting
  <1>2. CASE jobs[j].pc \in {"fetch", "upload"}
    <2>1. jobs[j].stamp = 0 /\ jobs[i].stamp # 0
      BY <1>2 DEF StampsDiffer, Steps, Waiting
    <2>2. QED
      BY <2>1 DEF Stamped
  <1>3. QED
    BY <1>1, <1>2

\* What waits to be moved is the export's own.
LEMMA UploadsKept ==
  ASSUME ExportTypes, HomesExist, PlansHold, StampsDiffer, UploadsWait, NEW j \in Jobs, JobActs(j)
  PROVE  UploadsWait'
  <1>1. JobsGoOn(j)
    BY JobsStep
  <1>2. Rest(j) /\ contested \subseteq contested' /\ jobs'[j].req = jobs[j].req
    BY <1>1 DEF JobsGoOn
  <1> SUFFICES ASSUME NEW i \in Jobs, jobs'[i].pc \in {"reread", "swap"}, jobs'[i].contest \notin contested'
               PROVE  LET at == <<jobs'[i].contest, jobs'[i].plan.name, jobs'[i].stamp>>
                      IN  /\ at \in DOMAIN staged' \ DOMAIN kept'
                          /\ staged'[at] = [problem |-> jobs'[i].req.problem, version |-> jobs'[i].version]
    BY DEF UploadsWait, Steps, Alone, Contest, Stamped, Packed, Problem
  <1>3. jobs[i].pc \in {"reread", "swap"} /\ jobs[i].contest \notin contested =>
          /\ Stamped(i) \in DOMAIN staged \ DOMAIN kept /\ staged[Stamped(i)] = Packed(i)
    BY DEF UploadsWait, Steps, Alone, Contest
  <1>4. CASE i = j /\ jobs'[j].pc = "swap"
    <2>1. jobs[j].pc = "reread" /\ Same(j) /\ UNCHANGED <<staged, kept>>
      BY <1>1, <1>4 DEF JobsGoOn
    <2>2. QED
      BY <1>2, <1>3, <1>4, <2>1 DEF Same, SameTarget, SamePlan, SameFiles, Stamped, Packed, Contest, Problem
  <1>5. CASE i = j /\ jobs'[j].pc = "reread"
    <2>1. Upload(j)
      BY <1>1, <1>5 DEF JobsGoOn
    <2>2. /\ SameTarget(j) /\ SamePlan(j) /\ clock' = jobs'[j].stamp
          /\ staged' = Put(staged, <<Contest(j), jobs[j].plan.name, clock'>>, Packed(j))
          /\ \/ clock' = clock + 1 /\ contested' = contested
             \/ clock' = clock /\ contested' = contested \cup {Contest(j)} /\ SameSecond(j) # {}
          /\ UNCHANGED kept
      BY <2>1, UploadMoves
    <2>3. jobs'[j].stamp = clock + 1
      BY <1>5, <2>2 DEF SameTarget, Contest
    <2>4. <<Contest(j), jobs[j].plan.name, clock'>> \notin DOMAIN kept
      <3>1. clock \in Nat /\ clock' = clock + 1
        BY <2>2, <2>3 DEF ExportTypes
      <3>2. \A at \in DOMAIN kept : at[3] \in 1..clock
        BY DEF StampsDiffer
      <3>3. QED
        BY <3>1, <3>2
    <2>5. QED
      BY <1>2, <1>5, <2>2, <2>4 DEF Put, SameTarget, SamePlan, Packed, Contest, Problem
  <1>6. CASE i # j
    <2>1. jobs'[i] = jobs[i]
      BY <1>2, <1>6 DEF Rest
    <2>2. Stamped(i) \in DOMAIN staged \ DOMAIN kept /\ staged[Stamped(i)] = Packed(i)
      BY <1>2, <1>3, <2>1
    <2>3. i \in Steps(Waiting) /\ Alone(i)
      BY <1>2, <2>1 DEF Steps, Waiting, Alone, Contest
    <2>4. Stamped(i) \in DOMAIN staged' \ DOMAIN kept' /\ staged'[Stamped(i)] = staged[Stamped(i)]
      <3>1. CASE Upload(j)
        <4>1. /\ staged' = Put(staged, <<Contest(j), jobs[j].plan.name, clock'>>, Packed(j)) /\ UNCHANGED kept
              /\ \/ clock' = clock + 1 /\ contested' = contested
                 \/ clock' = clock /\ contested' = contested \cup {Contest(j)} /\ SameSecond(j) # {}
          BY <3>1, UploadMoves
        <4>2. Stamped(i) # <<Contest(j), jobs[j].plan.name, clock'>>
          <5>1. jobs[i].stamp \in 1..clock /\ clock \in Nat
            BY <2>3 DEF StampsDiffer, Steps, Waiting, ExportTypes
          <5>2. CASE clock' = clock + 1
            BY <5>1, <5>2 DEF Stamped
          <5>3. CASE contested' = contested \cup {Contest(j)}
            BY <2>1, <5>3 DEF Stamped, Contest
          <5>4. QED
            BY <4>1, <5>2, <5>3
        <4>3. QED
          BY <2>2, <4>1, <4>2 DEF Put
      <3>2. CASE ~Upload(j)
        <4>1. FilesGoOn(j)
          BY <3>2, FilesStep
        <4>2. UNCHANGED <<staged, kept>> \/ Stamped(j) # Stamped(i)
          BY <1>6, <2>3, <4>1, FilesApart DEF FilesGoOn
        <4>3. QED
          BY <2>2, <4>1, <4>2 DEF FilesGoOn
      <3>3. QED
        BY <3>1, <3>2
    <2>5. QED
      BY <2>1, <2>2, <2>4 DEF Stamped, Packed, Contest, Problem
  <1>7. QED
    BY <1>4, <1>5, <1>6

\* A contest changes under the hands of its writer only.
LEMMA ContestStep ==
  ASSUME ExportTypes, HomesExist, PlansHold, StampsDiffer, WritersAlone, NEW j \in Jobs, JobActs(j), NEW c \in DOMAIN contests',
         c \notin contested'
  PROVE  \/ c \notin DOMAIN contests /\ contests'[c] = <<>>
         \/ c \in DOMAIN contests /\ contests'[c] = contests[c]
         \/ /\ c \in DOMAIN contests /\ contests[c] \in Seq(Sections) /\ Problem(j) \in Problems
            /\ c = Contest(j) /\ jobs[j].pc = "write" /\ Alone(j) /\ WriteServeCfg(j)
            /\ Writers(c) = {j} /\ jobs[j].plan = BuildPlan(contests[c], Problem(j)) /\ jobs[j].version \in Nat
            /\ contests'[c] = UpsertProblem(contests[c], Problem(j), jobs[j].version, jobs[j].plan)
  <1>1. HostGoesOn(j) /\ contested \subseteq contested'
    BY HostStep, JobsStep DEF JobsGoOn
  <1>2. CASE c \in DOMAIN contests /\ c = Contest(j) /\ jobs[j].pc = "write" /\ WriteServeCfg(j)
    <2>1. Alone(j)
      BY <1>1, <1>2 DEF Alone
    <2>2. jobs[j].seen = contests[c] /\ Writers(c) = {j}
      BY <1>2, <2>1 DEF WritersAlone, Steps
    <2>3. jobs[j].plan = BuildPlan(contests[c], Problem(j))
      BY <1>2, <2>2 DEF PlansHold, Steps
    <2>4. jobs[j].version \in Nat /\ contests[c] \in Seq(Sections) /\ Problem(j) \in Problems
      BY <1>2, ExportAssumption DEF ExportTypes, JobRecords, Problem
    <2>5. contests'[c] = UpsertProblem(jobs[j].seen, Problem(j), jobs[j].version, jobs[j].plan)
      <3>1. contests' = [contests EXCEPT ![Contest(j)] =
                           UpsertProblem(jobs[j].seen, Problem(j), jobs[j].version, jobs[j].plan)]
        BY <1>2, WriteServeCfgMoves
      <3>2. QED
        BY <1>2, <3>1
    <2>6. QED
      BY <1>2, <2>1, <2>2, <2>3, <2>4, <2>5
  <1>3. QED
    BY <1>1, <1>2 DEF HostGoesOn

\* In a quiet contest one export writes, from the configuration it read.
LEMMA WritersAloneKept ==
  ASSUME ExportTypes, HomesExist, PlansHold, StampsDiffer, WritersAlone, HomesExist', NEW j \in Jobs, JobActs(j)
  PROVE  WritersAlone'
  <1>1. JobsGoOn(j)
    BY JobsStep
  <1>2. Rest(j) /\ contested \subseteq contested'
    BY <1>1 DEF JobsGoOn
  <1> SUFFICES ASSUME NEW i \in Jobs, jobs'[i].pc \in {"swap", "write"}, jobs'[i].contest \notin contested'
               PROVE  /\ jobs'[i].seen = contests'[jobs'[i].contest]
                      /\ {k \in Jobs : jobs'[k].pc \in {"swap", "write"} /\ jobs'[k].contest = jobs'[i].contest} = {i}
    BY DEF WritersAlone, Steps, Alone, Contest, Writers
  <1> DEFINE c == jobs'[i].contest
  <1>3. c \in DOMAIN contests' /\ c \notin contested
    BY <1>2 DEF HomesExist, Stages, Contest
  <1>4. jobs[i].pc \in {"swap", "write"} /\ jobs[i].contest = c => jobs[i].seen = contests[c] /\ Writers(c) = {i}
    BY <1>3 DEF WritersAlone, Steps, Alone, Contest
  <1>5. CASE i = j /\ jobs'[j].pc = "swap"
    <2>1. /\ Same(j) /\ jobs'[j].seen = contests[Contest(j)] /\ c = Contest(j) /\ jobs[j].pc = "reread"
      BY <1>1, <1>5 DEF JobsGoOn, Same, SameTarget, Contest
    <2>2. Writers(c) = {}
      BY <1>1, <1>5, <2>1 DEF JobsGoOn
    <2>3. contests'[c] = contests[c]
      <3>1. c \in DOMAIN contests
        BY <2>1 DEF HomesExist, Stages
      <3>2. QED
        BY <1>3, <2>1, <3>1, ContestStep
    <2>4. \A k \in Jobs : jobs'[k].pc \in {"swap", "write"} /\ jobs'[k].contest = c => k = j
      BY <1>2, <2>2 DEF Rest, Writers, Contest
    <2>5. QED
      BY <1>5, <2>1, <2>3, <2>4
  <1>6. CASE i = j /\ jobs'[j].pc = "write"
    <2>1. /\ jobs[j].pc = "swap" /\ Same(j) /\ jobs'[j].seen = jobs[j].seen /\ c = Contest(j)
      BY <1>1, <1>6 DEF JobsGoOn, Same, SameTarget, Contest
    <2>2. jobs[j].seen = contests[c] /\ Writers(c) = {j}
      BY <1>4, <1>6, <2>1 DEF Contest
    <2>3. contests'[c] = contests[c]
      <3>1. c \in DOMAIN contests
        BY <2>1 DEF HomesExist, Stages
      <3>2. QED
        BY <1>3, <2>1, <3>1, ContestStep
    <2>4. \A k \in Jobs : jobs'[k].pc \in {"swap", "write"} /\ jobs'[k].contest = c => k = j
      BY <1>2, <2>2 DEF Rest, Writers, Contest
    <2>5. QED
      BY <1>6, <2>1, <2>2, <2>3, <2>4
  <1>7. CASE i # j
    <2>1. jobs'[i] = jobs[i]
      BY <1>2, <1>7 DEF Rest
    <2>2. jobs[i].seen = contests[c] /\ Writers(c) = {i}
      BY <1>4, <2>1
    <2>3. ~(jobs[j].pc \in {"swap", "write"} /\ Contest(j) = c)
      BY <1>7, <2>2 DEF Writers
    <2>4. contests'[c] = contests[c]
      <3>1. c \in DOMAIN contests
        BY <2>1 DEF HomesExist, Stages, Contest
      <3>2. QED
        BY <1>3, <2>3, <3>1, ContestStep
    <2>5. ~(jobs'[j].pc \in {"swap", "write"} /\ jobs'[j].contest = c)
      <3>1. CASE jobs'[j].pc = "swap"
        <4>1. /\ Same(j) /\ (Writers(Contest(j)) # {} => Contest(j) \in contested')
          BY <1>1, <3>1 DEF JobsGoOn
        <4>2. QED
          BY <2>2, <4>1 DEF Same, SameTarget, Contest
      <3>2. CASE jobs'[j].pc = "write"
        <4>1. jobs[j].pc = "swap" /\ Same(j)
          BY <1>1, <3>2 DEF JobsGoOn
        <4>2. QED
          BY <2>3, <4>1 DEF Same, SameTarget, Contest
      <3>3. QED
        BY <3>1, <3>2
    <2>6. \A k \in Jobs : jobs'[k].pc \in {"swap", "write"} /\ jobs'[k].contest = c => k = i
      BY <1>2, <2>2, <2>5 DEF Rest, Writers, Contest
    <2>7. QED
      BY <2>1, <2>2, <2>4, <2>6
  <1>8. QED
    BY <1>5, <1>6, <1>7

\* An export that writes a configuration nobody changed since it was read.
Writes(c, j) ==
  /\ contests[c] \in Seq(Sections) /\ Problem(j) \in Problems
  /\ jobs[j].plan = BuildPlan(contests[c], Problem(j)) /\ jobs[j].version \in Nat
  /\ contests'[c] = UpsertProblem(contests[c], Problem(j), jobs[j].version, jobs[j].plan)
WroteAt(c, j, k) == WrittenAt(contests[c], contests'[c], Problem(j), jobs[j].version, jobs[j].plan, k)

\* What it leaves of the configuration.
LEMMA SectionWritten ==
  ASSUME NEW j \in Jobs, NEW c, Writes(c, j)
  PROVE  /\ Len(contests'[c]) >= Len(contests[c])
         /\ Distinct(contests[c]) => Distinct(contests'[c])
         /\ \E k \in DOMAIN contests'[c] : WroteAt(c, j, k)
  BY SectionKeeps DEF Writes, WroteAt

\* What is said of a quiet contest stays true when it grows.
Grows(c) ==
  /\ Len(contests'[c]) >= Len(contests[c])
  /\ Distinct(contests[c]) => Distinct(contests'[c])
  /\ \A s \in Own(c) : \E t \in Own(c)' : t.id = s.id /\ t.extid = s.extid

\* A quiet contest grows.
LEMMA ContestsGrow ==
  ASSUME ExportTypes, HomesExist, PlansHold, StampsDiffer, WritersAlone, NEW j \in Jobs, JobActs(j),
         NEW c \in DOMAIN contests \cap DOMAIN contests', c \notin contested'
  PROVE  Grows(c)
  <1>1. CASE contests'[c] = contests[c]
    <2>1. Len(contests[c]) \in Nat
      BY DEF ExportTypes
    <2>2. QED
      BY <1>1, <2>1 DEF Grows, Own
  <1>2. CASE Writes(c, j)
    <2>1. /\ Len(contests'[c]) >= Len(contests[c])
          /\ Distinct(contests[c]) => Distinct(contests'[c])
      BY <1>2, SectionWritten
    <2>2. PICK k \in DOMAIN contests'[c] : WroteAt(c, j, k)
      BY <1>2, SectionWritten
    <2>3. ASSUME NEW i \in DOMAIN contests[c], contests[c][i].extid # Unset
          PROVE  /\ contests'[c][i].id = contests[c][i].id /\ contests'[c][i].extid = contests[c][i].extid
                 /\ i \in DOMAIN contests'[c]
      BY <2>2 DEF WroteAt, WrittenAt, Section
    <2>4. QED
      BY <2>1, <2>3 DEF Grows, Own
  <1>3. QED
    BY <1>1, <1>2, ContestStep DEF Writes

\* No two problems of a quiet contest share a name.
LEMMA ConfigsKept ==
  ASSUME ExportTypes, HomesExist, PlansHold, StampsDiffer, WritersAlone, ConfigsSound, NEW j \in Jobs, JobActs(j)
  PROVE  ConfigsSound'
  <1> SUFFICES ASSUME NEW c \in DOMAIN contests', c \notin contested'
               PROVE  Distinct(contests'[c])
    BY DEF ConfigsSound, Distinct
  <1>1. contested \subseteq contested'
    BY JobsStep DEF JobsGoOn
  <1>2. CASE c \in DOMAIN contests
    BY <1>1, <1>2, ContestsGrow DEF Grows, ConfigsSound
  <1>3. CASE c \notin DOMAIN contests
    <2>1. contests'[c] = <<>>
      BY <1>3, ContestStep
    <2>2. QED
      BY <2>1 DEF Distinct
  <1>4. QED
    BY <1>2, <1>3

\* What was told of a quiet contest stays so.
LEMMA StaysServed ==
  ASSUME NEW c, Grows(c), NEW id, NEW p, IsServed(c, id, p)
  PROVE  \E t \in Own(c)' : t.id = id /\ t.extid = p
  BY DEF IsServed, Grows

\* What a publication is about to tell and remember is what its contest serves.
LEMMA ToldKept ==
  ASSUME ExportTypes, HomesExist, PlansHold, StampsDiffer, WritersAlone, ToldIsServed, HomesExist',
         NEW j \in Jobs, JobActs(j)
  PROVE  ToldIsServed'
  <1>1. JobsGoOn(j)
    BY JobsStep
  <1>2. Rest(j) /\ contested \subseteq contested' /\ jobs'[j].req = jobs[j].req
    BY <1>1 DEF JobsGoOn
  <1> SUFFICES ASSUME NEW i \in Jobs, jobs'[i].pc \in {"tell", "save"}, NEW c, c = jobs'[i].contest, c \notin contested'
               PROVE  \E t \in Own(c)' : t.id = jobs'[i].plan.id /\ t.extid = jobs'[i].req.problem
    BY DEF ToldIsServed, Steps, Alone, Contest, IsServed, Own, Problem
  <1>3. c \in DOMAIN contests' /\ c \notin contested
    BY <1>2 DEF HomesExist, Stages, Contest
  <1>4. ASSUME jobs[i].pc \in {"tell", "save"}, jobs[i].contest = c, jobs[i].plan = jobs'[i].plan, jobs'[i].req = jobs[i].req
        PROVE  \E t \in Own(c)' : t.id = jobs'[i].plan.id /\ t.extid = jobs'[i].req.problem
    <2>1. c \in DOMAIN contests
      BY <1>4 DEF HomesExist, Stages, Contest
    <2>2. IsServed(c, jobs[i].plan.id, Problem(i))
      BY <1>3, <1>4 DEF ToldIsServed, Steps, Alone, Contest
    <2>3. Grows(c)
      BY <1>3, <2>1, ContestsGrow
    <2>4. \E t \in Own(c)' : t.id = jobs[i].plan.id /\ t.extid = Problem(i)
      BY <2>2, <2>3, StaysServed
    <2>5. QED
      BY <1>4, <2>4 DEF Problem
  <1>5. CASE i # j
    BY <1>2, <1>4, <1>5 DEF Rest
  <1>6. CASE i = j /\ jobs'[j].pc = "save"
    <2>1. jobs[j].pc = "tell" /\ Same(j)
      BY <1>1, <1>6 DEF JobsGoOn
    <2>2. QED
      BY <1>2, <1>4, <1>6, <2>1 DEF Same, SameTarget, SamePlan
  <1>7. CASE i = j /\ jobs'[j].pc = "tell"
    <2>1. jobs[j].pc = "write" /\ Same(j) /\ WriteServeCfg(j)
      BY <1>1, <1>7 DEF JobsGoOn
    <2>2. c = Contest(j) /\ jobs'[i].plan = jobs[j].plan
      BY <1>7, <2>1 DEF Same, SameTarget, SamePlan, Contest
    <2>3. Writes(c, j) /\ Problem(j) \in Problems
      <3>1. c \in DOMAIN contests
        BY <2>1, <2>2 DEF HomesExist, Stages
      <3>2. jobs[j].seen = contests[c]
        BY <1>3, <2>1, <2>2 DEF WritersAlone, Steps, Alone
      <3>3. jobs[j].plan = BuildPlan(contests[c], Problem(j))
        BY <2>1, <3>2 DEF PlansHold, Steps
      <3>4. jobs[j].version \in Nat /\ contests[c] \in Seq(Sections) /\ Problem(j) \in Problems
        BY <3>1, ExportAssumption, SMTT(30) DEF ExportTypes, JobRecords, Problem
      <3>5. contests' = [contests EXCEPT ![Contest(j)] =
                           UpsertProblem(jobs[j].seen, Problem(j), jobs[j].version, jobs[j].plan)]
        BY <2>1, WriteServeCfgMoves
      <3>6. QED
        BY <2>2, <3>1, <3>2, <3>3, <3>4, <3>5 DEF Writes
    <2>4. PICK k \in DOMAIN contests'[c] : WroteAt(c, j, k)
      BY <2>3, SectionWritten
    <2>5. contests'[c][k].id = jobs[j].plan.id /\ contests'[c][k].extid = Problem(j) /\ Problem(j) # Unset
      BY <2>3, <2>4, ExportAssumption DEF WroteAt, WrittenAt, Section
    <2>6. \E t \in Own(c)' : t.id = jobs[j].plan.id /\ t.extid = Problem(j)
      BY <2>4, <2>5 DEF Own
    <2>7. QED
      BY <1>2, <1>7, <2>2, <2>6 DEF Problem
  <1>8. QED
    BY <1>5, <1>6, <1>7

\* Publications and NlogN name what a quiet contest serves.
LEMMA PublishedKept ==
  ASSUME ExportTypes, HomesExist, PlansHold, StampsDiffer, WritersAlone, ToldIsServed, PublishedIsServed, HomesExist',
         NEW j \in Jobs, JobActs(j)
  PROVE  PublishedIsServed'
  <1>1. contested \subseteq contested'
    BY JobsStep DEF JobsGoOn
  <1>2. ASSUME NEW c \in Homes, c \notin contested', NEW id, NEW p, IsServed(c, id, p), Homes \subseteq Homes'
        PROVE  \E t \in Own(c)' : t.id = id /\ t.extid = p
    <2>1. c \in DOMAIN contests \cap DOMAIN contests'
      BY <1>2 DEF HomesExist
    <2>2. Grows(c)
      BY <1>2, <2>1, ContestsGrow
    <2>3. QED
      BY <1>2, <2>2, StaysServed
  <1>3. Homes \subseteq Homes'
    <2>1. UNCHANGED blocks \/ blocks' = Append(blocks, Contest(j))
      <3>1. CASE CommitContest(j)
        BY <3>1, CommitContestMoves
      <3>2. CASE ~CommitContest(j)
        BY <3>2 DEF JobActs, base, ChooseContest, MakeContest, MakeFails, PlanExport, Upload, UploadFails,
           Reread, Swap, WriteServeCfg, WriteFails, Tell, SavePublication, Crash
      <3>3. QED
        BY <3>1, <3>2
    <2>2. CASE UNCHANGED blocks
      BY <2>2 DEF Homes
    <2>3. CASE blocks' = Append(blocks, Contest(j))
      <3>1. \A i \in DOMAIN blocks : i \in DOMAIN blocks' /\ blocks'[i] = blocks[i]
        BY <2>3 DEF ExportTypes
      <3>2. QED
        BY <3>1 DEF Homes
    <2>4. QED
      BY <2>1, <2>2, <2>3
  <1>4. \A at \in DOMAIN published' : at[2] \notin contested' =>
           /\ at[2] \in Homes
           /\ IsServed(at[2], published'[at].id, at[1])
    <2>1. \A at \in DOMAIN published : at[2] \notin contested' =>
            at[2] \in Homes /\ IsServed(at[2], published[at].id, at[1])
      BY <1>1 DEF PublishedIsServed, IsServed, HomesExist
    <2>2. CASE UNCHANGED published
      BY <2>1, <2>2
    <2>3. CASE SavePublication(j)
      <3>1. /\ jobs[j].pc = "save"
            /\ \/ UNCHANGED published
               \/ \E row : row.id = jobs[j].plan.id /\ published' = Put(published, <<Problem(j), Contest(j)>>, row)
        BY <2>3, SavePublicationMoves
      <3>2. PICK row : row.id = jobs[j].plan.id /\ (UNCHANGED published \/ published' = Put(published, <<Problem(j), Contest(j)>>, row))
        <4>1. \E row : row.id = jobs[j].plan.id
          <5> WITNESS [id |-> jobs[j].plan.id]
          <5> QED
            OBVIOUS
        <4>2. QED
          BY <3>1, <4>1
      <3>3. Contest(j) \in Homes
        BY <3>1 DEF HomesExist, Stages
      <3>4. Contest(j) \notin contested' => IsServed(Contest(j), jobs[j].plan.id, Problem(j))
        BY <1>1, <3>1 DEF ToldIsServed, Steps, Alone
      <3>5. CASE published' = Put(published, <<Problem(j), Contest(j)>>, row)
        <4> DEFINE new == <<Problem(j), Contest(j)>>
        <4>1. DOMAIN published' = DOMAIN published \cup {new} /\ published'[new] = row
              /\ \A z \in DOMAIN published \ {new} : published'[z] = published[z]
          BY <3>5 DEF Put
        <4>2. new[1] = Problem(j) /\ new[2] = Contest(j)
          OBVIOUS
        <4> HIDE DEF new
        <4>3. QED
          BY <2>1, <3>2, <3>3, <3>4, <4>1, <4>2
      <3>6. QED
        BY <2>1, <3>2, <3>5
    <2>4. QED
      BY <2>2, <2>3 DEF JobActs, base, ChooseContest, MakeContest, MakeFails, CommitContest, PlanExport, Upload, UploadFails,
           Reread, Swap, WriteServeCfg, WriteFails, Tell, Crash
  <1>5. \A at \in DOMAIN nlogn' : at[1] \notin contested' =>
           /\ at[1] \in Homes
           /\ IsServed(at[1], at[2], nlogn'[at])
    <2>1. \A at \in DOMAIN nlogn : at[1] \notin contested' =>
            at[1] \in Homes /\ IsServed(at[1], at[2], nlogn[at])
      BY <1>1 DEF PublishedIsServed, IsServed, HomesExist
    <2>2. CASE UNCHANGED nlogn
      BY <2>1, <2>2
    <2>3. CASE Tell(j)
      <3>1. /\ jobs[j].pc = "tell"
            /\ nlogn' \in {nlogn, Put(nlogn, <<Contest(j), jobs[j].plan.id>>, Problem(j))}
        BY <2>3, TellMoves
      <3>3. Contest(j) \in Homes
        BY <3>1 DEF HomesExist, Stages
      <3>4. Contest(j) \notin contested' => IsServed(Contest(j), jobs[j].plan.id, Problem(j))
        BY <1>1, <3>1 DEF ToldIsServed, Steps, Alone
      <3>5. CASE nlogn' = Put(nlogn, <<Contest(j), jobs[j].plan.id>>, Problem(j))
        <4> DEFINE new == <<Contest(j), jobs[j].plan.id>>
        <4>1. DOMAIN nlogn' = DOMAIN nlogn \cup {new} /\ nlogn'[new] = Problem(j)
              /\ \A z \in DOMAIN nlogn \ {new} : nlogn'[z] = nlogn[z]
          BY <3>5 DEF Put
        <4>2. new[1] = Contest(j) /\ new[2] = jobs[j].plan.id
          OBVIOUS
        <4> HIDE DEF new
        <4>3. QED
          BY <2>1, <3>3, <3>4, <4>1, <4>2
      <3>6. QED
        BY <2>1, <3>1, <3>5
    <2>4. QED
      BY <2>2, <2>3 DEF JobActs, base, ChooseContest, MakeContest, MakeFails, CommitContest, PlanExport, Upload, UploadFails,
           Reread, Swap, WriteServeCfg, WriteFails, SavePublication, Crash
  <1>6. \A at \in DOMAIN published' : at[2] \notin contested' =>
          \E t \in Own(at[2])' : t.id = published'[at].id /\ t.extid = at[1]
    BY <1>2, <1>3, <1>4
  <1>7. \A at \in DOMAIN nlogn' : at[1] \notin contested' =>
          \E t \in Own(at[1])' : t.id = at[2] /\ t.extid = nlogn'[at]
    BY <1>2, <1>3, <1>5
  <1>8. QED
    BY <1>6, <1>7 DEF PublishedIsServed, Own

\* A full block stays full.
LEMMA FullStaysFull ==
  ASSUME ExportTypes, HomesExist, PlansHold, StampsDiffer, WritersAlone, NewestIsFull, UNCHANGED blocks,
         HomesExist', ExportTypes', NEW j \in Jobs, JobActs(j)
  PROVE  NewestIsFull'
  <1>1. contested \subseteq contested'
    BY JobsStep DEF JobsGoOn
  <1>2. CASE blocks = <<>> \/ Newest \in contested
    BY <1>1, <1>2 DEF NewestIsFull, Newest
  <1>3. CASE blocks # <<>> /\ Newest \notin contested' /\ ~HasRoom(Newest)
    <2>1. Newest \in Homes /\ Newest' = Newest
      BY <1>3 DEF Newest, Homes, ExportTypes
    <2>2. Newest \in DOMAIN contests \cap DOMAIN contests'
      BY <2>1 DEF HomesExist, Homes
    <2>3. Len(contests'[Newest]) >= Len(contests[Newest])
      BY <1>3, <2>2, ContestsGrow DEF Grows
    <2>4. Len(contests[Newest]) \in Nat /\ Len(contests'[Newest]) \in Nat /\ BlockSize \in Nat
      BY <2>2, ExportAssumption DEF ExportTypes
    <2>5. ~HasRoom(Newest)'
      BY <1>3, <2>1, <2>3, <2>4 DEF HasRoom
    <2>6. QED
      BY <2>5 DEF NewestIsFull
  <1>4. CASE blocks # <<>> /\ Newest \in contested'
    BY <1>4 DEF NewestIsFull, Newest
  <1>5. QED
    BY <1>2, <1>3, <1>4 DEF NewestIsFull

\* A new block is on its way only if the newest one was full or could not be read.
LEMMA BlocksKept ==
  ASSUME ExportTypes, LockIsHeld, HomesExist, PlansHold, StampsDiffer, WritersAlone, BlocksAreFull,
         HomesExist', ExportTypes', LockIsHeld', NEW j \in Jobs, JobActs(j)
  PROVE  BlocksAreFull'
  <1>1. Rest(j)
    BY JobsStep DEF JobsGoOn
  <1> SUFFICES ASSUME NEW i \in Jobs, jobs'[i].pc \in {"create", "commit"}, ~jobs'[i].blind
               PROVE  NewestIsFull'
    BY DEF BlocksAreFull, Steps
  <1>2. UNCHANGED blocks
    <2>1. CASE CommitContest(j) /\ blocks' # blocks
      <3>1. jobs[j].pc = "commit" /\ jobs'[j].pc = "fetch"
        BY <2>1, CommitContestMoves DEF Turns
      <3>2. \A k \in Jobs \ {j} : jobs[k].pc \notin {"create", "commit"}
        BY <3>1 DEF LockIsHeld
      <3>3. QED
        BY <1>1, <3>1, <3>2 DEF Rest
    <2>2. CASE ~CommitContest(j)
      BY <2>2 DEF JobActs, base, ChooseContest, MakeContest, MakeFails, PlanExport, Upload, UploadFails,
         Reread, Swap, WriteServeCfg, WriteFails, Tell, SavePublication, Crash
    <2>3. QED
      BY <2>1, <2>2
  <1>3. CASE i # j
    <2>1. NewestIsFull
      BY <1>1, <1>3 DEF Rest, BlocksAreFull, Steps
    <2>2. QED
      BY <1>2, <2>1, FullStaysFull
  <1>4. CASE i = j /\ jobs'[j].pc = "commit"
    <2>1. jobs[j].pc = "create" /\ jobs'[j].blind = jobs[j].blind
      BY <1>4, JobsStep, MakeContestMoves DEF JobsGoOn
    <2>2. NewestIsFull
      BY <1>4, <2>1 DEF BlocksAreFull, Steps
    <2>3. QED
      BY <1>2, <2>2, FullStaysFull
  <1>5. CASE i = j /\ jobs'[j].pc = "create"
    <2>1. ChooseContest(j)
      BY <1>5, JobsStep DEF JobsGoOn
    <2>2. NewestIsFull /\ UNCHANGED <<blocks, contests, contested>>
      BY <1>5, <2>1, ChooseContestMoves DEF Turns
    <2>3. QED
      BY <2>2 DEF NewestIsFull, Newest, HasRoom
  <1>6. QED
    BY <1>3, <1>4, <1>5

\* What a quiet contest serves under the name of an export's plan is the export's problem.
LEMMA NameIsPlanned ==
  ASSUME ExportTypes, HomesExist, PlansHold, WritersAlone, ConfigsSound,
         NEW j \in Steps({"swap", "write"}), Alone(j), NEW s \in Own(Contest(j))
  PROVE  s.name = jobs[j].plan.name <=> s.extid = Problem(j)
  <1> DEFINE c == Contest(j)
             cfg == contests[c]
             p == Problem(j)
             plan == jobs[j].plan
  <1>1. j \in Jobs /\ jobs[j].pc \in {"swap", "write"}
    BY DEF Steps
  <1>2. c \in DOMAIN contests \ contested
    BY <1>1 DEF HomesExist, Stages, Alone
  <1>3. jobs[j].seen = cfg
    BY WritersAlone DEF WritersAlone, Steps
  <1>4. plan = BuildPlan(cfg, p)
    BY <1>1, <1>3 DEF PlansHold, Steps
  <1>5. cfg \in Seq(Sections) /\ p \in Problems /\ p # Unset /\ Distinct(cfg)
    BY <1>1, <1>2, ExportAssumption DEF ExportTypes, JobRecords, Problem, ConfigsSound
  <1>6. PICK i \in DOMAIN cfg : s = cfg[i] /\ cfg[i].extid # Unset
    BY DEF Own
  <1> HIDE DEF cfg, p, plan
  <1> DEFINE at == FindProblem(cfg, p, 0)
  <1>7. \/ /\ at = 0
           /\ \A k \in DOMAIN cfg : /\ cfg[k].extid # p /\ cfg[k].id # plan.id
                                    /\ cfg[k].short # plan.short /\ cfg[k].name # plan.name
        \/ /\ at \in DOMAIN cfg
           /\ cfg[at].extid = p
           /\ plan.name = cfg[at].name \/ \E k \in DOMAIN cfg \ {at} : cfg[k].name = cfg[at].name
           /\ \A k \in DOMAIN cfg \ {at} : cfg[k].short # plan.short /\ cfg[k].name # plan.name
    BY <1>4, <1>5, PlanFits
  <1> HIDE DEF at
  <1>8. CASE \A k \in DOMAIN cfg : cfg[k].extid # p /\ cfg[k].name # plan.name
    BY <1>6, <1>8 DEF p, plan
  <1>9. CASE /\ at \in DOMAIN cfg
             /\ cfg[at].extid = p
             /\ plan.name = cfg[at].name \/ \E k \in DOMAIN cfg \ {at} : cfg[k].name = cfg[at].name
             /\ \A k \in DOMAIN cfg \ {at} : cfg[k].name # plan.name
    <2>1. plan.name = cfg[at].name /\ \A k \in DOMAIN cfg \ {at} : cfg[k].extid # p
      BY <1>5, <1>9 DEF Distinct
    <2>2. cfg[i].name = plan.name <=> cfg[i].extid = p
      BY <1>6, <1>9, <2>1
    <2>3. QED
      BY <1>6, <2>2 DEF p, plan
  <1>10. QED
    BY <1>7, <1>8, <1>9

\* The directories of a quiet contest are what its sections were made from.
LEMMA DirsKept ==
  ASSUME ExportTypes, HomesExist, PlansHold, StampsDiffer, UploadsWait, WritersAlone, ConfigsSound, DirsServed,
         BackupsKept, NEW j \in Jobs, JobActs(j)
  PROVE  DirsServed'
  <1>1. JobsGoOn(j) /\ HostGoesOn(j)
    BY JobsStep, HostStep
  <1>2. Rest(j) /\ contested \subseteq contested' /\ jobs'[j].req = jobs[j].req
    BY <1>1 DEF JobsGoOn
  <1> DEFINE Good(d, c, s) == d.problem = s.extid /\ (d.version = s.version \/ <<c, s.extid>> \in torn')
  <1> SUFFICES ASSUME NEW c \in DOMAIN contests', c \notin contested', NEW s \in Own(c)'
               PROVE  /\ <<c, s.name>> \in DOMAIN dirs'
                      /\ dirs'[<<c, s.name>>].problem = s.extid
                      /\ \/ Good(dirs'[<<c, s.name>>], c, s)
                         \/ \E i \in Jobs : /\ jobs'[i].pc = "write" /\ jobs'[i].contest = c
                                            /\ jobs'[i].req.problem = s.extid
    <2>1. ASSUME NEW c \in DOMAIN contests', NEW s, \E i \in Jobs : /\ jobs'[i].pc = "write" /\ jobs'[i].contest = c
                                                                /\ jobs'[i].req.problem = s.extid
          PROVE  \E i \in Writers(c)' : Is(i, "write")' /\ Problem(i)' = s.extid
      BY <2>1 DEF Writers, Is, Contest, Problem
    <2>2. ASSUME NEW c \in DOMAIN contests', c \notin contested', NEW s \in Own(c)'
          PROVE  /\ <<c, s.name>> \in DOMAIN dirs'
                 /\ dirs'[<<c, s.name>>].problem = s.extid
                 /\ \/ Good(dirs'[<<c, s.name>>], c, s)
                    \/ \E i \in Writers(c)' : Is(i, "write")' /\ Problem(i)' = s.extid
      BY <2>1, <2>2
    <2>3. QED
      BY <2>2 DEF DirsServed, Serves
  <1>3. c \notin contested
    BY <1>2
  <1>4. c \in DOMAIN contests
    <2>1. CASE contests'[c] = <<>>
      BY <2>1 DEF Own
    <2>2. QED
      BY <2>1, ContestStep
  <1>5. ASSUME s \in Own(c)
        PROVE  /\ <<c, s.name>> \in DOMAIN dirs
               /\ dirs[<<c, s.name>>].problem = s.extid
               /\ \/ Serves(dirs[<<c, s.name>>], c, s)
                  \/ \E i \in Jobs : jobs[i].pc = "write" /\ jobs[i].contest = c /\ jobs[i].req.problem = s.extid
    BY <1>3, <1>4, <1>5 DEF DirsServed, Writers, Is, Contest, Problem
  <1>6. CASE WriteServeCfg(j) /\ c = Contest(j)
    <2>1. /\ jobs[j].pc = "write" /\ torn' = torn \ {<<c, Problem(j)>>} /\ UNCHANGED dirs
      BY <1>6, WriteServeCfgMoves
    <2>2. Alone(j) /\ j \in Steps({"swap", "write"})
      BY <1>3, <1>6, <2>1 DEF Alone, Steps
    <2>3. jobs[j].seen = contests[c] /\ Writers(c) = {j}
      BY <1>6, <2>2 DEF WritersAlone
    <2>4. Writes(c, j)
      <3>1. jobs[j].plan = BuildPlan(contests[c], Problem(j))
        BY <2>1, <2>3 DEF PlansHold, Steps
      <3>2. jobs[j].version \in Nat /\ contests[c] \in Seq(Sections) /\ Problem(j) \in Problems
        BY <1>4, ExportAssumption DEF ExportTypes, JobRecords, Problem
      <3>3. contests' = [contests EXCEPT ![Contest(j)] =
                           UpsertProblem(jobs[j].seen, Problem(j), jobs[j].version, jobs[j].plan)]
        BY <1>6, WriteServeCfgMoves
      <3>4. QED
        BY <1>4, <1>6, <2>3, <3>1, <3>2, <3>3 DEF Writes
    <2>5. PICK k \in DOMAIN contests'[c] : WroteAt(c, j, k)
      BY <2>4, SectionWritten
    <2>6. PICK i \in DOMAIN contests'[c] : s = contests'[c][i] /\ s.extid # Unset
      BY DEF Own
    <2>7. CASE i = k
      <3>1. s.name = jobs[j].plan.name /\ s.extid = Problem(j) /\ s.version = jobs[j].version
        BY <2>5, <2>6, <2>7 DEF WroteAt, WrittenAt, Section
      <3>2. <<c, s.name>> \in DOMAIN dirs /\ dirs[<<c, s.name>>] = Packed(j)
        BY <1>6, <2>1, <2>2, <3>1 DEF BackupsKept, Steps, Final
      <3>3. dirs[<<c, s.name>>].problem = s.extid /\ dirs[<<c, s.name>>].version = s.version
        BY <3>1, <3>2 DEF Packed
      <3>4. QED
        BY <2>1, <3>2, <3>3
    <2>8. CASE i # k
      <3>1. Distinct(contests[c])
        BY <1>3, <1>4 DEF ConfigsSound
      <3>2. i \in DOMAIN contests[c] /\ contests[c][i] = s /\ s.extid # Problem(j)
        BY <2>5, <2>6, <2>8, <3>1 DEF WroteAt, WrittenAt
      <3>3. s \in Own(c)
        BY <2>6, <3>2 DEF Own
      <3>4. \A n \in Jobs : ~(jobs[n].pc = "write" /\ jobs[n].contest = c /\ jobs[n].req.problem = s.extid)
        BY <2>3, <3>2 DEF Writers, Contest, Problem
      <3>5. /\ <<c, s.name>> \in DOMAIN dirs /\ Serves(dirs[<<c, s.name>>], c, s)
        BY <1>5, <3>3, <3>4
      <3>6. <<c, s.extid>> \in torn => <<c, s.extid>> \in torn'
        BY <2>1, <3>2
      <3>7. QED
        BY <2>1, <3>5, <3>6 DEF Serves
    <2>9. QED
      BY <2>7, <2>8
  <1>7. ASSUME ~(WriteServeCfg(j) /\ c = Contest(j))
        PROVE  s \in Own(c) /\ (<<c, s.extid>> \in torn => <<c, s.extid>> \in torn')
    <2>1. contests'[c] = contests[c]
      BY <1>4, <1>7, ContestStep
    <2>2. <<c, s.extid>>[1] = c
      OBVIOUS
    <2>3. QED
      BY <1>1, <1>7, <2>1, <2>2 DEF HostGoesOn, Own
  <1>8. CASE Swap(j) /\ c = Contest(j)
    <2>0. ~WriteServeCfg(j)
      BY <1>8, SwapMoves, WriteServeCfgMoves
    <2>1. jobs[j].pc = "swap" /\ Alone(j) /\ j \in Steps({"swap", "write"})
      BY <1>3, <1>8, SwapMoves DEF Alone, Steps
    <2>2. Stamped(j) \in DOMAIN staged /\ staged[Stamped(j)] = Packed(j)
      BY <2>1 DEF UploadsWait, Steps
    <2>3. /\ dirs' = Put(dirs, Final(j), Packed(j))
          /\ \/ Turns(j, "write") /\ SameTarget(j)
             \/ torn' = torn \cup {<<Contest(j), Problem(j)>>}
      BY <1>8, <2>2, SwapMoves
    <2>4. s \in Own(c)
      BY <1>7, <2>0
    <2>5. CASE s.name = jobs[j].plan.name
      <3>1. s.extid = Problem(j)
        BY <1>8, <2>1, <2>4, <2>5, NameIsPlanned
      <3>2. <<c, s.name>> = Final(j)
        BY <1>8, <2>5 DEF Final
      <3>3. Final(j) \in DOMAIN dirs' /\ dirs'[Final(j)] = Packed(j)
        BY <2>3 DEF Put
      <3>4. dirs'[<<c, s.name>>].problem = s.extid
        BY <3>1, <3>2, <3>3 DEF Packed
      <3>5. CASE Turns(j, "write") /\ SameTarget(j)
        <4>1. jobs'[j].pc = "write" /\ jobs'[j].contest = c /\ jobs'[j].req.problem = s.extid
          BY <1>2, <1>8, <3>1, <3>5 DEF Turns, SameTarget, Contest, Problem
        <4>2. QED
          BY <3>2, <3>3, <3>4, <4>1
      <3>6. CASE torn' = torn \cup {<<Contest(j), Problem(j)>>}
        BY <1>8, <3>1, <3>2, <3>3, <3>4, <3>6
      <3>7. QED
        BY <2>3, <3>5, <3>6
    <2>6. CASE s.name # jobs[j].plan.name
      <3>1. <<c, s.name>> # Final(j)
        BY <2>6 DEF Final
      <3>2. \A n \in Jobs : ~(jobs[n].pc = "write" /\ jobs[n].contest = c)
        <4>1. Writers(c) = {j}
          BY <1>8, <2>1 DEF WritersAlone
        <4>2. QED
          BY <2>1, <4>1 DEF Writers, Contest
      <3>3. <<c, s.name>> \in DOMAIN dirs /\ Serves(dirs[<<c, s.name>>], c, s)
        BY <1>5, <2>4, <3>2
      <3>4. <<c, s.name>> \in DOMAIN dirs' /\ dirs'[<<c, s.name>>] = dirs[<<c, s.name>>]
        BY <2>3, <3>1, <3>3 DEF Put
      <3>5. QED
        BY <1>7, <2>0, <3>3, <3>4 DEF Serves
    <2>7. QED
      BY <2>5, <2>6
  <1>9. CASE WriteFails(j) /\ c = Contest(j)
    <2>0. ~WriteServeCfg(j)
      <3>1. UNCHANGED torn /\ contests' = contests /\ Leaves(j) /\ jobs[j].pc = "write"
        BY <1>9, WriteFailsMoves
      <3>2. jobs'[j].pc = "failed"
        BY <1>9 DEF WriteFails, Ends, Idle, ExportTypes
      <3>3. WriteServeCfg(j) => jobs'[j].pc # "failed"
        BY DEF WriteServeCfg, Goes, Ends, Idle, ExportTypes, JobRecords
      <3>4. QED
        BY <3>2, <3>3
    <2>1. jobs[j].pc = "write" /\ Alone(j) /\ j \in Steps({"swap", "write"})
      BY <1>3, <1>9, WriteFailsMoves DEF Alone, Steps
    <2>2. dirs' = Restored(j)
      BY <1>9, WriteFailsMoves
    <2>3. s \in Own(c)
      BY <1>7, <2>0
    <2>4. CASE s.name = jobs[j].plan.name
      <3>1. Stamped(j) \in DOMAIN kept /\ Serves(kept[Stamped(j)], c, s)
        BY <1>9, <2>1, <2>3, <2>4 DEF BackupsKept, Steps
      <3>2. <<c, s.name>> = Final(j)
        BY <1>9, <2>4 DEF Final
      <3>3. Final(j) \in DOMAIN dirs' /\ dirs'[Final(j)] = kept[Stamped(j)]
        BY <2>2, <3>1 DEF Restored, Put
      <3>4. QED
        BY <1>7, <2>0, <3>1, <3>2, <3>3 DEF Serves
    <2>5. CASE s.name # jobs[j].plan.name
      <3>1. <<c, s.name>> # Final(j)
        BY <2>5 DEF Final
      <3>2. s.extid # Problem(j)
        BY <1>9, <2>1, <2>3, <2>5, NameIsPlanned
      <3>3. \A n \in Jobs : ~(jobs[n].pc = "write" /\ jobs[n].contest = c /\ jobs[n].req.problem = s.extid)
        <4>1. Writers(c) = {j}
          BY <1>9, <2>1 DEF WritersAlone
        <4>2. QED
          BY <2>1, <3>2, <4>1 DEF Writers, Contest, Problem
      <3>4. <<c, s.name>> \in DOMAIN dirs /\ Serves(dirs[<<c, s.name>>], c, s)
        BY <1>5, <2>3, <3>3
      <3>5. <<c, s.name>> \in DOMAIN dirs' /\ dirs'[<<c, s.name>>] = dirs[<<c, s.name>>]
        BY <1>1, <3>1, <3>4 DEF HostGoesOn
      <3>6. QED
        BY <1>7, <2>0, <3>4, <3>5 DEF Serves
    <2>6. QED
      BY <2>4, <2>5
  <1>10. CASE ~(WriteServeCfg(j) /\ c = Contest(j)) /\ ~(Swap(j) /\ c = Contest(j)) /\ ~(WriteFails(j) /\ c = Contest(j))
    <2>1. s \in Own(c) /\ (<<c, s.extid>> \in torn => <<c, s.extid>> \in torn')
      BY <1>7, <1>10
    <2>2. <<c, s.name>> \in DOMAIN dirs' /\ dirs'[<<c, s.name>>] = dirs[<<c, s.name>>]
      <3>1. CASE c = Contest(j)
        <4>1. UNCHANGED dirs
          BY <1>10, <3>1 DEF JobActs, host, ChooseContest, MakeContest, MakeFails, CommitContest, PlanExport, Upload,
             UploadFails, Reread, Tell, SavePublication, Crash
        <4>2. QED
          BY <1>5, <2>1, <4>1
      <3>2. CASE c # Contest(j)
        <4>1. <<c, s.name>> # Final(j)
          BY <3>2 DEF Final
        <4>2. QED
          BY <1>1, <1>5, <2>1, <4>1 DEF HostGoesOn
      <3>3. QED
        BY <3>1, <3>2
    <2>3. CASE Serves(dirs[<<c, s.name>>], c, s)
      BY <2>1, <2>2, <2>3 DEF Serves
    <2>4. CASE \E i \in Jobs : jobs[i].pc = "write" /\ jobs[i].contest = c /\ jobs[i].req.problem = s.extid
      <3>1. PICK i \in Jobs : jobs[i].pc = "write" /\ jobs[i].contest = c /\ jobs[i].req.problem = s.extid
        BY <2>4
      <3>2. CASE i # j
        BY <1>2, <1>5, <2>1, <2>2, <3>1, <3>2 DEF Rest
      <3>3. CASE i = j
        <4>1. c = Contest(j) /\ jobs[j].pc = "write"
          BY <3>1, <3>3 DEF Contest
        <4>2. Crash(j)
          BY <1>10, <4>1 DEF JobActs, Is, ChooseContest, MakeContest, MakeFails, CommitContest, PlanExport, Upload,
             UploadFails, Reread, Tell, SavePublication
        <4>3. <<c, Problem(j)>> \in torn'
          BY <4>1, <4>2, CrashMoves
        <4>4. QED
          BY <1>5, <2>1, <2>2, <3>1, <3>3, <4>3 DEF Problem
      <3>4. QED
        BY <3>2, <3>3
    <2>5. QED
      BY <1>5, <2>1, <2>3, <2>4
  <1>11. QED
    BY <1>6, <1>8, <1>9, <1>10

\* Until serve.cfg is written the backup is what the old section was made from.
LEMMA BackupsStay ==
  ASSUME ExportTypes, HomesExist, PlansHold, StampsDiffer, UploadsWait, WritersAlone, ConfigsSound, DirsServed,
         BackupsKept, HomesExist', NEW j \in Jobs, JobActs(j)
  PROVE  BackupsKept'
  <1>1. JobsGoOn(j) /\ HostGoesOn(j)
    BY JobsStep, HostStep
  <1>2. Rest(j) /\ contested \subseteq contested' /\ jobs'[j].req = jobs[j].req
    BY <1>1 DEF JobsGoOn
  <1> SUFFICES ASSUME NEW i \in Jobs, jobs'[i].pc = "write", NEW c, c = jobs'[i].contest, c \notin contested',
                      NEW final, final = <<c, jobs'[i].plan.name>>,
                      NEW stamped, stamped = <<c, jobs'[i].plan.name, jobs'[i].stamp>>
               PROVE  /\ final \in DOMAIN dirs'
                      /\ dirs'[final] = [problem |-> jobs'[i].req.problem, version |-> jobs'[i].version]
                      /\ \A s \in Own(c)' : s.name = jobs'[i].plan.name =>
                           /\ stamped \in DOMAIN kept' /\ kept'[stamped].problem = s.extid
                           /\ kept'[stamped].version = s.version \/ <<c, s.extid>> \in torn'
    BY DEF BackupsKept, Steps, Alone, Final, Packed, Problem, Contest, Stamped, Serves
  <1>3. c \notin contested /\ c \in DOMAIN contests'
    BY <1>2 DEF HomesExist, Stages, Contest
  <1>4. CASE i = j
    <2>1. jobs[j].pc = "swap" /\ Same(j) /\ c = Contest(j)
      BY <1>1, <1>4 DEF JobsGoOn, Same, SameTarget, Contest
    <2>2. Swap(j)
      <3>1. ~Crash(j) /\ ~Swap(j) => FALSE
        BY <2>1 DEF JobActs, Is, ChooseContest, MakeContest, MakeFails, CommitContest, PlanExport, Upload,
           UploadFails, Reread, WriteServeCfg, WriteFails, Tell, SavePublication
      <3>2. ~Crash(j)
        BY <1>4, CrashMoves DEF Leaves, Outside
      <3>3. QED
        BY <3>1, <3>2
    <2>3. Alone(j) /\ j \in Steps({"swap", "write"}) /\ final = Final(j) /\ stamped = Stamped(j)
      BY <1>3, <1>4, <2>1 DEF Alone, Steps, Same, SameTarget, SamePlan, SameFiles, Final, Stamped
    <2>4. Stamped(j) \in DOMAIN staged \ DOMAIN kept /\ staged[Stamped(j)] = Packed(j)
      BY <2>1, <2>3 DEF UploadsWait, Steps
    <2>5. /\ dirs' = Put(dirs, Final(j), Packed(j)) /\ kept' = Moved(j) /\ UNCHANGED contests
      BY <2>2, <2>4, SwapMoves
    <2>6. UNCHANGED torn
      <3>1. CASE Turns(j, "write")
        BY <1>4, <2>2, <2>4, SwapMoves DEF Leaves, Outside
      <3>2. QED
        BY <1>4, <2>2, <2>4, <3>1, SwapMoves DEF Leaves, Outside
    <2>7. final \in DOMAIN dirs' /\ dirs'[final] = Packed(j)
      BY <2>3, <2>5 DEF Put
    <2>8. Packed(j) = [problem |-> jobs'[i].req.problem, version |-> jobs'[i].version]
      BY <1>2, <1>4, <2>1 DEF Packed, Problem, Same, SamePlan
    <2>9. ASSUME NEW s \in Own(c)', s.name = jobs'[i].plan.name
          PROVE  /\ stamped \in DOMAIN kept' /\ kept'[stamped].problem = s.extid
                 /\ kept'[stamped].version = s.version \/ <<c, s.extid>> \in torn'
      <3>1. s \in Own(c) /\ <<c, s.name>> = Final(j)
        BY <1>4, <2>1, <2>3, <2>5, <2>9 DEF Own
      <3>2. \A n \in Jobs : ~(jobs[n].pc = "write" /\ jobs[n].contest = c)
        <4>1. Writers(c) = {j}
          BY <2>1, <2>3 DEF WritersAlone
        <4>2. QED
          BY <2>1, <4>1 DEF Writers, Contest
      <3>3. c \in DOMAIN contests
        BY <1>3, <2>5
      <3>4. Final(j) \in DOMAIN dirs /\ Serves(dirs[Final(j)], c, s)
        BY <1>3, <3>1, <3>2, <3>3 DEF DirsServed, Writers, Is, Contest
      <3>5. kept' = Put(kept, Stamped(j), dirs[Final(j)])
        BY <2>4, <2>5, <3>4 DEF Moved
      <3>6. stamped \in DOMAIN kept' /\ kept'[stamped] = dirs[Final(j)]
        BY <2>3, <3>5 DEF Put
      <3>7. QED
        BY <2>6, <3>4, <3>6 DEF Serves
    <2>10. QED
      BY <2>7, <2>8, <2>9
  <1>5. CASE i # j
    <2>1. jobs'[i] = jobs[i]
      BY <1>2, <1>5 DEF Rest
    <2>2. /\ jobs[i].pc = "write" /\ Contest(i) = c /\ Alone(i) /\ final = Final(i) /\ stamped = Stamped(i)
          /\ i \in Steps(Waiting)
      BY <1>3, <2>1 DEF Contest, Alone, Final, Stamped, Steps, Waiting
    <2>3. Writers(c) = {i}
      BY <2>2 DEF WritersAlone, Steps
    <2>4. ~(jobs[j].pc \in {"swap", "write"} /\ Contest(j) = c)
      BY <1>5, <2>3 DEF Writers
    <2>5. /\ final \in DOMAIN dirs /\ dirs[final] = Packed(i)
          /\ \A s \in Own(c) : s.name = jobs[i].plan.name => stamped \in DOMAIN kept /\ Serves(kept[stamped], c, s)
      BY <2>2 DEF BackupsKept, Steps
    <2>6. c \in DOMAIN contests /\ contests'[c] = contests[c]
      <3>1. c \in DOMAIN contests
        BY <2>2 DEF HomesExist, Stages
      <3>2. QED
        BY <1>3, <2>4, <3>1, ContestStep
    <2>7. final \in DOMAIN dirs' /\ dirs'[final] = dirs[final]
      <3>1. CASE jobs[j].pc \in {"swap", "write"}
        <4>1. final # Final(j)
          BY <2>4, <3>1 DEF Final
        <4>2. QED
          BY <1>1, <2>5, <4>1 DEF HostGoesOn
      <3>2. CASE jobs[j].pc \notin {"swap", "write"}
        BY <1>1, <2>5, <3>2 DEF HostGoesOn
      <3>3. QED
        BY <3>1, <3>2
    <2>8. stamped \in DOMAIN kept => stamped \in DOMAIN kept' /\ kept'[stamped] = kept[stamped]
      <3>1. CASE Upload(j)
        BY <3>1, UploadMoves
      <3>2. CASE ~Upload(j)
        <4>1. FilesGoOn(j)
          BY <3>2, FilesStep
        <4>2. UNCHANGED <<staged, kept>> \/ Stamped(j) # stamped
          BY <1>5, <2>2, <4>1, FilesApart DEF FilesGoOn
        <4>3. QED
          BY <4>1, <4>2 DEF FilesGoOn
      <3>3. QED
        BY <3>1, <3>2
    <2>9. \A p : <<c, p>> \in torn => <<c, p>> \in torn'
      <3>1. ASSUME NEW p, <<c, p>> \in torn PROVE <<c, p>> \in torn'
        <4>1. <<c, p>>[1] = c
          OBVIOUS
        <4>2. QED
          BY <1>1, <2>4, <3>1, <4>1 DEF HostGoesOn
      <3>2. QED
        BY <3>1
    <2>10. \A s \in Own(c)' : s.name = jobs'[i].plan.name =>
                           /\ stamped \in DOMAIN kept' /\ kept'[stamped].problem = s.extid
                           /\ kept'[stamped].version = s.version \/ <<c, s.extid>> \in torn'
      <3>1. Own(c)' = Own(c)
        BY <2>6 DEF Own
      <3>2. QED
        BY <2>1, <2>5, <2>8, <2>9, <3>1 DEF Serves
    <2>11. QED
      BY <2>1, <2>5, <2>7, <2>10 DEF Packed, Problem
  <1>6. QED
    BY <1>4, <1>5

\* Every step of a job keeps the invariant.
LEMMA JobsKeep ==
  ASSUME ExportIInv, NEW j \in Jobs, JobActs(j)
  PROVE  ExportIInv'
  <1>1. /\ ExportTypes /\ LockIsHeld /\ HomesExist /\ PlansHold /\ StampsDiffer /\ UploadsWait
        /\ WritersAlone /\ ConfigsSound /\ DirsServed /\ BackupsKept /\ ToldIsServed
        /\ PublishedIsServed /\ BlocksAreFull
    BY DEF ExportIInv
  <1>2. ExportTypes' /\ LockIsHeld' /\ HomesExist' /\ PlansHold'
    BY <1>1, TypesKept, LockKept, HomesKept, PlansKept
  <1>3. StampsDiffer' /\ UploadsWait' /\ WritersAlone'
    BY <1>1, <1>2, StampsKept, UploadsKept, WritersAloneKept
  <1>4. ConfigsSound' /\ DirsServed' /\ BackupsKept'
    BY <1>1, <1>2, ConfigsKept, DirsKept, BackupsStay
  <1>5. ToldIsServed' /\ PublishedIsServed' /\ BlocksAreFull'
    BY <1>1, <1>2, ToldKept, PublishedKept, BlocksKept
  <1>6. QED
    BY <1>2, <1>3, <1>4, <1>5 DEF ExportIInv

\* So does somebody who adds a problem by hand.
LEMMA PeopleKeep ==
  ASSUME ExportIInv, NEW c \in OldContests, NEW p \in Problems, PersonAdds(c, Wanted[p])
  PROVE  ExportIInv'
  <1> DEFINE cfg == contests[c]
             own == [id |-> NextId(cfg), short |-> FreeShort(cfg, Unset, 0), name |-> FreeName(cfg, Wanted[p], 0)]
             new == Append(cfg, Section(Unset, 0, own))
             last == Len(cfg) + 1
  <1>1. /\ ExportTypes /\ LockIsHeld /\ HomesExist /\ PlansHold /\ StampsDiffer /\ UploadsWait
        /\ WritersAlone /\ ConfigsSound /\ DirsServed /\ BackupsKept /\ ToldIsServed
        /\ PublishedIsServed /\ BlocksAreFull
    BY DEF ExportIInv
  <1>2. /\ contests' = [contests EXCEPT ![c] = new]
        /\ dirs' = Put(dirs, <<c, own.name>>, [problem |-> Unset, version |-> 0])
        /\ contested' = (IF Writers(c) # {} THEN contested \cup {c} ELSE contested)
        /\ UNCHANGED <<staged, kept, blocks, lock, published, nlogn, version, jobs, clock, torn>>
    BY DEF PersonAdds, base
  <1>3. c \in DOMAIN contests /\ cfg \in Seq(Sections)
    BY <1>1 DEF HomesExist, Homes, ExportTypes
  <1>4. /\ new \in Seq(Sections) /\ Len(new) >= Len(cfg)
        /\ Distinct(cfg) => Distinct(new)
        /\ DOMAIN new = DOMAIN cfg \cup {last} /\ new[last].extid = Unset /\ last \notin DOMAIN cfg
        /\ \A i \in DOMAIN cfg : new[i] = cfg[i] /\ cfg[i].name # own.name
    <2> HIDE DEF cfg
    <2> QED
      BY <1>3, AddedIsApart DEF cfg
  <1> HIDE DEF new, own, last
  <1>5. /\ DOMAIN contests' = DOMAIN contests /\ contests'[c] = new
        /\ \A d \in DOMAIN contests : d # c => contests'[d] = contests[d]
    BY <1>2, <1>3 DEF ExportTypes
  <1>6. contested \subseteq contested' /\ (Writers(c) # {} => c \in contested')
    BY <1>2
  <1>7. Own(c)' = Own(c)
    BY <1>4, <1>5 DEF Own
  <1>8. \A d \in DOMAIN contests : Own(d)' = Own(d)
    <2>1. ASSUME NEW d \in DOMAIN contests PROVE Own(d)' = Own(d)
      <3>1. CASE d = c
        BY <1>7, <3>1
      <3>2. CASE d # c
        BY <1>5, <3>2 DEF Own
      <3>3. QED
        BY <3>1, <3>2
    <2>2. QED
      BY <2>1
  <1>9. ExportTypes'
    BY <1>1, <1>2, <1>4, <1>5 DEF ExportTypes
  <1>10. LockIsHeld' /\ PlansHold'
    BY <1>1, <1>2 DEF LockIsHeld, PlansHold, Steps, Problem
  <1>11. HomesExist' /\ Homes' = Homes
    BY <1>1, <1>2, <1>5 DEF HomesExist, Homes, Contest
  <1>12. StampsDiffer' /\ UploadsWait'
    BY <1>1, <1>2, <1>6 DEF StampsDiffer, UploadsWait, Steps, Alone, Contest, Stamped, Packed, Problem
  <1>13. WritersAlone'
    <2>1. ASSUME NEW j \in Jobs, jobs[j].pc \in {"swap", "write"}, jobs[j].contest \notin contested'
          PROVE  jobs[j].seen = contests'[jobs[j].contest]
      <3>1. jobs[j].contest \in DOMAIN contests
        BY <1>1, <2>1 DEF HomesExist, Stages, Contest
      <3>2. jobs[j].contest # c
        BY <1>6, <2>1 DEF Writers, Contest
      <3>3. jobs[j].seen = contests[jobs[j].contest]
        BY <1>1, <1>6, <2>1 DEF WritersAlone, Steps, Alone, Contest
      <3>4. QED
        BY <1>5, <3>1, <3>2, <3>3
    <2>2. QED
      BY <1>1, <1>2, <1>6, <2>1 DEF WritersAlone, Steps, Alone, Contest, Writers
  <1>14. ConfigsSound'
    <2>1. ASSUME NEW d \in DOMAIN contests, d \notin contested' PROVE Distinct(contests'[d])
      <3>1. Distinct(contests[d])
        BY <1>1, <1>6, <2>1 DEF ConfigsSound
      <3>2. CASE d = c
        BY <1>4, <1>5, <3>1, <3>2 DEF cfg
      <3>3. CASE d # c
        BY <1>5, <3>1, <3>3
      <3>4. QED
        BY <3>2, <3>3
    <2>2. QED
      BY <1>5, <2>1 DEF ConfigsSound, Distinct
  <1>15. \A d \in DOMAIN contests : \A s \in Own(d) : <<d, s.name>> \in DOMAIN dirs =>
           <<d, s.name>> \in DOMAIN dirs' /\ dirs'[<<d, s.name>>] = dirs[<<d, s.name>>]
    <2>1. ASSUME NEW d \in DOMAIN contests, NEW s \in Own(d), <<d, s.name>> \in DOMAIN dirs
          PROVE  <<d, s.name>> \in DOMAIN dirs' /\ dirs'[<<d, s.name>>] = dirs[<<d, s.name>>]
      <3>1. <<d, s.name>> # <<c, own.name>>
        <4>1. CASE d = c
          <5>1. PICK i \in DOMAIN cfg : s = cfg[i]
            BY <4>1 DEF Own
          <5>2. s.name # own.name
            BY <1>4, <5>1
          <5>3. QED
            BY <5>2
        <4>2. CASE d # c
          BY <4>2
        <4>3. QED
          BY <4>1, <4>2
      <3>2. QED
        BY <1>2, <2>1, <3>1 DEF Put
    <2>2. QED
      BY <2>1
  <1>16. DirsServed'
    <2>1. ASSUME NEW d \in DOMAIN contests, d \notin contested', NEW s \in Own(d)
          PROVE  /\ <<d, s.name>> \in DOMAIN dirs'
                 /\ dirs'[<<d, s.name>>].problem = s.extid
                 /\ \/ Serves(dirs'[<<d, s.name>>], d, s)
                    \/ \E j \in Writers(d) : Is(j, "write") /\ Problem(j) = s.extid
      BY <1>1, <1>6, <1>15, <2>1 DEF DirsServed
    <2>2. ASSUME NEW d \in DOMAIN contests', d \notin contested', NEW s \in Own(d)'
          PROVE  (/\ <<d, s.name>> \in DOMAIN dirs
                  /\ dirs[<<d, s.name>>].problem = s.extid
                  /\ \/ Serves(dirs[<<d, s.name>>], d, s)
                     \/ \E j \in Writers(d) : Is(j, "write") /\ Problem(j) = s.extid)'
      <3>1. d \in DOMAIN contests /\ s \in Own(d)
        BY <1>5, <1>8, <2>2
      <3>2. QED
        BY <1>2, <2>1, <2>2, <3>1 DEF Serves, Is, Problem, Writers, Contest
    <2>3. QED
      BY <2>2 DEF DirsServed
  <1>17. BackupsKept'
    <2>1. ASSUME NEW j \in Jobs, jobs[j].pc = "write", jobs[j].contest \notin contested'
          PROVE  /\ Final(j) \in DOMAIN dirs' /\ dirs'[Final(j)] = Packed(j)
                 /\ \A s \in Own(Contest(j)) : s.name = jobs[j].plan.name =>
                      Stamped(j) \in DOMAIN kept /\ Serves(kept[Stamped(j)], Contest(j), s)
      <3>1. /\ Final(j) \in DOMAIN dirs /\ dirs[Final(j)] = Packed(j)
            /\ \A s \in Own(Contest(j)) : s.name = jobs[j].plan.name =>
                      Stamped(j) \in DOMAIN kept /\ Serves(kept[Stamped(j)], Contest(j), s)
        BY <1>1, <1>6, <2>1 DEF BackupsKept, Steps, Alone, Contest
      <3>2. Contest(j) # c
        BY <1>6, <2>1 DEF Writers, Contest
      <3>3. Final(j) # <<c, own.name>>
        BY <3>2 DEF Final
      <3>4. QED
        BY <1>2, <3>1, <3>3 DEF Put
    <2>2. ASSUME NEW j \in Jobs, jobs[j].pc = "write"
          PROVE  Own(Contest(j))' = Own(Contest(j)) /\ Contest(j)' = Contest(j)
      <3>1. Contest(j) \in DOMAIN contests /\ Contest(j)' = Contest(j)
        BY <1>1, <1>2, <2>2 DEF HomesExist, Stages, Contest
      <3>2. PICK d \in DOMAIN contests : d = Contest(j)
        BY <3>1
      <3>3. Own(d)' = Own(d) /\ d = Contest(j)'
        BY <1>8, <3>1, <3>2
      <3>4. QED
        BY <3>1, <3>2, <3>3 DEF Own
    <2>3. QED
      BY <1>2, <2>1, <2>2 DEF BackupsKept, Steps, Alone, Final, Packed, Problem, Stamped, Serves, Contest
  <1>18. ToldIsServed'
    <2>1. ASSUME NEW j \in Jobs, jobs[j].pc \in {"tell", "save"}, NEW d, d = Contest(j), d \notin contested'
          PROVE  \E s \in Own(d)' : s.id = jobs[j].plan.id /\ s.extid = Problem(j)
      <3>1. d \in DOMAIN contests
        BY <1>1, <2>1 DEF HomesExist, Stages
      <3>2. \E s \in Own(d) : s.id = jobs[j].plan.id /\ s.extid = Problem(j)
        BY <1>1, <1>6, <2>1 DEF ToldIsServed, Steps, Alone, IsServed
      <3>3. QED
        BY <1>8, <3>1, <3>2
    <2>2. QED
      BY <1>2, <2>1 DEF ToldIsServed, Steps, Alone, IsServed, Problem, Contest, Own
  <1>19. PublishedIsServed'
    <2>1. /\ \A at \in DOMAIN published : at[2] \in DOMAIN contests
          /\ \A at \in DOMAIN nlogn : at[1] \in DOMAIN contests
      BY <1>1 DEF HomesExist
    <2>2. \A at \in DOMAIN published : at[2] \notin contested' =>
             \E s \in Own(at[2])' : s.id = published[at].id /\ s.extid = at[1]
      BY <1>1, <1>6, <1>8, <2>1 DEF PublishedIsServed
    <2>3. \A at \in DOMAIN nlogn : at[1] \notin contested' =>
             \E s \in Own(at[1])' : s.id = at[2] /\ s.extid = nlogn[at]
      BY <1>1, <1>6, <1>8, <2>1 DEF PublishedIsServed
    <2>4. QED
      BY <1>2, <2>2, <2>3 DEF PublishedIsServed, Own
  <1>20. BlocksAreFull'
    <2>1. NewestIsFull => NewestIsFull'
      <3>1. CASE blocks = <<>> \/ Newest \in contested
        BY <1>2, <1>6, <3>1 DEF NewestIsFull, Newest
      <3>2. CASE blocks # <<>> /\ ~HasRoom(Newest)
        <4>1. Newest \in DOMAIN contests /\ Newest' = Newest
          BY <1>1, <1>2, <3>2 DEF Newest, HomesExist, Homes, ExportTypes
        <4>2. /\ Len(contests[Newest]) \in Nat /\ Len(contests'[Newest]) \in Nat
              /\ BlockSize \in Nat
          BY <1>1, <1>5, <1>9, <4>1, ExportAssumption DEF ExportTypes
        <4>3. Len(contests'[Newest]) >= Len(contests[Newest])
          BY <1>4, <1>5, <4>1, <4>2 DEF cfg
        <4>4. ~HasRoom(Newest)'
          BY <3>2, <4>1, <4>2, <4>3 DEF HasRoom
        <4>5. QED
          BY <4>4 DEF NewestIsFull
      <3>3. QED
        BY <3>1, <3>2 DEF NewestIsFull
    <2>2. QED
      BY <1>1, <1>2, <2>1 DEF BlocksAreFull, Steps
  <1>21. QED
    BY <1>9, <1>10, <1>11, <1>12, <1>13, <1>14, <1>16, <1>17, <1>18, <1>19, <1>20 DEF ExportIInv

\* A new package changes nothing on the host.
LEMMA OthersKeep ==
  ASSUME ExportIInv, \/ UNCHANGED exportVars
                     \/ \E p \in Problems : BuildPackage(p)
  PROVE  ExportIInv'
  <1>1. UNCHANGED <<contests, dirs, staged, kept, blocks, lock, published, nlogn, jobs, clock, contested, torn>>
    BY DEF exportVars, BuildPackage, host, base
  <1>2. version' \in [Problems -> Nat]
    BY SMTT(30) DEF exportVars, BuildPackage, ExportIInv, ExportTypes
  <1>3. ExportTypes' /\ LockIsHeld' /\ HomesExist' /\ PlansHold'
    BY <1>1, <1>2 DEF ExportIInv, ExportTypes, LockIsHeld, HomesExist, Homes, PlansHold, Steps, Problem, Contest
  <1>4. StampsDiffer' /\ UploadsWait' /\ WritersAlone' /\ ConfigsSound'
    BY <1>1 DEF ExportIInv, StampsDiffer, UploadsWait, WritersAlone, ConfigsSound, Distinct, Steps, Problem, Contest,
       Alone, Stamped, Packed, Writers
  <1>5. \A c : Own(c)' = Own(c) /\ Writers(c)' = Writers(c)
    BY <1>1 DEF Own, Writers, Contest
  <1>6. DirsServed'
    <2>1. DirsServed
      BY DEF ExportIInv
    <2>2. ASSUME NEW d \in DOMAIN contests', d \notin contested', NEW s \in Own(d)'
          PROVE  (/\ <<d, s.name>> \in DOMAIN dirs
                  /\ dirs[<<d, s.name>>].problem = s.extid
                  /\ \/ Serves(dirs[<<d, s.name>>], d, s)
                     \/ \E j \in Writers(d) : Is(j, "write") /\ Problem(j) = s.extid)'
      BY <1>1, <1>5, <2>1, <2>2 DEF DirsServed, Serves, Is, Problem, Writers, Contest
    <2>3. QED
      BY <2>2 DEF DirsServed
  <1>7. BackupsKept'
    BY <1>1 DEF ExportIInv, BackupsKept, Serves, Own, Steps, Alone, Final, Packed, Stamped, Problem, Contest
  <1>8. ToldIsServed' /\ PublishedIsServed'
    BY <1>1 DEF ExportIInv, ToldIsServed, PublishedIsServed, IsServed, Own, Steps, Alone, Problem, Contest
  <1>9. BlocksAreFull'
    BY <1>1 DEF ExportIInv, BlocksAreFull, NewestIsFull, HasRoom, Newest, Steps
  <1>10. QED
    BY <1>3, <1>4, <1>6, <1>7, <1>8, <1>9 DEF ExportIInv

\* It holds when nothing has been asked for yet.
LEMMA ExportInitHolds == ExportInit => ExportIInv
  <1> SUFFICES ASSUME ExportInit PROVE ExportIInv
    OBVIOUS
  <1>1. /\ contests = [c \in OldContests |-> <<>>] /\ dirs = <<>> /\ staged = <<>> /\ kept = <<>>
        /\ blocks = <<>> /\ lock = Unset /\ published = <<>> /\ nlogn = <<>> /\ clock = 0
        /\ version = [p \in Problems |-> 1]
    BY DEF ExportInit
  <1>2. PICK asked \in [Jobs -> Requests] : jobs = [j \in Jobs |-> Idle("queued", asked[j], 0)]
    BY DEF ExportInit
  <1>3. \A j \in Jobs : jobs[j] \in JobRecords /\ jobs[j].pc = "queued" /\ jobs[j].stamp = 0
    BY <1>2 DEF Idle, NoPlan, JobRecords, ExportPlans, Outside
  <1>4. DOMAIN contests = OldContests /\ \A c \in DOMAIN contests : contests[c] = <<>>
    BY <1>1
  <1>5. ExportTypes
    BY <1>1, <1>2, <1>3, <1>4, ExportAssumption DEF ExportTypes
  <1>6. /\ DOMAIN dirs = {} /\ DOMAIN staged = {} /\ DOMAIN kept = {} /\ DOMAIN published = {} /\ DOMAIN nlogn = {}
        /\ DOMAIN blocks = {}
    BY <1>1
  <1>7. LockIsHeld /\ HomesExist
    BY <1>1, <1>3, <1>4, <1>6, ExportAssumption DEF LockIsHeld, HomesExist, Homes, Stages
  <1>8. PlansHold /\ StampsDiffer /\ UploadsWait /\ WritersAlone /\ BackupsKept /\ ToldIsServed /\ BlocksAreFull
    BY <1>1, <1>3, <1>6 DEF PlansHold, StampsDiffer, UploadsWait, WritersAlone, BackupsKept, ToldIsServed,
       BlocksAreFull, Steps
  <1>9. ConfigsSound /\ DirsServed /\ PublishedIsServed
    <2>1. \A c \in DOMAIN contests : DOMAIN contests[c] = {}
      BY <1>4
    <2>2. QED
      BY <1>6, <2>1 DEF ConfigsSound, DirsServed, PublishedIsServed, Distinct, Own
  <1>10. QED
    BY <1>5, <1>7, <1>8, <1>9 DEF ExportIInv

\* Every step keeps it.
LEMMA ExportNextKeeps == ExportIInv /\ [ExportNext]_exportVars => ExportIInv'
  <1> SUFFICES ASSUME ExportIInv, [ExportNext]_exportVars PROVE ExportIInv'
    OBVIOUS
  <1>1. ASSUME NEW j \in Jobs, JobActs(j) PROVE ExportIInv'
    BY <1>1, JobsKeep
  <1>2. ASSUME NEW c \in OldContests, NEW p \in Problems, PersonAdds(c, Wanted[p]) PROVE ExportIInv'
    BY <1>2, PeopleKeep
  <1>3. CASE UNCHANGED exportVars \/ \E p \in Problems : BuildPackage(p)
    BY <1>3, OthersKeep
  <1>4. QED
    BY <1>1, <1>2, <1>3 DEF ExportNext, JobActs

\* What the reachable states of the exports have in common.
THEOREM ExportInvariant == ExportSpec => []ExportIInv
  <1>1. QED
    BY ExportInitHolds, ExportNextKeeps, PTL DEF ExportSpec

\* In a contest where no two writers met no two problems share a name, and every exported
\* one is served from its own directory, of the package its section was made from.
LEMMA ExportsServeTheirOwn == ExportSpec => []ServedIsOwn
  <1>1. ExportIInv => ServedIsOwn
    <2> SUFFICES ASSUME ExportIInv PROVE ServedIsOwn
      OBVIOUS
    <2>1. ConfigsSound /\ DirsServed
      BY DEF ExportIInv
    <2>2. ASSUME NEW c \in DOMAIN contests \ contested, NEW s \in Own(c)
          PROVE  /\ <<c, s.name>> \in DOMAIN dirs
                 /\ dirs[<<c, s.name>>].problem = s.extid
                 /\ \/ dirs[<<c, s.name>>].version = s.version
                    \/ <<c, s.extid>> \in torn
                    \/ \E j \in Writers(c) : Is(j, "write") /\ Problem(j) = s.extid
      BY <2>1 DEF DirsServed, Serves
    <2>3. \A c \in DOMAIN contests \ contested : Distinct(contests[c])
      BY <2>1 DEF ConfigsSound
    <2>4. QED
      BY <2>2, <2>3 DEF ServedIsOwn, Distinct
  <1>2. QED
    BY <1>1, ExportInvariant, PTL

\* Where a publication says a problem lives, and what NlogN was told, is what the contest serves.
LEMMA PublicationsAreServed == ExportSpec => []PublishedIsServed
  <1>1. ExportIInv => PublishedIsServed
    BY DEF ExportIInv
  <1>2. QED
    BY <1>1, ExportInvariant, PTL

\* Every exported problem is served as its own, and where its publication says.
THEOREM ExportsAreServed == ExportSpec => []ProblemsAreServed
  <1>1. QED
    BY ExportsServeTheirOwn, PublicationsAreServed, PTL DEF ProblemsAreServed

\* A block is added only when the newest one was full or could not be read.
THEOREM BlocksAreAddedWhenFull == ExportSpec => BlocksAreFilled
  <1> DEFINE Filled == blocks' # blocks /\ blocks # <<>> =>
        \/ ~HasRoom(Newest)
        \/ \E j \in Jobs : Is(j, "commit") /\ jobs[j].blind
        \/ Newest \in contested
  <1>1. ExportIInv /\ [ExportNext]_exportVars => [Filled]_exportVars
    <2> SUFFICES ASSUME ExportIInv, ExportNext, blocks' # blocks, blocks # <<>> PROVE Filled
      BY DEF exportVars
    <2>1. PICK j \in Jobs : CommitContest(j)
      BY ZenonT(30) DEF ExportNext, base, ChooseContest, MakeContest, MakeFails, PlanExport, Upload, UploadFails,
         Reread, Swap, WriteServeCfg, WriteFails, Tell, SavePublication, Crash, BuildPackage, PersonAdds
    <2>2. Is(j, "commit")
      BY <2>1 DEF CommitContest
    <2>3. jobs[j].blind \/ NewestIsFull
      BY <2>2 DEF ExportIInv, BlocksAreFull, Steps, Is
    <2>4. QED
      BY <2>2, <2>3 DEF NewestIsFull
  <1>2. QED
    BY <1>1, ExportInvariant, PTL DEF ExportSpec, BlocksAreFilled

=============================================================================
