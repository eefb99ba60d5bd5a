------------------------------ MODULE UserProofs ------------------------------
(***************************************************************************)
(* What holds of the work of a user on a problem, in two parts that share  *)
(* no variable.                                                            *)
(*                                                                         *)
(* A chat session, for any number of messages, settings, samples and       *)
(* failed calls: the safety and action properties of ChatSession, from one *)
(* inductive invariant (CInv).  The tasks of one message follow each other *)
(* (TurnOK), so that whoever writes the row holds a copy with all the user *)
(* has said (InputHeld); the session says building while a build is asked  *)
(* for or runs (StatusTrue); every copy knows the problem made             *)
(* (ProblemKnown).  All of it is claimed while the tasks of two messages   *)
(* have not met (~crossed).  Most steps touch little (Quiet), and one      *)
(* lemma each shows that; QuietKeeps does the rest.                        *)
(*                                                                         *)
(* The routes of a Polygon problem, for any number of requests, lost       *)
(* answers and edits from outside: the properties of PolygonWorkspace,     *)
(* from one inductive invariant (WorkspaceInv).  It says how far a request *)
(* is on its route (OnRoute) and that what the steps taken save is saved   *)
(* (SavedStays), what a build about to order its package finds committed   *)
(* (BuildsCovered), and that rows refreshed and answers held are what      *)
(* Polygon has unless overtaken (RowsAreFresh, AnswersAreFresh).  Of the   *)
(* routes it needs the order of their steps only, which all of them share  *)
(* (Shape, RoutesAreShaped).                                               *)
(***************************************************************************)
EXTENDS ChatSession, PolygonWorkspace, FiniteSetTheorems, TLAPS

Fields == {"pc", "view", "dirty", "stale", "fresh", "saved", "told", "action"}
StepsOf(kind) ==
    CASE kind = "request"    -> {"none", "persist", "route", "statement", "files", "problem", "push",
                                 "sync", "tags", "essence", "samples", "upload", "tail", "mark",
                                 "spawn", "reply", "ended"}
      [] kind = "generation" -> {"none", "spawned", "progress", "statement", "files", "problem",
                                 "push", "sync", "tags", "samples", "upload", "tail", "pack",
                                 "mark", "spawn", "reply", "ended"}
      [] kind = "build"      -> {"none", "spawned", "samplesOfBuild", "verdict", "message", "ended"}
      [] OTHER               -> {"none", "merge", "ended"}

\* A task that has read the row: its copy is one of a row.
HasView(j) == j.pc \notin {"none", "ended", "spawned"}
RowOK(v) == DOMAIN v = Columns /\ v.examples \in 0..MaxSlots
TaskOK(a, j) ==
    /\ DOMAIN j = Fields /\ j.pc \in StepsOf(Kind(a)) /\ j.dirty \subseteq {"examples"}
    /\ j.stale \in 0..MaxSlots /\ j.fresh \in 0..MaxSamples /\ j.saved \subseteq 1..j.fresh
    /\ j.pc = "tail" \/ j.saved = {}
    /\ HasView(j) => RowOK(j.view)
    /\ j.pc = "sync" => j.view.problem # None

\* The tasks of a message follow each other: a generation after its request, a
\* build when the one that asked for it has only its answer to write.
TurnOK(t) ==
    LET r == task[<<"request", t>>].pc
        g == task[<<"generation", t>>].pc
        b == task[<<"build", t>>].pc
    IN  /\ r \in {"none", "persist", "route"} => g = "none" /\ b = "none"
        /\ g # "none" => r = "ended"
        /\ b # "none" => r \in {"reply", "ended"} /\ g \in {"none", "reply", "ended"}
OneTurn == \A a, o \in Tasks : Active(a) /\ Active(o) => Turn(a) = Turn(o)

Frame == /\ DOMAIN task = Tasks /\ \A a \in Tasks : TaskOK(a, task[a])
         /\ RowOK(row) /\ DOMAIN slots = 1..MaxSlots /\ failures \in Nat
         /\ IsFiniteSet(problems)
         /\ \A t \in Turns : TurnOK(t)
         /\ ~crossed => OneTurn

\* What the user wrote and set, of what was ever stored (K), is in v.
Holds(K, v) ==
    /\ \A t \in Turns : Entry(t, "user") \in K => Entry(t, "user") \in v.log
    /\ Cardinality(Editors) = 1 =>
         \A e \in Editors : Entry(e, "limits") \in K => v.limits = e
InputHeld == ~crossed => /\ Holds(kept, row)
                         /\ \A a \in Tasks : HasView(task[a]) => Holds(kept, task[a].view)

\* A build asked for or running.
Shows(a, pc) == \/ pc = "spawn"
                \/ Kind(a) = "build" /\ pc \in {"spawned", "samplesOfBuild", "verdict"}
StatusTrue == ~crossed /\ ~restarted =>
                (status = "building" <=> \E a \in Tasks : Shows(a, task[a].pc))

ProblemKnown ==
    ~crossed /\ failures = 0 =>
        /\ problems = IF row.problem = None THEN {} ELSE {row.problem}
        /\ \A a \in Tasks : HasView(task[a]) => task[a].view.problem = row.problem

SavedAreThere ==
    ~crossed => \A a \in Tasks : task[a].pc = "tail" => \A i \in task[a].saved : slots[i] = Turn(a)

CInv == Frame /\ InputHeld /\ StatusTrue /\ ProblemKnown /\ SavedAreThere
-----------------------------------------------------------------------------
LEMMA Bounds ==
  /\ MaxSlots \in Nat /\ 0 \in 0..MaxSlots /\ 0 \in 0..MaxSamples
  /\ \A n \in 1..MaxSamples : n \in 0..MaxSlots /\ n \in 0..MaxSamples
  /\ \A n \in 0..MaxSamples : 1..n \subseteq 1..MaxSlots
  /\ OldSamples \in 0..MaxSlots
  BY ChatAssumption DEF MaxSlots

LEMMA IdleIs ==
  /\ DOMAIN Idle = Fields /\ Idle.pc = "none" /\ Idle.dirty = {} /\ Idle.stale = 0
  /\ Idle.fresh = 0 /\ Idle.saved = {} /\ Idle.told = {}
  /\ DOMAIN Ended = Fields /\ Ended.pc = "ended" /\ Ended.dirty = {} /\ Ended.stale = 0
  /\ Ended.fresh = 0 /\ Ended.saved = {} /\ Ended.told = {}
  BY DEF Idle, Ended, Fields

LEMMA KindsAre ==
  ASSUME NEW a \in Tasks
  PROVE  /\ a = <<Kind(a), Turn(a)>>
         /\ \/ Kind(a) \in Kinds /\ Turn(a) \in Turns
            \/ Kind(a) = "settings" /\ Turn(a) \in Editors
         /\ "none" \in StepsOf(Kind(a)) /\ "ended" \in StepsOf(Kind(a))
  BY DEF Tasks, Kind, Turn, Kinds, StepsOf

LEMMA TasksAre ==
  /\ \A t \in Turns : /\ <<"request", t>> \in Tasks /\ <<"generation", t>> \in Tasks
                      /\ <<"build", t>> \in Tasks
  /\ \A e \in Editors : <<"settings", e>> \in Tasks
  /\ Turns \cap Editors = {}
  BY ChatAssumption DEF Tasks, Kinds, Turns

LEMMA StepsAre ==
  /\ StepsOf("request") = {"none", "persist", "route", "statement", "files", "problem", "push",
                           "sync", "tags", "essence", "samples", "upload", "tail", "mark",
                           "spawn", "reply", "ended"}
  /\ StepsOf("generation") = {"none", "spawned", "progress", "statement", "files", "problem",
                              "push", "sync", "tags", "samples", "upload", "tail", "pack",
                              "mark", "spawn", "reply", "ended"}
  /\ StepsOf("build") = {"none", "spawned", "samplesOfBuild", "verdict", "message", "ended"}
  /\ StepsOf("settings") = {"none", "merge", "ended"}
  BY DEF StepsOf

\* A task is what its step says: only requests and generations write files.
LEMMA KindOfStep ==
  ASSUME Frame, NEW a \in Tasks
  PROVE  LET p == task[a].pc IN
         /\ p \in {"persist", "route", "essence"} => Kind(a) = "request" /\ Turn(a) \in Turns
         /\ p \in {"progress", "pack"} => Kind(a) = "generation" /\ Turn(a) \in Turns
         /\ p \in {"samplesOfBuild", "verdict", "message"} => Kind(a) = "build" /\ Turn(a) \in Turns
         /\ p = "merge" => Kind(a) = "settings" /\ Turn(a) \in Editors
         /\ p = "spawned" => Kind(a) \in {"generation", "build"} /\ Turn(a) \in Turns
         /\ p \in {"statement", "files", "problem", "push", "sync", "tags", "samples", "upload",
                   "tail", "mark", "spawn", "reply"}
              => Kind(a) \in {"request", "generation"} /\ Turn(a) \in Turns
  <1>1. task[a].pc \in StepsOf(Kind(a))
    BY DEF Frame, TaskOK
  <1>2. CASE Kind(a) \in Kinds /\ Turn(a) \in Turns
    BY <1>1, <1>2, StepsAre DEF Kinds
  <1>3. CASE Kind(a) = "settings" /\ Turn(a) \in Editors
    BY <1>1, <1>3, StepsAre
  <1>4. QED
    BY <1>2, <1>3, KindsAre

\* While a message's request or generation is at work, or a setting is merged,
\* nothing else runs.
LEMMA Alone ==
  ASSUME Frame, ~crossed, NEW a \in Tasks, Active(a), task[a].pc # "reply", Kind(a) # "build",
         NEW o \in Tasks, o # a
  PROVE  ~Active(o)
  <1> SUFFICES ASSUME Active(o) PROVE FALSE
    OBVIOUS
  <1>1. Turn(o) = Turn(a)
    BY DEF Frame, OneTurn
  <1>2. CASE Kind(a) = "settings" /\ Turn(a) \in Editors
    <2>1. Kind(o) = "settings"
      BY <1>1, <1>2, KindsAre, TasksAre
    <2>2. QED
      BY <1>1, <1>2, <2>1, KindsAre
  <1>3. CASE Kind(a) \in Kinds /\ Turn(a) \in Turns
    <2> DEFINE t == Turn(a)
    <2>1. Kind(o) \in Kinds
      BY <1>1, <1>3, KindsAre, TasksAre
    <2>2. TurnOK(t)
      BY <1>3 DEF Frame
    <2>3. /\ a \in {<<"request", t>>, <<"generation", t>>}
          /\ o \in {<<"request", t>>, <<"generation", t>>, <<"build", t>>}
      BY <1>1, <1>3, <2>1, KindsAre DEF Kinds
    <2>4. task[a].pc \notin {"none", "ended", "reply"} /\ task[o].pc \notin {"none", "ended"}
      BY DEF Active, At
    <2> HIDE DEF t
    <2>5. QED
      BY <2>2, <2>3, <2>4 DEF TurnOK
  <1>4. QED
    BY <1>2, <1>3, KindsAre

\* While a build runs, whoever asked for it has only its answer to write.
LEMMA BesideBuild ==
  ASSUME Frame, ~crossed, NEW a \in Tasks, Active(a), Kind(a) = "build",
         NEW o \in Tasks, o # a, Active(o)
  PROVE  task[o].pc = "reply"
  <1>1. Turn(o) = Turn(a)
    BY DEF Frame, OneTurn
  <1>2. Turn(a) \in Turns /\ a = <<"build", Turn(a)>>
    BY KindsAre DEF Kinds
  <1> DEFINE t == Turn(a)
  <1>3. Kind(o) \in Kinds
    BY <1>1, <1>2, KindsAre, TasksAre
  <1>4. o \in {<<"request", t>>, <<"generation", t>>}
    BY <1>1, <1>2, <1>3, KindsAre DEF Kinds
  <1>5. TurnOK(t)
    BY <1>2 DEF Frame
  <1>6. task[a].pc # "none" /\ task[o].pc \notin {"none", "ended"}
    BY DEF Active, At
  <1> HIDE DEF t
  <1>7. QED
    BY <1>2, <1>4, <1>5, <1>6 DEF TurnOK, t
-----------------------------------------------------------------------------
Others(a) == DOMAIN task' = Tasks /\ \A o \in Tasks \ {a} : task'[o] = task[o]

\* A task that has read the row goes on.
LEMMA FrameMoves ==
  ASSUME Frame, NEW a \in Tasks, Others(a), TaskOK(a, task'[a]), HasView(task[a]),
         task[a].pc = "reply" => task'[a].pc = "ended",
         task'[a].pc \notin {"none", "persist", "spawned"},
         task'[a].pc = "route" => task[a].pc = "persist",
         crossed' = crossed, RowOK(row'), DOMAIN slots' = 1..MaxSlots, failures' \in Nat,
         IsFiniteSet(problems')
  PROVE  Frame'
  <1>1. \A o \in Tasks : TaskOK(o, task'[o])
    BY DEF Frame, Others
  <1>2. ASSUME NEW t \in Turns PROVE TurnOK(t)'
    <2> DEFINE r == <<"request", t>>
               g == <<"generation", t>>
               b == <<"build", t>>
    <2>1. /\ r \in Tasks /\ g \in Tasks /\ b \in Tasks /\ r # g /\ g # b /\ r # b
          /\ Kind(r) = "request" /\ Kind(g) = "generation" /\ Kind(b) = "build"
      BY TasksAre DEF Kind
    <2>2. TurnOK(t) /\ task[a].pc \notin {"none", "ended", "spawned"}
      BY DEF Frame, HasView
    <2>3. CASE a \notin {r, g, b}
      BY <2>1, <2>2, <2>3 DEF TurnOK, Others
    <2>4. CASE a = r
      <3>1. task'[g] = task[g] /\ task'[b] = task[b]
        BY <2>1, <2>4 DEF Others
      <3> HIDE DEF r, g, b
      <3>2. QED
        BY <2>2, <2>4, <3>1 DEF TurnOK, r, g, b
    <2>5. CASE a = g
      <3>1. task'[r] = task[r] /\ task'[b] = task[b]
        BY <2>1, <2>5 DEF Others
      <3>2. QED
        BY <2>2, <2>5, <3>1 DEF TurnOK
    <2>6. CASE a = b
      <3>1. task'[r] = task[r] /\ task'[g] = task[g]
        BY <2>1, <2>6 DEF Others
      <3>2. QED
        BY <2>2, <2>6, <3>1 DEF TurnOK
    <2>7. QED
      BY <2>3, <2>4, <2>5, <2>6
  <1>3. \A o \in Tasks : Active(o)' => Active(o)
    BY DEF Active, At, Others, HasView
  <1>4. ~crossed' => OneTurn'
    BY <1>3 DEF Frame, OneTurn
  <1>5. QED
    BY <1>1, <1>2, <1>4 DEF Frame, Others

\* A task reads the row (or starts): the step notices tasks of other messages.
LEMMA FrameLoads ==
  ASSUME Frame, NEW a \in Tasks, Others(a), TaskOK(a, task'[a]),
         crossed' = (crossed \/ \E o \in Tasks : Turn(o) # Turn(a) /\ Active(o)),
         \A t \in Turns : TurnOK(t)',
         UNCHANGED <<row, slots, problems, failures>>
  PROVE  Frame'
  <1>1. \A o \in Tasks : TaskOK(o, task'[o])
    BY DEF Frame, Others
  <1>2. ASSUME ~crossed' PROVE OneTurn'
    <2>1. \A o \in Tasks : o # a /\ Active(o)' => Turn(o) = Turn(a)
      BY <1>2 DEF Others, Active, At
    <2>2. QED
      BY <2>1 DEF OneTurn
  <1>3. QED
    BY <1>1, <1>2 DEF Frame, Others

\* Reading a field of a record after an update of others.
LEMMA GoIs ==
  ASSUME Frame, NEW a \in Tasks, NEW q, Go(a, q)
  PROVE  /\ Others(a) /\ DOMAIN task'[a] = Fields /\ task'[a].pc = q
         /\ \A c \in Fields \ {"pc"} : task'[a][c] = task[a][c]
         /\ task'[a].view = task[a].view /\ task'[a].dirty = task[a].dirty
         /\ task'[a].stale = task[a].stale /\ task'[a].fresh = task[a].fresh
         /\ task'[a].saved = task[a].saved
  <1>1. DOMAIN task = Tasks /\ DOMAIN task[a] = Fields
    BY DEF Frame, TaskOK
  <1>2. QED
    BY <1>1 DEF Go, Others, Fields

LEMMA FailsIs ==
  ASSUME Frame, NEW a \in Tasks, Fails(a)
  PROVE  /\ Others(a) /\ DOMAIN task'[a] = Fields /\ task'[a].pc = "reply"
         /\ task'[a].view = task[a].view /\ task'[a].dirty = task[a].dirty
         /\ task'[a].stale = task[a].stale /\ task'[a].fresh = task[a].fresh
         /\ task'[a].saved = task[a].saved /\ failures' = failures + 1
  <1>1. DOMAIN task = Tasks /\ DOMAIN task[a] = Fields
    BY DEF Frame, TaskOK
  <1>2. QED
    BY <1>1 DEF Fails, Failure, Others, Fields

LEMMA FlushedIs ==
  ASSUME Frame, NEW a \in Tasks, NEW v, RowOK(v), NEW columns
  PROVE  LET r == Flushed(a, v, columns)
         IN  /\ RowOK(r) /\ r.log \in {row.log, v.log} /\ r.limits \in {row.limits, v.limits}
             /\ r.problem \in {row.problem, v.problem}
             /\ "log" \notin columns => r.log = row.log
             /\ "log" \in columns => r.log = v.log
             /\ "limits" \in columns => r.limits = v.limits
             /\ "limits" \notin columns => r.limits = row.limits
             /\ "problem" \in columns => r.problem = v.problem
             /\ "problem" \notin columns => r.problem = row.problem
  <1>1. task[a].dirty \subseteq {"examples"} /\ RowOK(row)
    BY DEF Frame, TaskOK
  <1>2. QED
    BY <1>1 DEF Flushed, RowOK, Columns

LEMMA CommitIs ==
  ASSUME Frame, NEW a \in Tasks, NEW v, NEW columns, NEW q, q # "ended", Commit(a, v, columns, q)
  PROVE  /\ Others(a) /\ DOMAIN task'[a] = Fields /\ task'[a].pc = q
         /\ task'[a].view = v /\ task'[a].dirty = {}
         /\ task'[a].stale = task[a].stale /\ task'[a].fresh = task[a].fresh
         /\ task'[a].saved = task[a].saved /\ row' = Flushed(a, v, columns)
  <1>1. DOMAIN task = Tasks /\ DOMAIN task[a] = Fields
    BY DEF Frame, TaskOK
  <1>2. QED
    BY <1>1 DEF Commit, Others, Fields

\* A record of the row after one of its columns is assigned.
LEMMA LimitsSet ==
  ASSUME NEW v, RowOK(v), NEW x
  PROVE  LET w == [v EXCEPT !.limits = x]
         IN  RowOK(w) /\ w.log = v.log /\ w.limits = x /\ w.problem = v.problem
  BY DEF RowOK, Columns

LEMMA ProblemSet ==
  ASSUME NEW v, RowOK(v), NEW x
  PROVE  LET w == [v EXCEPT !.problem = x]
         IN  RowOK(w) /\ w.log = v.log /\ w.limits = v.limits /\ w.problem = x
  BY DEF RowOK, Columns

LEMMA ExamplesSet ==
  ASSUME NEW v, RowOK(v), NEW x \in 0..MaxSlots
  PROVE  LET w == [v EXCEPT !.examples = x]
         IN  RowOK(w) /\ w.log = v.log /\ w.limits = v.limits /\ w.problem = v.problem
  BY DEF RowOK, Columns
-----------------------------------------------------------------------------
\* A step of a task that has read the row, part by part.  InputMoves says that
\* the step stores nothing new of the user's.
Moves(a) ==
    LET j == task[a]
        k == task'[a]
    IN  /\ Others(a) /\ TaskOK(a, k) /\ HasView(j)
        /\ k.pc \notin {"none", "persist", "spawned"}
        /\ j.pc = "reply" => k.pc = "ended"
        /\ k.pc = "route" => j.pc = "persist"
        /\ RowOK(row') /\ DOMAIN slots' = 1..MaxSlots
        /\ failures' \in {failures, failures + 1} /\ IsFiniteSet(problems')
        /\ UNCHANGED <<crossed, restarted>>
InputMoves(a) ==
    LET j == task[a]
        k == task'[a]
    IN  /\ kept' = kept /\ row'.log = row.log /\ row'.limits \in {row.limits, j.view.limits}
        /\ HasView(k) => k.view.log = j.view.log /\ k.view.limits = j.view.limits
StatusMoves(a) ==
    \/ status' = status /\ (Shows(a, task'[a].pc) <=> Shows(a, task[a].pc))
    \/ status' = "building" /\ Shows(a, task'[a].pc)
    \/ status' # "building" /\ ~Shows(a, task'[a].pc) /\ task[a].pc # "reply"
ProblemMoves(a) ==
    LET j == task[a]
        k == task'[a]
    IN  \/ failures' = failures + 1
        \/ /\ problems' = problems /\ row'.problem \in {row.problem, j.view.problem}
           /\ HasView(k) => k.view.problem = j.view.problem
        \/ /\ j.pc = "problem" /\ j.view.problem = None
           /\ problems' = problems \cup {Cardinality(problems) + 1}
           /\ row'.problem = Cardinality(problems) + 1 /\ k.view.problem = Cardinality(problems) + 1
SlotsMoves(a) == /\ task'[a].pc = "tail" => \A i \in task'[a].saved : slots'[i] = Turn(a)
                 /\ slots' # slots => task[a].pc \in {"upload", "tail", "samplesOfBuild"}
Quiet(a) == Moves(a) /\ InputMoves(a) /\ StatusMoves(a) /\ ProblemMoves(a) /\ SlotsMoves(a)

LEMMA ShownIsActive ==
  ASSUME NEW o \in Tasks, Shows(o, task[o].pc)
  PROVE  Active(o) /\ task[o].pc # "reply"
  BY DEF Shows, Active, At

LEMMA QuietFrame ==
  ASSUME Frame, NEW a \in Tasks, Moves(a)
  PROVE  Frame'
  <1>1. failures' \in Nat /\ crossed' = crossed
    BY DEF Moves, Frame
  <1>2. QED
    BY <1>1, FrameMoves DEF Moves

LEMMA QuietInput ==
  ASSUME Frame, InputHeld, NEW a \in Tasks, Moves(a), InputMoves(a)
  PROVE  InputHeld'
  <1> SUFFICES ASSUME ~crossed'
               PROVE  /\ Holds(kept', row')
                      /\ \A o \in Tasks : HasView(task'[o]) => Holds(kept', task'[o].view)
    BY DEF InputHeld
  <1>1. /\ Holds(kept, row) /\ \A o \in Tasks : HasView(task[o]) => Holds(kept, task[o].view)
        /\ HasView(task[a])
    BY DEF InputHeld, Moves
  <1>2. Holds(kept', row')
    BY <1>1 DEF Holds, InputMoves
  <1>3. HasView(task'[a]) => Holds(kept', task'[a].view)
    BY <1>1 DEF Holds, InputMoves
  <1>4. \A o \in Tasks \ {a} : HasView(task'[o]) => Holds(kept', task'[o].view)
    BY <1>1 DEF Moves, Others, InputMoves
  <1>5. QED
    BY <1>2, <1>3, <1>4

LEMMA QuietStatus ==
  ASSUME Frame, StatusTrue, NEW a \in Tasks, Moves(a), StatusMoves(a)
  PROVE  StatusTrue'
  <1> SUFFICES ASSUME ~crossed', ~restarted'
               PROVE  status' = "building" <=> \E o \in Tasks : Shows(o, task'[o].pc)
    BY DEF StatusTrue, Shows
  <1>1. /\ status = "building" <=> \E o \in Tasks : Shows(o, task[o].pc)
        /\ ~crossed
    BY DEF StatusTrue, Moves
  <1>2. \A o \in Tasks \ {a} : task'[o] = task[o]
    BY DEF Moves, Others
  <1>3. CASE status' = status /\ (Shows(a, task'[a].pc) <=> Shows(a, task[a].pc))
    BY <1>1, <1>2, <1>3
  <1>4. CASE status' = "building" /\ Shows(a, task'[a].pc)
    BY <1>4
  <1>5. CASE status' # "building" /\ ~Shows(a, task'[a].pc) /\ task[a].pc # "reply"
    <2>1. Active(a) /\ task[a].pc # "reply"
      BY <1>5 DEF Moves, HasView, Active, At
    <2>2. ASSUME NEW o \in Tasks \ {a}, Shows(o, task[o].pc) PROVE FALSE
      <3>1. Active(o) /\ task[o].pc # "reply"
        BY <2>2, ShownIsActive
      <3>2. QED
        BY <1>1, <2>1, <2>2, <3>1, Alone, BesideBuild
    <2>3. QED
      BY <1>2, <1>5, <2>2
  <1>6. QED
    BY <1>3, <1>4, <1>5 DEF StatusMoves

LEMMA QuietProblem ==
  ASSUME Frame, ProblemKnown, NEW a \in Tasks, Moves(a), ProblemMoves(a)
  PROVE  ProblemKnown'
  <1> SUFFICES ASSUME ~crossed', failures' = 0
               PROVE  /\ problems' = IF row'.problem = None THEN {} ELSE {row'.problem}
                      /\ \A o \in Tasks : HasView(task'[o]) => task'[o].view.problem = row'.problem
    BY DEF ProblemKnown
  <1>1. failures' = failures /\ failures = 0 /\ ~crossed
    BY DEF Moves, Frame
  <1>2. /\ problems = IF row.problem = None THEN {} ELSE {row.problem}
        /\ \A o \in Tasks : HasView(task[o]) => task[o].view.problem = row.problem
        /\ HasView(task[a])
    BY <1>1 DEF ProblemKnown, Moves
  <1>3. \A o \in Tasks \ {a} : task'[o] = task[o]
    BY DEF Moves, Others
  <1>4. CASE /\ problems' = problems /\ row'.problem \in {row.problem, task[a].view.problem}
             /\ HasView(task'[a]) => task'[a].view.problem = task[a].view.problem
    BY <1>2, <1>3, <1>4
  <1>5. CASE /\ task[a].pc = "problem" /\ task[a].view.problem = None
             /\ problems' = problems \cup {Cardinality(problems) + 1}
             /\ row'.problem = Cardinality(problems) + 1
             /\ task'[a].view.problem = Cardinality(problems) + 1
    <2>1. problems = {}
      BY <1>2, <1>5
    <2>2. Cardinality(problems) + 1 = 1 /\ 1 # None
      BY <2>1, FS_EmptySet, ChatAssumption
    <2>3. Kind(a) # "build" /\ Active(a)
      BY <1>5, KindOfStep DEF Active, At
    <2>4. \A o \in Tasks \ {a} : ~HasView(task[o])
      BY <1>1, <1>5, <2>3, Alone DEF HasView, Active, At
    <2>5. QED
      BY <1>3, <1>5, <2>1, <2>2, <2>4
  <1>6. QED
    BY <1>1, <1>4, <1>5 DEF ProblemMoves, Frame

LEMMA QuietSlots ==
  ASSUME Frame, SavedAreThere, NEW a \in Tasks, Moves(a), SlotsMoves(a)
  PROVE  SavedAreThere'
  <1> SUFFICES ASSUME ~crossed', NEW o \in Tasks, task'[o].pc = "tail"
               PROVE  \A i \in task'[o].saved : slots'[i] = Turn(o)
    BY DEF SavedAreThere
  <1>1. CASE o = a
    BY <1>1 DEF SlotsMoves
  <1>2. CASE o # a
    <2>1. task'[o] = task[o] /\ ~crossed
      BY <1>2 DEF Moves, Others
    <2>2. Active(o) /\ Kind(o) # "build" /\ task[o].pc = "tail"
      BY <2>1, KindOfStep DEF Active, At
    <2>3. ~Active(a)
      BY <1>2, <2>1, <2>2, Alone
    <2>4. QED
      BY <2>3 DEF Moves, HasView, Active, At
  <1>3. QED
    BY <1>1, <1>2

LEMMA QuietKeeps ==
  ASSUME CInv, NEW a \in Tasks, Quiet(a)
  PROVE  CInv'
  BY QuietFrame, QuietInput, QuietStatus, QuietProblem, QuietSlots DEF CInv, Quiet
-----------------------------------------------------------------------------
\* A step that only moves on (and may change status).
LEMMA PlainQuiet ==
  ASSUME Frame, NEW a \in Tasks, Others(a), DOMAIN task'[a] = Fields,
         task'[a].view = task[a].view, task'[a].dirty = task[a].dirty,
         task'[a].stale = task[a].stale, task'[a].fresh = task[a].fresh,
         task'[a].saved = task[a].saved,
         HasView(task[a]), task[a].pc \notin {"reply", "tail"},
         task'[a].pc \in StepsOf(Kind(a)) \ {"none", "persist", "route", "spawned", "tail"},
         task'[a].pc = "sync" => task[a].view.problem # None,
         UNCHANGED <<row, slots, kept, crossed, restarted>>,
         failures' \in {failures, failures + 1},
         problems' = problems \/ failures' = failures + 1, IsFiniteSet(problems'),
         StatusMoves(a)
  PROVE  Quiet(a)
  <1>1. TaskOK(a, task[a]) /\ RowOK(row) /\ DOMAIN slots = 1..MaxSlots
    BY DEF Frame
  <1>2. TaskOK(a, task'[a])
    BY <1>1 DEF TaskOK, HasView
  <1>3. Moves(a)
    BY <1>1, <1>2 DEF Moves
  <1>4. InputMoves(a) /\ ProblemMoves(a) /\ SlotsMoves(a)
    BY DEF InputMoves, ProblemMoves, SlotsMoves
  <1>5. QED
    BY <1>3, <1>4 DEF Quiet

\* Steps of a request or a generation away from the start of a build.
AtWork == {"progress", "statement", "files", "problem", "push", "sync", "tags", "essence",
           "samples", "upload", "tail", "pack"}
LEMMA Unshown ==
  ASSUME Frame, NEW a \in Tasks, task[a].pc \in AtWork \cup {"route"}
  PROVE  /\ HasView(task[a]) /\ task[a].pc # "reply" /\ Turn(a) \in Turns
         /\ ~Shows(a, task[a].pc) /\ Kind(a) \in {"request", "generation"}
         /\ \A q \in AtWork \cup {"reply", "mark"} : ~Shows(a, q)
         /\ {"reply", "mark", "statement", "files", "problem", "push", "sync", "tags", "samples",
             "upload", "tail"} \subseteq StepsOf(Kind(a))
  <1>1. Kind(a) \in {"request", "generation"} /\ Turn(a) \in Turns
    BY KindOfStep DEF AtWork
  <1>2. QED
    BY <1>1, StepsAre DEF Shows, HasView, AtWork

LEMMA GoQuiet ==
  ASSUME Frame, NEW a \in Tasks, task[a].pc \in (AtWork \ {"tail"}) \cup {"route"}, NEW q, Go(a, q),
         q \in StepsOf(Kind(a)),
         q \in {"reply", "mark", "statement", "files", "problem", "push", "sync", "tags",
                "samples", "essence", "pack"},
         q = "sync" => task[a].view.problem # None,
         UNCHANGED <<row, slots, problems, kept, crossed, restarted, failures>>,
         status' = status \/ status' # "building"
  PROVE  Quiet(a)
  <1>1. ~Shows(a, task[a].pc) /\ ~Shows(a, q) /\ HasView(task[a]) /\ task[a].pc # "reply"
    BY Unshown DEF AtWork
  <1>2. task'[a].pc = q
    BY GoIs
  <1>3. StatusMoves(a)
    BY <1>1, <1>2 DEF StatusMoves
  <1>4. IsFiniteSet(problems')
    BY DEF Frame
  <1>5. QED
    BY <1>1, <1>2, <1>3, <1>4, GoIs, PlainQuiet

LEMMA FailsQuiet ==
  ASSUME Frame, NEW a \in Tasks, task[a].pc \in AtWork \ {"tail"}, Fails(a), IsFiniteSet(problems'),
         UNCHANGED <<row, status, slots, kept, crossed, restarted>>
  PROVE  Quiet(a)
  <1>1. /\ ~Shows(a, task[a].pc) /\ ~Shows(a, "reply") /\ HasView(task[a]) /\ task[a].pc # "reply"
        /\ "reply" \in StepsOf(Kind(a))
    BY Unshown
  <1>2. task'[a].pc = "reply"
    BY FailsIs
  <1>3. StatusMoves(a)
    BY <1>1, <1>2 DEF StatusMoves
  <1>4. QED
    BY <1>1, <1>2, <1>3, FailsIs, PlainQuiet

LEMMA ClassifyQuiet ==
  ASSUME Frame, NEW a \in Tasks, ClassifyAction(a)
  PROVE  Quiet(a) \/ task' = [task EXCEPT ![a] = Ended,
                       ![<<"generation", Turn(a)>>] = [Idle EXCEPT !.pc = "spawned"]]
  <1>1. task[a].pc = "route" /\ UNCHANGED <<row, status, slots, problems, kept, crossed, restarted, failures>>
    BY DEF ClassifyAction, At, Smooth
  <1>2. CASE Go(a, "reply")
    BY <1>1, <1>2, Unshown, GoQuiet
  <1>3. ASSUME NEW q \in {"mark", "statement", "files"}, NEW act,
               task' = [task EXCEPT ![a].pc = q, ![a].action = act]
        PROVE  Quiet(a)
    <2>1. DOMAIN task = Tasks /\ DOMAIN task[a] = Fields
      BY DEF Frame, TaskOK
    <2>2. /\ Others(a) /\ DOMAIN task'[a] = Fields /\ task'[a].pc = q
          /\ task'[a].view = task[a].view /\ task'[a].dirty = task[a].dirty
          /\ task'[a].stale = task[a].stale /\ task'[a].fresh = task[a].fresh
          /\ task'[a].saved = task[a].saved
      BY <1>3, <2>1 DEF Others, Fields
    <2>3. /\ ~Shows(a, task[a].pc) /\ ~Shows(a, q) /\ HasView(task[a]) /\ task[a].pc # "reply"
          /\ q \in StepsOf(Kind(a)) \ {"none", "persist", "route", "spawned", "tail", "sync"}
      BY <1>1, Unshown DEF AtWork
    <2>4. StatusMoves(a)
      BY <1>1, <2>2, <2>3 DEF StatusMoves
    <2>5. IsFiniteSet(problems')
      BY <1>1 DEF Frame
    <2>6. QED
      BY <1>1, <2>2, <2>3, <2>4, <2>5, PlainQuiet
  <1>4. QED
    BY <1>2, <1>3 DEF ClassifyAction

LEMMA GenProgressQuiet ==
  ASSUME Frame, NEW a \in Tasks, GenProgress(a)
  PROVE  Quiet(a)
  <1>1. task[a].pc = "progress" /\ status' = "generating" /\ Go(a, "statement")
        /\ UNCHANGED <<row, slots, problems, failures, kept, crossed, restarted>>
    BY DEF GenProgress, At
  <1>2. QED
    BY <1>1, Unshown, GoQuiet DEF AtWork

LEMMA SyncsQuiet ==
  ASSUME Frame, NEW a \in Tasks,
         SyncStatement(a) \/ ModifyFiles(a) \/ PushFiles(a)
  PROVE  Quiet(a)
  <1>1. task[a].pc \in {"sync", "files", "push"}
        /\ UNCHANGED <<row, status, slots, kept, crossed, restarted, problems>>
    BY DEF SyncStatement, ModifyFiles, PushFiles, At
  <1>2. \/ \E q \in {"tags", "problem", "reply"} : Go(a, q) /\ failures' = failures
        \/ Fails(a)
    BY DEF SyncStatement, ModifyFiles, PushFiles, Smooth
  <1>3. IsFiniteSet(problems')
    BY <1>1 DEF Frame
  <1>4. QED
    BY <1>1, <1>2, <1>3, Unshown, GoQuiet, FailsQuiet DEF AtWork

LEMMA NewStatementQuiet ==
  ASSUME Frame, NEW a \in Tasks, NewStatement(a)
  PROVE  Quiet(a)
  <1> DEFINE v == [task[a].view EXCEPT !.examples = 0]
  <1>1. task[a].pc = "statement" /\ UNCHANGED <<status, slots, problems, kept, crossed, restarted>>
    BY DEF NewStatement, At
  <1>2. TaskOK(a, task[a]) /\ RowOK(row) /\ DOMAIN slots = 1..MaxSlots /\ DOMAIN task = Tasks
        /\ IsFiniteSet(problems)
    BY DEF Frame
  <1>3. /\ ~Shows(a, task[a].pc) /\ ~Shows(a, "problem") /\ HasView(task[a]) /\ task[a].pc # "reply"
        /\ "problem" \in StepsOf(Kind(a))
    BY <1>1, Unshown DEF AtWork
  <1>4. CASE Fails(a) /\ row' = row
    BY <1>1, <1>2, <1>4, FailsQuiet DEF AtWork
  <1>5. CASE row' = row /\ Go(a, "problem") /\ failures' = failures
    BY <1>1, <1>3, <1>5, GoQuiet DEF AtWork
  <1>6. CASE /\ row' = Flushed(a, v, {"examples"}) /\ failures' = failures
             /\ task' = [task EXCEPT ![a] = [@ EXCEPT !.view.examples = 0,
                                !.stale = task[a].view.examples, !.pc = "problem"]]
    <2>1. RowOK(task[a].view)
      BY <1>2, <1>3 DEF TaskOK
    <2>2. RowOK(v) /\ v.log = task[a].view.log /\ v.limits = task[a].view.limits
          /\ v.problem = task[a].view.problem
      BY <2>1, ExamplesSet, Bounds
    <2>3. /\ Others(a) /\ DOMAIN task'[a] = Fields /\ task'[a].pc = "problem" /\ task'[a].view = v
          /\ task'[a].dirty = task[a].dirty /\ task'[a].stale = task[a].view.examples
          /\ task'[a].fresh = task[a].fresh /\ task'[a].saved = task[a].saved
      BY <1>2, <1>6 DEF TaskOK, Others, Fields
    <2> HIDE DEF v
    <2>4. RowOK(row') /\ row'.log = row.log /\ row'.limits = row.limits /\ row'.problem = row.problem
      BY <1>6, <2>2, FlushedIs
    <2>5. TaskOK(a, task'[a])
      BY <1>1, <1>2, <1>3, <2>1, <2>2, <2>3 DEF TaskOK, RowOK
    <2>6. Moves(a)
      BY <1>1, <1>2, <1>3, <1>6, <2>3, <2>4, <2>5 DEF Moves
    <2>7. InputMoves(a) /\ StatusMoves(a) /\ ProblemMoves(a) /\ SlotsMoves(a)
      BY <1>1, <1>3, <2>2, <2>3, <2>4 DEF InputMoves, StatusMoves, ProblemMoves, SlotsMoves
    <2>8. QED
      BY <2>6, <2>7 DEF Quiet
  <1>7. QED
    BY <1>4, <1>5, <1>6 DEF NewStatement, Smooth

LEMMA EnsureProblemQuiet ==
  ASSUME Frame, NEW a \in Tasks, EnsureProblem(a)
  PROVE  Quiet(a)
  <1> DEFINE n == Cardinality(problems) + 1
             q == AfterProblem(a)
             v == [task[a].view EXCEPT !.problem = n]
  <1>1. task[a].pc = "problem" /\ UNCHANGED <<status, slots, kept, crossed, restarted>>
    BY DEF EnsureProblem, At
  <1>2. TaskOK(a, task[a]) /\ RowOK(row) /\ DOMAIN slots = 1..MaxSlots /\ DOMAIN task = Tasks
        /\ IsFiniteSet(problems)
    BY DEF Frame
  <1>3. /\ ~Shows(a, task[a].pc) /\ ~Shows(a, q) /\ HasView(task[a]) /\ task[a].pc # "reply"
        /\ q \in StepsOf(Kind(a)) /\ q \in {"push", "sync"}
    BY <1>1, Unshown DEF AtWork, AfterProblem
  <1> HIDE DEF q
  <1>4. CASE /\ task[a].view.problem # None /\ Go(a, q) /\ failures' = failures
             /\ UNCHANGED <<row, problems>>
    BY <1>1, <1>3, <1>4, GoQuiet DEF AtWork
  <1>5. CASE Fails(a) /\ row' = row /\ problems' \in {problems, problems \cup {n}}
    <2>1. IsFiniteSet(problems')
      BY <1>2, <1>5, FS_AddElement
    <2>2. QED
      BY <1>1, <1>5, <2>1, FailsQuiet DEF AtWork
  <1>6. CASE /\ task[a].view.problem = None /\ problems' = problems \cup {n} /\ failures' = failures
             /\ Commit(a, v, {"problem"}, q)
    <2>1. RowOK(task[a].view)
      BY <1>2, <1>3 DEF TaskOK
    <2>2. RowOK(v) /\ v.log = task[a].view.log /\ v.limits = task[a].view.limits /\ v.problem = n
      BY <2>1, ProblemSet
    <2>3. /\ Others(a) /\ DOMAIN task'[a] = Fields /\ task'[a].pc = q /\ task'[a].view = v
          /\ task'[a].dirty = {} /\ task'[a].stale = task[a].stale
          /\ task'[a].fresh = task[a].fresh /\ task'[a].saved = task[a].saved
          /\ row' = Flushed(a, v, {"problem"})
      <3> HIDE DEF v
      <3> QED
        BY <1>3, <1>6, CommitIs
    <2> HIDE DEF v
    <2>4. RowOK(row') /\ row'.log = row.log /\ row'.limits = row.limits /\ row'.problem = n
      BY <2>2, <2>3, FlushedIs
    <2>5. n # None
      <3>1. Cardinality(problems) \in Nat
        BY <1>2, FS_CardinalityType
      <3>2. QED
        BY <3>1, ChatAssumption
    <2>6. TaskOK(a, task'[a])
      BY <1>1, <1>2, <1>3, <2>2, <2>3, <2>5 DEF TaskOK
    <2>7. Moves(a)
      <3>1. IsFiniteSet(problems')
        BY <1>2, <1>6, FS_AddElement
      <3>2. QED
        BY <1>1, <1>2, <1>3, <1>6, <2>3, <2>4, <2>6, <3>1 DEF Moves
    <2>8. InputMoves(a) /\ StatusMoves(a) /\ SlotsMoves(a)
      BY <1>1, <1>3, <2>2, <2>3, <2>4 DEF InputMoves, StatusMoves, SlotsMoves
    <2>9. ProblemMoves(a)
      BY <1>1, <1>6, <2>2, <2>3, <2>4 DEF ProblemMoves
    <2>10. QED
      BY <2>7, <2>8, <2>9 DEF Quiet
  <1>7. QED
    BY <1>4, <1>5, <1>6 DEF EnsureProblem, Smooth, q
-----------------------------------------------------------------------------
\* What holds before a step of a task at work.
LEMMA AtWorkIs ==
  ASSUME Frame, NEW a \in Tasks, task[a].pc \in AtWork
  PROVE  /\ TaskOK(a, task[a]) /\ RowOK(row) /\ DOMAIN slots = 1..MaxSlots /\ DOMAIN task = Tasks
         /\ IsFiniteSet(problems) /\ RowOK(task[a].view) /\ DOMAIN task[a] = Fields
         /\ task[a].stale \in 0..MaxSlots /\ task[a].fresh \in 0..MaxSamples
         /\ ~Shows(a, task[a].pc) /\ HasView(task[a]) /\ task[a].pc # "reply"
         /\ Kind(a) \in {"request", "generation"} /\ "reply" \in StepsOf(Kind(a))
  BY Unshown DEF Frame, TaskOK

LEMMA RegenerateTagsQuiet ==
  ASSUME Frame, NEW a \in Tasks, RegenerateTags(a)
  PROVE  Quiet(a)
  <1> DEFINE q == IF Kind(a) = "generation" THEN "samples" ELSE "essence"
             v == task[a].view
  <1>1. task[a].pc = "tags"
        /\ UNCHANGED <<status, slots, problems, kept, crossed, restarted, failures>>
    BY DEF RegenerateTags, At, Smooth
  <1>2. /\ TaskOK(a, task[a]) /\ RowOK(row) /\ DOMAIN slots = 1..MaxSlots /\ IsFiniteSet(problems)
        /\ RowOK(v) /\ ~Shows(a, task[a].pc) /\ HasView(task[a]) /\ task[a].pc # "reply"
        /\ Kind(a) \in {"request", "generation"}
    BY <1>1, AtWorkIs DEF AtWork
  <1>3. q \in StepsOf(Kind(a)) /\ q \in {"samples", "essence"} /\ ~Shows(a, q)
    BY <1>1, <1>2, StepsAre, Unshown DEF AtWork
  <1> HIDE DEF q
  <1>4. CASE Go(a, q) /\ row' = row
    BY <1>1, <1>3, <1>4, GoQuiet DEF AtWork
  <1>5. CASE Commit(a, v, {"limits"}, q)
    <2> HIDE DEF v
    <2>1. /\ Others(a) /\ DOMAIN task'[a] = Fields /\ task'[a].pc = q /\ task'[a].view = v
          /\ task'[a].dirty = {} /\ task'[a].stale = task[a].stale
          /\ task'[a].fresh = task[a].fresh /\ task'[a].saved = task[a].saved
          /\ row' = Flushed(a, v, {"limits"})
      BY <1>3, <1>5, CommitIs
    <2>2. RowOK(row') /\ row'.log = row.log /\ row'.limits = v.limits /\ row'.problem = row.problem
      BY <1>2, <2>1, FlushedIs
    <2>3. TaskOK(a, task'[a])
      BY <1>1, <1>2, <1>3, <2>1 DEF TaskOK
    <2>4. Moves(a)
      BY <1>1, <1>2, <1>3, <2>1, <2>2, <2>3 DEF Moves
    <2>5. InputMoves(a) /\ StatusMoves(a) /\ ProblemMoves(a) /\ SlotsMoves(a)
      BY <1>1, <1>2, <1>3, <2>1, <2>2 DEF v, InputMoves, StatusMoves, ProblemMoves, SlotsMoves
    <2>6. QED
      BY <2>4, <2>5 DEF Quiet
  <1>6. QED
    BY <1>4, <1>5 DEF RegenerateTags, q

LEMMA EssenceCheckQuiet ==
  ASSUME Frame, NEW a \in Tasks, EssenceCheck(a)
  PROVE  Quiet(a)
  <1> DEFINE v == [task[a].view EXCEPT !.examples = 0]
  <1>1. task[a].pc = "essence"
        /\ UNCHANGED <<row, status, slots, problems, kept, crossed, restarted, failures>>
    BY DEF EssenceCheck, At, Smooth
  <1>2. /\ TaskOK(a, task[a]) /\ RowOK(row) /\ DOMAIN slots = 1..MaxSlots /\ IsFiniteSet(problems)
        /\ RowOK(task[a].view) /\ DOMAIN task[a] = Fields /\ DOMAIN task = Tasks
        /\ ~Shows(a, task[a].pc) /\ HasView(task[a]) /\ task[a].pc # "reply"
        /\ "reply" \in StepsOf(Kind(a))
    BY <1>1, AtWorkIs DEF AtWork
  <1>3. CASE Go(a, "reply")
    BY <1>1, <1>2, <1>3, GoQuiet DEF AtWork
  <1>4. CASE task' = [task EXCEPT ![a] = [@ EXCEPT !.view.examples = 0, !.dirty = {"examples"},
                        !.stale = task[a].view.examples, !.pc = "samples"]]
    <2>1. RowOK(v) /\ v.log = task[a].view.log /\ v.limits = task[a].view.limits
          /\ v.problem = task[a].view.problem
      BY <1>2, ExamplesSet, Bounds
    <2>2. /\ Others(a) /\ DOMAIN task'[a] = Fields /\ task'[a].pc = "samples" /\ task'[a].view = v
          /\ task'[a].dirty = {"examples"} /\ task'[a].stale = task[a].view.examples
          /\ task'[a].fresh = task[a].fresh /\ task'[a].saved = task[a].saved
      BY <1>2, <1>4 DEF Others, Fields
    <2> HIDE DEF v
    <2>3. TaskOK(a, task'[a]) /\ ~Shows(a, "samples")
      BY <1>1, <1>2, <2>1, <2>2, Unshown DEF TaskOK, RowOK, AtWork
    <2>4. Moves(a)
      BY <1>1, <1>2, <2>2, <2>3 DEF Moves
    <2>5. InputMoves(a) /\ StatusMoves(a) /\ ProblemMoves(a) /\ SlotsMoves(a)
      BY <1>1, <1>2, <2>1, <2>2, <2>3 DEF InputMoves, StatusMoves, ProblemMoves, SlotsMoves
    <2>6. QED
      BY <2>4, <2>5 DEF Quiet
  <1>5. QED
    BY <1>3, <1>4 DEF EssenceCheck

LEMMA PrepareSamplesQuiet ==
  ASSUME Frame, NEW a \in Tasks, PrepareSamples(a)
  PROVE  Quiet(a)
  <1>1. task[a].pc = "samples" /\ UNCHANGED <<status, slots, problems, kept, crossed, restarted>>
    BY DEF PrepareSamples, At
  <1>2. /\ TaskOK(a, task[a]) /\ RowOK(row) /\ DOMAIN slots = 1..MaxSlots /\ IsFiniteSet(problems)
        /\ RowOK(task[a].view) /\ DOMAIN task[a] = Fields /\ DOMAIN task = Tasks
        /\ ~Shows(a, task[a].pc) /\ HasView(task[a]) /\ task[a].pc # "reply"
        /\ Kind(a) \in {"request", "generation"}
    BY <1>1, AtWorkIs DEF AtWork
  <1>3. ASSUME NEW n \in 1..MaxSamples, failures' = failures,
               row' = Flushed(a, [task[a].view EXCEPT !.examples = n], {"examples"}),
               task' = [task EXCEPT ![a] = [@ EXCEPT !.view.examples = n, !.dirty = {},
                                                     !.fresh = n, !.pc = "upload"]]
        PROVE  Quiet(a)
    <2> DEFINE v == [task[a].view EXCEPT !.examples = n]
    <2>1. RowOK(v) /\ v.log = task[a].view.log /\ v.limits = task[a].view.limits
          /\ v.problem = task[a].view.problem
      BY <1>2, <1>3, ExamplesSet, Bounds
    <2>2. /\ Others(a) /\ DOMAIN task'[a] = Fields /\ task'[a].pc = "upload" /\ task'[a].view = v
          /\ task'[a].dirty = {} /\ task'[a].stale = task[a].stale
          /\ task'[a].fresh = n /\ task'[a].saved = task[a].saved
      BY <1>2, <1>3 DEF Others, Fields
    <2>3. row' = Flushed(a, v, {"examples"})
      BY <1>3
    <2> HIDE DEF v
    <2>4. RowOK(row') /\ row'.log = row.log /\ row'.limits = row.limits /\ row'.problem = row.problem
      BY <2>1, <2>3, FlushedIs
    <2>5. TaskOK(a, task'[a]) /\ ~Shows(a, "upload")
      BY <1>1, <1>2, <1>3, <2>1, <2>2, Unshown, Bounds DEF TaskOK, AtWork
    <2>6. Moves(a)
      BY <1>1, <1>2, <1>3, <2>2, <2>4, <2>5 DEF Moves
    <2>7. InputMoves(a) /\ StatusMoves(a) /\ ProblemMoves(a) /\ SlotsMoves(a)
      BY <1>1, <1>2, <2>1, <2>2, <2>4, <2>5
         DEF InputMoves, StatusMoves, ProblemMoves, SlotsMoves
    <2>8. QED
      BY <2>6, <2>7 DEF Quiet
  <1>4. CASE /\ failures' = failures + 1 /\ row' = row
             /\ task' = [task EXCEPT ![a] = [@ EXCEPT !.pc = AfterSamples(a),
                          !.told = StaleSamplesNote(task[a].stale, 0)]]
    <2>1. /\ Others(a) /\ DOMAIN task'[a] = Fields /\ task'[a].pc = AfterSamples(a)
          /\ task'[a].view = task[a].view /\ task'[a].dirty = task[a].dirty
          /\ task'[a].stale = task[a].stale /\ task'[a].fresh = task[a].fresh
          /\ task'[a].saved = task[a].saved
      BY <1>2, <1>4 DEF Others, Fields
    <2>2. /\ AfterSamples(a) \in StepsOf(Kind(a)) /\ AfterSamples(a) \in {"pack", "reply"}
          /\ ~Shows(a, AfterSamples(a))
      BY <1>1, <1>2, StepsAre, Unshown DEF AfterSamples, AtWork
    <2>3. StatusMoves(a)
      BY <1>1, <1>2, <2>1, <2>2 DEF StatusMoves
    <2>4. QED
      BY <1>1, <1>2, <1>4, <2>1, <2>2, <2>3, PlainQuiet
  <1>5. QED
    BY <1>3, <1>4 DEF PrepareSamples, Smooth, Failure

LEMMA UploadExamplesQuiet ==
  ASSUME Frame, NEW a \in Tasks, UploadExamples(a)
  PROVE  Quiet(a)
  <1>1. /\ task[a].pc = "upload" /\ UNCHANGED <<row, status, problems, kept, crossed, restarted>>
        /\ failures' \in {failures, failures + 1}
    BY DEF UploadExamples, At, Smooth, Failure
  <1>2. /\ TaskOK(a, task[a]) /\ RowOK(row) /\ DOMAIN slots = 1..MaxSlots /\ IsFiniteSet(problems)
        /\ RowOK(task[a].view) /\ DOMAIN task[a] = Fields /\ DOMAIN task = Tasks
        /\ ~Shows(a, task[a].pc) /\ HasView(task[a]) /\ task[a].pc # "reply"
        /\ task[a].fresh \in 0..MaxSamples
    BY <1>1, AtWorkIs DEF AtWork
  <1>3. PICK saved \in SUBSET (1..task[a].fresh) :
          /\ slots' = [i \in DOMAIN slots |-> IF i \in saved THEN Turn(a) ELSE slots[i]]
          /\ task' = [task EXCEPT ![a] = [@ EXCEPT !.saved = saved, !.pc = "tail"]]
    BY DEF UploadExamples
  <1>4. /\ Others(a) /\ DOMAIN task'[a] = Fields /\ task'[a].pc = "tail"
        /\ task'[a].view = task[a].view /\ task'[a].dirty = task[a].dirty
        /\ task'[a].stale = task[a].stale /\ task'[a].fresh = task[a].fresh
        /\ task'[a].saved = saved
    BY <1>2, <1>3 DEF Others, Fields
  <1>5. /\ DOMAIN slots' = 1..MaxSlots /\ \A i \in saved : slots'[i] = Turn(a)
    BY <1>2, <1>3, Bounds
  <1>6. TaskOK(a, task'[a]) /\ ~Shows(a, "tail")
    BY <1>1, <1>2, <1>4, Unshown DEF TaskOK, HasView, AtWork
  <1>7. Moves(a)
    BY <1>1, <1>2, <1>4, <1>5, <1>6 DEF Moves
  <1>8. InputMoves(a) /\ StatusMoves(a) /\ ProblemMoves(a) /\ SlotsMoves(a)
    BY <1>1, <1>2, <1>4, <1>5, <1>6 DEF InputMoves, StatusMoves, ProblemMoves, SlotsMoves
  <1>9. QED
    BY <1>7, <1>8 DEF Quiet

LEMMA DeleteStaleExamplesQuiet ==
  ASSUME Frame, NEW a \in Tasks, DeleteStaleExamples(a)
  PROVE  Quiet(a)
  <1>1. /\ task[a].pc = "tail" /\ UNCHANGED <<row, status, problems, kept, crossed, restarted>>
        /\ failures' \in {failures, failures + 1}
        /\ DOMAIN slots' = DOMAIN slots
    BY DEF DeleteStaleExamples, At, Smooth, Failure
  <1>2. /\ TaskOK(a, task[a]) /\ RowOK(row) /\ DOMAIN slots = 1..MaxSlots /\ IsFiniteSet(problems)
        /\ RowOK(task[a].view) /\ DOMAIN task[a] = Fields /\ DOMAIN task = Tasks
        /\ ~Shows(a, task[a].pc) /\ HasView(task[a]) /\ task[a].pc # "reply"
        /\ Kind(a) \in {"request", "generation"}
    BY <1>1, AtWorkIs DEF AtWork
  <1>3. PICK told : task' = [task EXCEPT ![a] = [@ EXCEPT !.pc = AfterSamples(a),
                                !.told = told, !.stale = 0, !.fresh = 0, !.saved = {}]]
    BY DEF DeleteStaleExamples
  <1>4. /\ Others(a) /\ DOMAIN task'[a] = Fields /\ task'[a].pc = AfterSamples(a)
        /\ task'[a].view = task[a].view /\ task'[a].dirty = task[a].dirty
        /\ task'[a].stale = 0 /\ task'[a].fresh = 0 /\ task'[a].saved = {}
    BY <1>2, <1>3 DEF Others, Fields
  <1>5. /\ AfterSamples(a) \in StepsOf(Kind(a)) /\ AfterSamples(a) \in {"pack", "reply"}
        /\ ~Shows(a, AfterSamples(a))
    BY <1>1, <1>2, StepsAre, Unshown DEF AfterSamples, AtWork
  <1>6. TaskOK(a, task'[a])
    BY <1>2, <1>4, <1>5, Bounds DEF TaskOK, HasView
  <1>7. Moves(a)
    BY <1>1, <1>2, <1>4, <1>5, <1>6 DEF Moves
  <1>8. InputMoves(a) /\ StatusMoves(a) /\ ProblemMoves(a) /\ SlotsMoves(a)
    BY <1>1, <1>2, <1>4, <1>5, <1>6 DEF InputMoves, StatusMoves, ProblemMoves, SlotsMoves
  <1>9. QED
    BY <1>7, <1>8 DEF Quiet

LEMMA GeneratePackQuiet ==
  ASSUME Frame, NEW a \in Tasks, GeneratePack(a)
  PROVE  Quiet(a)
  <1>1. task[a].pc = "pack" /\ UNCHANGED <<row, status, slots, problems, kept, crossed, restarted>>
    BY DEF GeneratePack, At
  <1>2. /\ DOMAIN task[a] = Fields /\ DOMAIN task = Tasks /\ IsFiniteSet(problems)
        /\ ~Shows(a, task[a].pc) /\ HasView(task[a]) /\ task[a].pc # "reply"
        /\ {"reply", "mark"} \subseteq StepsOf(Kind(a)) /\ ~Shows(a, "reply")
    BY <1>1, AtWorkIs, Unshown DEF AtWork
  <1>3. ASSUME NEW q \in {"mark", "reply"}, Go(a, q), failures' = failures
        PROVE  Quiet(a)
    BY <1>1, <1>2, <1>3, GoQuiet DEF AtWork
  <1>4. CASE Fails(a)
    BY <1>1, <1>2, <1>4, FailsQuiet DEF AtWork
  <1>5. CASE task' = [task EXCEPT ![a].pc = "reply", ![a].told = {}] /\ failures' = failures
    <2>1. /\ Others(a) /\ DOMAIN task'[a] = Fields /\ task'[a].pc = "reply"
          /\ task'[a].view = task[a].view /\ task'[a].dirty = task[a].dirty
          /\ task'[a].stale = task[a].stale /\ task'[a].fresh = task[a].fresh
          /\ task'[a].saved = task[a].saved
      BY <1>2, <1>5 DEF Others, Fields
    <2>2. StatusMoves(a)
      BY <1>1, <1>2, <2>1 DEF StatusMoves
    <2>3. QED
      BY <1>1, <1>2, <1>5, <2>1, <2>2, PlainQuiet
  <1>6. QED
    BY <1>3, <1>4, <1>5 DEF GeneratePack, Smooth

LEMMA MarkBuildStartedQuiet ==
  ASSUME Frame, NEW a \in Tasks, MarkBuildStarted(a)
  PROVE  Quiet(a)
  <1>1. /\ task[a].pc = "mark" /\ status' = "building" /\ Go(a, "spawn")
        /\ UNCHANGED <<row, slots, problems, failures, kept, crossed, restarted>>
    BY DEF MarkBuildStarted, At
  <1>2. "spawn" \in StepsOf(Kind(a)) /\ HasView(task[a]) /\ IsFiniteSet(problems)
    BY <1>1, KindOfStep, StepsAre DEF HasView, Frame
  <1>3. StatusMoves(a)
    BY <1>1, GoIs DEF StatusMoves, Shows
  <1>4. QED
    BY <1>1, <1>2, <1>3, GoIs, PlainQuiet

LEMMA BuildStepsQuiet ==
  ASSUME Frame, NEW a \in Tasks, BuildUploads(a) \/ BuildVerdict(a)
  PROVE  Quiet(a)
  <1>1. /\ task[a].pc \in {"samplesOfBuild", "verdict"}
        /\ \E q \in {"verdict", "message"} :
              /\ Go(a, q)
              /\ \/ task[a].pc = "samplesOfBuild" /\ q = "verdict" /\ status' = status
                 \/ task[a].pc = "verdict" /\ q = "message" /\ status' = "settled" /\ slots' = slots
        /\ DOMAIN slots' = DOMAIN slots
        /\ UNCHANGED <<row, problems, failures, kept, crossed, restarted>>
    BY DEF BuildUploads, BuildVerdict, At
  <1>2. /\ TaskOK(a, task[a]) /\ RowOK(row) /\ DOMAIN slots = 1..MaxSlots /\ IsFiniteSet(problems)
        /\ HasView(task[a]) /\ Kind(a) = "build"
    BY <1>1, KindOfStep DEF Frame, HasView
  <1>3. PICK q \in {"verdict", "message"} :
              /\ Go(a, q)
              /\ \/ task[a].pc = "samplesOfBuild" /\ q = "verdict" /\ status' = status
                 \/ task[a].pc = "verdict" /\ q = "message" /\ status' = "settled" /\ slots' = slots
    BY <1>1
  <1>4. /\ Others(a) /\ DOMAIN task'[a] = Fields /\ task'[a].pc = q
        /\ task'[a].view = task[a].view /\ task'[a].dirty = task[a].dirty
        /\ task'[a].stale = task[a].stale /\ task'[a].fresh = task[a].fresh
        /\ task'[a].saved = task[a].saved
    BY <1>3, GoIs
  <1>5. TaskOK(a, task'[a])
    BY <1>2, <1>4, StepsAre DEF TaskOK, HasView
  <1>6. Moves(a)
    BY <1>1, <1>2, <1>4, <1>5 DEF Moves
  <1>7. StatusMoves(a)
    BY <1>2, <1>3, <1>4 DEF StatusMoves, Shows
  <1>8. InputMoves(a) /\ ProblemMoves(a) /\ SlotsMoves(a)
    BY <1>1, <1>3, <1>4 DEF InputMoves, ProblemMoves, SlotsMoves
  <1>9. QED
    BY <1>6, <1>7, <1>8 DEF Quiet
-----------------------------------------------------------------------------
\* The steps that store what the user wrote or set, or an answer.
LEMMA AppendLogKeeps ==
  ASSUME CInv, NEW a \in Tasks, NEW role, NEW q, AppendLog(a, role, q),
         \/ role = "user" /\ q = "route" /\ task[a].pc = "persist" /\ Kind(a) = "request"
         \/ role = "assistant" /\ q = "ended" /\ task[a].pc = "reply"
         \/ role = "system" /\ q = "ended" /\ task[a].pc = "message",
         UNCHANGED <<status, slots, problems, failures, crossed, restarted>>
  PROVE  CInv'
  <1> DEFINE new == Entry(Turn(a), role)
             log == task[a].view.log \cup {new}
             v == [task[a].view EXCEPT !.log = log]
  <1>1. /\ Frame /\ TaskOK(a, task[a]) /\ HasView(task[a]) /\ DOMAIN task = Tasks
        /\ DOMAIN task[a] = Fields /\ RowOK(task[a].view) /\ IsFiniteSet(problems)
        /\ DOMAIN slots = 1..MaxSlots /\ failures \in Nat
    BY DEF CInv, Frame, TaskOK, HasView
  <1>2. RowOK(v) /\ v.log = log /\ v.limits = task[a].view.limits
        /\ v.problem = task[a].view.problem
    <2>1. RowOK(task[a].view)
      BY <1>1
    <2> HIDE DEF log
    <2>2. QED
      BY <2>1 DEF RowOK, Columns
  <1>3. kept' = kept \cup {new} /\ Commit(a, v, {"log"}, q)
    BY DEF AppendLog
  <1> HIDE DEF v
  <1>4. /\ Others(a) /\ task'[a].pc = q /\ row' = Flushed(a, v, {"log"})
        /\ q = "ended" => task'[a] = Ended
        /\ q # "ended" => /\ DOMAIN task'[a] = Fields /\ task'[a].view = v /\ task'[a].dirty = {}
                          /\ task'[a].stale = task[a].stale /\ task'[a].fresh = task[a].fresh
                          /\ task'[a].saved = task[a].saved
    <2>1. CASE q = "ended"
      BY <1>1, <1>3, <2>1, IdleIs DEF Commit, Others
    <2>2. CASE q # "ended"
      BY <1>1, <1>3, <2>2, CommitIs
    <2>3. QED
      BY <2>1, <2>2
  <1>5. /\ RowOK(row') /\ row'.log = log /\ row'.limits = row.limits
        /\ row'.problem = row.problem
    BY <1>1, <1>2, <1>4, FlushedIs
  <1>6. TaskOK(a, task'[a])
    <2>1. CASE q = "ended"
      BY <1>4, <2>1, IdleIs, KindsAre, Bounds DEF TaskOK, HasView
    <2>2. CASE q = "route"
      BY <1>1, <1>2, <1>4, <2>2, StepsAre DEF TaskOK
    <2>3. QED
      BY <2>1, <2>2
  <1>7. Moves(a)
    BY <1>1, <1>4, <1>5, <1>6 DEF Moves
  <1>8. ~Shows(a, task[a].pc) /\ ~Shows(a, task'[a].pc)
    BY <1>4 DEF Shows
  <1>9. StatusMoves(a) /\ SlotsMoves(a)
    BY <1>4, <1>8 DEF StatusMoves, SlotsMoves
  <1>10. HasView(task'[a]) => task'[a].view = v
    BY <1>4 DEF HasView
  <1>11. ProblemMoves(a)
    BY <1>2, <1>5, <1>10 DEF ProblemMoves
  <1>12. Frame' /\ StatusTrue' /\ ProblemKnown' /\ SavedAreThere'
    BY <1>1, <1>7, <1>9, <1>11, QuietFrame, QuietStatus, QuietProblem, QuietSlots DEF CInv
  <1>13. InputHeld'
    <2> SUFFICES ASSUME ~crossed'
                 PROVE  /\ Holds(kept', row')
                        /\ \A o \in Tasks : HasView(task'[o]) => Holds(kept', task'[o].view)
      BY DEF InputHeld
    <2>1. /\ Holds(kept, row) /\ ~crossed
          /\ \A o \in Tasks : HasView(task[o]) => Holds(kept, task[o].view)
      BY DEF CInv, InputHeld
    <2>2. \A e \in Editors : Entry(e, "limits") # new
      BY DEF Entry
    <2>3. Holds(kept', row')
      BY <1>1, <1>3, <1>5, <2>1, <2>2 DEF Holds
    <2>4. HasView(task'[a]) => Holds(kept', task'[a].view)
      BY <1>1, <1>2, <1>3, <1>10, <2>1, <2>2 DEF Holds
    <2>5. ASSUME NEW o \in Tasks \ {a}, HasView(task'[o]) PROVE Holds(kept', task'[o].view)
      <3>1. task'[o] = task[o] /\ HasView(task[o])
        BY <1>4, <2>5 DEF Others
      <3>2. CASE role = "user"
        <4>1. Active(a) /\ task[a].pc # "reply" /\ Kind(a) # "build"
          BY <3>2 DEF Active, At
        <4>2. ~Active(o)
          BY <1>1, <2>1, <4>1, Alone
        <4>3. QED
          BY <3>1, <4>2 DEF HasView, Active, At
      <3>3. CASE role # "user"
        <4>1. \A t \in Turns : Entry(t, "user") # new
          BY <3>3 DEF Entry
        <4>2. QED
          BY <1>3, <2>1, <2>2, <3>1, <4>1 DEF Holds
      <3>4. QED
        BY <3>2, <3>3
    <2>6. QED
      BY <2>3, <2>4, <2>5
  <1>14. QED
    BY <1>12, <1>13 DEF CInv

LEMMA UpdateProblemSettingsKeeps ==
  ASSUME CInv, NEW e \in Editors, UpdateProblemSettings(e)
  PROVE  CInv'
  <1> DEFINE a == <<"settings", e>>
             v == [task[a].view EXCEPT !.limits = e]
  <1>1. /\ a \in Tasks /\ task[a].pc = "merge" /\ Kind(a) = "settings"
        /\ Commit(a, v, {"limits"}, "ended") /\ kept' = kept \cup {Entry(e, "limits")}
        /\ UNCHANGED <<status, slots, problems, failures, crossed, restarted>>
    BY TasksAre DEF UpdateProblemSettings, At, Kind
  <1> HIDE DEF a
  <1>2. /\ Frame /\ TaskOK(a, task[a]) /\ HasView(task[a]) /\ DOMAIN task = Tasks
        /\ RowOK(task[a].view) /\ IsFiniteSet(problems)
        /\ DOMAIN slots = 1..MaxSlots /\ failures \in Nat
    BY <1>1 DEF CInv, Frame, TaskOK, HasView
  <1>3. RowOK(v) /\ v.log = task[a].view.log /\ v.limits = e /\ v.problem = task[a].view.problem
    <2>1. RowOK(task[a].view)
      BY <1>2
    <2>2. QED
      BY <2>1, LimitsSet
  <1> HIDE DEF v
  <1>4. Others(a) /\ task'[a] = Ended /\ row' = Flushed(a, v, {"limits"})
    BY <1>1, <1>2 DEF Commit, Others
  <1>5. RowOK(row') /\ row'.log = row.log /\ row'.limits = e /\ row'.problem = row.problem
    BY <1>1, <1>2, <1>3, <1>4, FlushedIs
  <1>6. TaskOK(a, task'[a]) /\ task'[a].pc = "ended" /\ ~HasView(task'[a])
    BY <1>1, <1>4, IdleIs, KindsAre, Bounds DEF TaskOK, HasView
  <1>7. Moves(a)
    BY <1>1, <1>2, <1>4, <1>5, <1>6 DEF Moves
  <1>8. StatusMoves(a) /\ SlotsMoves(a) /\ ProblemMoves(a)
    BY <1>1, <1>5, <1>6 DEF StatusMoves, Shows, SlotsMoves, ProblemMoves
  <1>9. Frame' /\ StatusTrue' /\ ProblemKnown' /\ SavedAreThere'
    BY <1>1, <1>2, <1>7, <1>8, QuietFrame, QuietStatus, QuietProblem, QuietSlots DEF CInv
  <1>10. InputHeld'
    <2> SUFFICES ASSUME ~crossed'
                 PROVE  /\ Holds(kept', row')
                        /\ \A o \in Tasks : HasView(task'[o]) => Holds(kept', task'[o].view)
      BY DEF InputHeld
    <2>1. Holds(kept, row) /\ ~crossed
      BY <1>1 DEF CInv, InputHeld
    <2>2. \A t \in Turns : Entry(t, "user") # Entry(e, "limits")
      BY DEF Entry
    <2>3. Cardinality(Editors) = 1 => \A f \in Editors : f = e
      BY FS_Singleton, ChatAssumption
    <2>4. Holds(kept', row')
      BY <1>1, <1>5, <2>1, <2>2, <2>3 DEF Holds
    <2>5. ASSUME NEW o \in Tasks PROVE ~HasView(task'[o])
      <3>1. CASE o = a
        BY <1>6, <3>1
      <3>2. CASE o # a
        <4>1. Active(a) /\ task[a].pc # "reply" /\ Kind(a) # "build"
          BY <1>1 DEF Active, At
        <4>2. ~Active(o)
          BY <1>1, <1>2, <2>1, <3>2, <4>1, Alone
        <4>3. QED
          BY <1>4, <3>2, <4>2 DEF HasView, Active, At, Others
      <3>3. QED
        BY <3>1, <3>2
    <2>6. QED
      BY <2>4, <2>5
  <1>11. QED
    BY <1>9, <1>10 DEF CInv

-----------------------------------------------------------------------------
\* The steps that read the row.
LEMMA LoadKeeps ==
  ASSUME CInv, NEW a \in Tasks, Others(a), TaskOK(a, task'[a]), HasView(task'[a]),
         task'[a].view = row, task'[a].pc # "tail",
         crossed' = (crossed \/ \E o \in Tasks : Turn(o) # Turn(a) /\ Active(o)),
         \A t \in Turns : TurnOK(t)',
         \/ status' = status /\ ~Shows(a, task[a].pc) /\ ~Shows(a, task'[a].pc)
         \/ status' = "building" /\ Shows(a, task'[a].pc),
         UNCHANGED <<row, slots, problems, failures, kept, restarted>>
  PROVE  CInv'
  <1>1. Frame'
    BY FrameLoads DEF CInv
  <1>2. crossed => crossed'
    OBVIOUS
  <1>3. InputHeld'
    BY <1>2 DEF CInv, InputHeld, Others
  <1>4. StatusTrue'
    BY <1>2 DEF CInv, StatusTrue, Others, Shows
  <1>5. ProblemKnown'
    BY <1>2 DEF CInv, ProblemKnown, Others
  <1>6. SavedAreThere'
    BY <1>2 DEF CInv, SavedAreThere, Others
  <1>7. QED
    BY <1>1, <1>3, <1>4, <1>5, <1>6 DEF CInv

LEMMA LoadedIs ==
  ASSUME Frame, NEW a \in Tasks, NEW q, Loaded(a, q), q \in StepsOf(Kind(a)),
         q \in {"persist", "merge", "samplesOfBuild"}, task[a].pc # "tail"
  PROVE  /\ Others(a) /\ TaskOK(a, task'[a]) /\ HasView(task'[a]) /\ task'[a].view = row
         /\ task'[a].pc = q
  <1>1. DOMAIN task = Tasks /\ DOMAIN task[a] = Fields /\ TaskOK(a, task[a]) /\ RowOK(row)
    BY DEF Frame, TaskOK
  <1>2. /\ Others(a) /\ DOMAIN task'[a] = Fields /\ task'[a].view = row /\ task'[a].pc = q
        /\ task'[a].dirty = task[a].dirty /\ task'[a].stale = task[a].stale
        /\ task'[a].fresh = task[a].fresh /\ task'[a].saved = task[a].saved
    BY <1>1 DEF Loaded, Others, Fields
  <1>3. QED
    BY <1>1, <1>2 DEF TaskOK, HasView

LEMMA ArriveKeeps ==
  ASSUME CInv, NEW t \in Turns, Arrive(t)
  PROVE  CInv'
  <1> DEFINE a == <<"request", t>>
  <1>1. /\ a \in Tasks /\ task[a].pc = "none" /\ Loaded(a, "persist") /\ Kind(a) = "request"
        /\ Turn(a) = t /\ "persist" \in StepsOf(Kind(a))
        /\ UNCHANGED <<row, status, slots, problems, failures, kept, restarted>>
    BY TasksAre, StepsAre DEF Arrive, At, Kind, Turn
  <1>2. /\ Others(a) /\ TaskOK(a, task'[a]) /\ HasView(task'[a]) /\ task'[a].view = row
        /\ task'[a].pc = "persist"
    BY <1>1, LoadedIs DEF CInv
  <1>3. ASSUME NEW u \in Turns PROVE TurnOK(u)'
    <2>1. /\ TurnOK(u) /\ <<"request", u>> \in Tasks
          /\ task'[<<"generation", u>>] = task[<<"generation", u>>]
          /\ task'[<<"build", u>>] = task[<<"build", u>>]
      BY <1>2, TasksAre DEF CInv, Frame, Others
    <2>2. u # t => task'[<<"request", u>>] = task[<<"request", u>>]
      BY <1>2, <2>1 DEF Others
    <2>3. QED
      BY <1>1, <1>2, <2>1, <2>2 DEF TurnOK
  <1>4. /\ crossed' = (crossed \/ \E o \in Tasks : Turn(o) # Turn(a) /\ Active(o))
        /\ ~Shows(a, task[a].pc) /\ ~Shows(a, task'[a].pc)
    BY <1>1, <1>2 DEF Loaded, Shows
  <1> HIDE DEF a
  <1>5. QED
    BY <1>1, <1>2, <1>3, <1>4, LoadKeeps

LEMMA LoadSettingsKeeps ==
  ASSUME CInv, NEW e \in Editors, LoadSettings(e)
  PROVE  CInv'
  <1> DEFINE a == <<"settings", e>>
  <1>1. /\ a \in Tasks /\ task[a].pc = "none" /\ Loaded(a, "merge") /\ Kind(a) = "settings"
        /\ Turn(a) = e /\ "merge" \in StepsOf(Kind(a))
        /\ UNCHANGED <<row, status, slots, problems, failures, kept, restarted>>
    BY TasksAre, StepsAre DEF LoadSettings, At, Kind, Turn
  <1>2. /\ Others(a) /\ TaskOK(a, task'[a]) /\ HasView(task'[a]) /\ task'[a].view = row
        /\ task'[a].pc = "merge"
    BY <1>1, LoadedIs DEF CInv
  <1>3. ASSUME NEW u \in Turns PROVE TurnOK(u)'
    BY <1>2, TasksAre DEF CInv, Frame, Others, TurnOK
  <1>4. /\ crossed' = (crossed \/ \E o \in Tasks : Turn(o) # Turn(a) /\ Active(o))
        /\ ~Shows(a, task[a].pc) /\ ~Shows(a, task'[a].pc)
    BY <1>1, <1>2 DEF Loaded, Shows
  <1> HIDE DEF a
  <1>5. QED
    BY <1>1, <1>2, <1>3, <1>4, LoadKeeps

LEMMA BuildLoadsKeeps ==
  ASSUME CInv, NEW a \in Tasks, BuildLoads(a)
  PROVE  CInv'
  <1>1. /\ task[a].pc = "spawned" /\ Loaded(a, "samplesOfBuild") /\ Kind(a) = "build"
        /\ status' = "building" /\ "samplesOfBuild" \in StepsOf(Kind(a))
        /\ UNCHANGED <<row, slots, problems, failures, kept, restarted>>
    BY StepsAre DEF BuildLoads, At
  <1>2. /\ Others(a) /\ TaskOK(a, task'[a]) /\ HasView(task'[a]) /\ task'[a].view = row
        /\ task'[a].pc = "samplesOfBuild"
    BY <1>1, LoadedIs DEF CInv
  <1>3. ASSUME NEW u \in Turns PROVE TurnOK(u)'
    <2>1. /\ TurnOK(u) /\ <<"build", u>> \in Tasks
          /\ Kind(<<"generation", u>>) = "generation" /\ Kind(<<"request", u>>) = "request"
      BY <1>1, TasksAre DEF CInv, Frame, Kind
    <2>2. /\ task'[<<"generation", u>>] = task[<<"generation", u>>]
          /\ task'[<<"request", u>>] = task[<<"request", u>>]
      BY <1>1, <1>2, <2>1, TasksAre DEF Others
    <2>3. <<"build", u>> # a => task'[<<"build", u>>] = task[<<"build", u>>]
      BY <1>2, <2>1 DEF Others
    <2>4. QED
      BY <1>1, <2>1, <2>2, <2>3 DEF TurnOK
  <1>4. /\ crossed' = (crossed \/ \E o \in Tasks : Turn(o) # Turn(a) /\ Active(o))
        /\ Shows(a, task'[a].pc)
    BY <1>1, <1>2 DEF Loaded, Shows
  <1>5. QED
    BY <1>1, <1>2, <1>3, <1>4, LoadKeeps

LEMMA GenerationLoadsKeeps ==
  ASSUME CInv, NEW t \in Turns, GenerationLoads(t)
  PROVE  CInv'
  <1> DEFINE a == <<"generation", t>>
  <1>1. /\ a \in Tasks /\ task[a].pc = "spawned" /\ Kind(a) = "generation" /\ Turn(a) = t
        /\ crossed' = (crossed \/ \E o \in Tasks : Turn(o) # Turn(a) /\ Active(o))
        /\ UNCHANGED <<row, status, slots, problems, failures, kept, restarted>>
    BY TasksAre DEF GenerationLoads, At, Kind, Turn
  <1>2. PICK act \in {"regenerate", "edit_task"}, q \in {"progress", "files", "samples", "pack"} :
          task' = [task EXCEPT ![a] = [@ EXCEPT !.view = row, !.action = act, !.pc = q]]
    BY DEF GenerationLoads
  <1> HIDE DEF a
  <1>3. /\ DOMAIN task = Tasks /\ DOMAIN task[a] = Fields /\ TaskOK(a, task[a]) /\ RowOK(row)
        /\ Frame
    BY <1>1 DEF CInv, Frame, TaskOK
  <1>4. /\ Others(a) /\ DOMAIN task'[a] = Fields /\ task'[a].view = row /\ task'[a].pc = q
        /\ task'[a].dirty = task[a].dirty /\ task'[a].stale = task[a].stale
        /\ task'[a].fresh = task[a].fresh /\ task'[a].saved = task[a].saved
    BY <1>1, <1>2, <1>3 DEF Others, Fields
  <1>5. TaskOK(a, task'[a]) /\ HasView(task'[a])
    BY <1>1, <1>3, <1>4, StepsAre DEF TaskOK, HasView
  <1>6. ASSUME NEW u \in Turns PROVE TurnOK(u)'
    <2>1. /\ TurnOK(u) /\ <<"generation", u>> \in Tasks
          /\ Kind(<<"build", u>>) = "build" /\ Kind(<<"request", u>>) = "request"
      BY <1>1, <1>3, TasksAre DEF Frame, Kind
    <2>2. /\ task'[<<"build", u>>] = task[<<"build", u>>]
          /\ task'[<<"request", u>>] = task[<<"request", u>>]
      BY <1>1, <1>4, <2>1, TasksAre DEF Others
    <2>3. <<"generation", u>> # a => task'[<<"generation", u>>] = task[<<"generation", u>>]
      BY <1>4, <2>1 DEF Others
    <2>4. QED
      BY <1>1, <2>1, <2>2, <2>3 DEF TurnOK
  <1>7. ~Shows(a, task[a].pc) /\ ~Shows(a, task'[a].pc)
    BY <1>1, <1>4 DEF Shows
  <1>8. task'[a].pc # "tail"
    BY <1>4
  <1>9. QED
    BY <1>1, <1>4, <1>5, <1>6, <1>7, <1>8, LoadKeeps
-----------------------------------------------------------------------------
\* The steps that start a task for another.
LEMMA SpawnGenerationKeeps ==
  ASSUME CInv, NEW a \in Tasks, task[a].pc = "route",
         task' = [task EXCEPT ![a] = Ended,
                              ![<<"generation", Turn(a)>>] = [Idle EXCEPT !.pc = "spawned"]],
         UNCHANGED <<row, status, slots, problems, kept, crossed, restarted, failures>>
  PROVE  CInv'
  <1> DEFINE t == Turn(a)
             g == <<"generation", t>>
             new == [Idle EXCEPT !.pc = "spawned"]
  <1>1. /\ Frame /\ DOMAIN task = Tasks /\ Kind(a) = "request" /\ t \in Turns
        /\ a = <<"request", t>>
    BY KindOfStep, KindsAre DEF CInv, Frame
  <1>2. g \in Tasks /\ g # a /\ Kind(g) = "generation" /\ Turn(g) = t
    <2>1. g \in Tasks
      BY <1>1, TasksAre
    <2>2. Kind(g) = "generation" /\ Turn(g) = t
      BY DEF Kind, Turn
    <2>3. QED
      BY <1>1, <2>1, <2>2
  <1>3. /\ DOMAIN new = Fields /\ new.pc = "spawned" /\ new.dirty = {} /\ new.stale = 0
        /\ new.fresh = 0 /\ new.saved = {}
    BY IdleIs DEF Idle, Fields
  <1> HIDE DEF t, g, new
  <1>4. /\ DOMAIN task' = Tasks /\ task'[a] = Ended /\ task'[g] = new
        /\ \A o \in Tasks \ {a, g} : task'[o] = task[o]
    BY <1>1, <1>2 DEF t, g, new
  <1>5. TaskOK(a, task'[a]) /\ TaskOK(g, task'[g])
    BY <1>2, <1>3, <1>4, IdleIs, KindsAre, StepsAre, Bounds DEF TaskOK, HasView
  <1>6. ASSUME NEW u \in Turns PROVE TurnOK(u)'
    <2>1. /\ TurnOK(u) /\ <<"request", u>> \in Tasks /\ <<"generation", u>> \in Tasks
          /\ <<"build", u>> \in Tasks /\ Kind(<<"build", u>>) = "build"
      BY <1>1, TasksAre DEF Frame, Kind
    <2>2. task'[<<"build", u>>] = task[<<"build", u>>]
      BY <1>1, <1>2, <1>4, <2>1
    <2>3. CASE u = t
      BY <1>1, <1>3, <1>4, <2>1, <2>2, <2>3, IdleIs DEF g, TurnOK
    <2>4. CASE u # t
      <3>1. /\ task'[<<"request", u>>] = task[<<"request", u>>]
            /\ task'[<<"generation", u>>] = task[<<"generation", u>>]
        BY <1>1, <1>4, <2>1, <2>4 DEF g
      <3>2. QED
        BY <2>1, <2>2, <3>1 DEF TurnOK
    <2>5. QED
      BY <2>3, <2>4
  <1>7. ASSUME NEW o \in Tasks, Active(o)'
        PROVE  \E p \in Tasks : Active(p) /\ Turn(p) = Turn(o)
    <2>1. Active(a)
      BY DEF Active, At
    <2>2. QED
      BY <1>2, <1>4, <1>7, <2>1, IdleIs DEF Active, At, t
  <1>8. Frame'
    <2>1. ~crossed' => OneTurn'
      BY <1>1, <1>7 DEF Frame, OneTurn
    <2>2. \A o \in Tasks : TaskOK(o, task'[o])
      BY <1>1, <1>4, <1>5 DEF Frame
    <2>3. QED
      BY <1>1, <1>4, <1>6, <2>1, <2>2 DEF Frame
  <1>9. ~HasView(task'[a]) /\ ~HasView(task'[g]) /\ task'[a].pc # "tail" /\ task'[g].pc # "tail"
    BY <1>3, <1>4, IdleIs DEF HasView
  <1>10. /\ ~Shows(a, task[a].pc) /\ ~Shows(g, task[g].pc)
         /\ ~Shows(a, task'[a].pc) /\ ~Shows(g, task'[g].pc)
    <2>1. task[g].pc # "spawn"
      BY <1>1 DEF Frame, TurnOK, g
    <2>2. QED
      BY <1>1, <1>2, <1>3, <1>4, <2>1, IdleIs DEF Shows
  <1>11. InputHeld' /\ ProblemKnown' /\ SavedAreThere'
    <2>1. \A o \in Tasks : task'[o].pc = "tail" \/ HasView(task'[o]) => task'[o] = task[o]
      BY <1>4, <1>9
    <2>2. InputHeld'
      BY <2>1 DEF CInv, InputHeld
    <2>3. ProblemKnown'
      BY <2>1 DEF CInv, ProblemKnown
    <2>4. SavedAreThere'
      BY <2>1 DEF CInv, SavedAreThere
    <2>5. QED
      BY <2>2, <2>3, <2>4
  <1>12. StatusTrue'
    <2>1. \A o \in Tasks : Shows(o, task'[o].pc) <=> Shows(o, task[o].pc)
      BY <1>4, <1>10
    <2>2. QED
      BY <2>1 DEF CInv, StatusTrue, Shows
  <1>13. QED
    BY <1>8, <1>11, <1>12 DEF CInv

LEMMA SpawnBuildKeeps ==
  ASSUME CInv, NEW a \in Tasks, SpawnBuild(a)
  PROVE  CInv'
  <1> DEFINE t == Turn(a)
             b == <<"build", t>>
  <1>1. /\ Frame /\ DOMAIN task = Tasks /\ Kind(a) \in {"request", "generation"} /\ t \in Turns
        /\ task[a].pc = "spawn" /\ a \in {<<"request", t>>, <<"generation", t>>}
        /\ task' = [task EXCEPT ![a].pc = "reply", ![b].pc = "spawned"]
        /\ UNCHANGED <<row, status, slots, problems, failures, kept, crossed, restarted>>
    BY KindOfStep, KindsAre DEF CInv, Frame, SpawnBuild, At, BuildOf
  <1>2. /\ b \in Tasks /\ b # a /\ Kind(b) = "build" /\ Turn(b) = t
        /\ TaskOK(a, task[a]) /\ TaskOK(b, task[b])
    <2>1. b \in Tasks
      BY <1>1, TasksAre
    <2>2. Kind(b) = "build" /\ Turn(b) = t
      BY DEF Kind, Turn
    <2>3. QED
      BY <1>1, <2>1, <2>2 DEF Frame
  <1>3. TurnOK(t) /\ task[b].pc = "none"
    BY <1>1 DEF Frame, TurnOK
  <1> HIDE DEF t, b
  <1>4. /\ DOMAIN task' = Tasks /\ \A o \in Tasks \ {a, b} : task'[o] = task[o]
        /\ task'[a] = [task[a] EXCEPT !.pc = "reply"]
        /\ task'[b] = [task[b] EXCEPT !.pc = "spawned"]
    BY <1>1, <1>2
  <1>5. /\ DOMAIN task'[a] = Fields /\ task'[a].pc = "reply" /\ task'[a].view = task[a].view
        /\ task'[a].dirty = task[a].dirty /\ task'[a].stale = task[a].stale
        /\ task'[a].fresh = task[a].fresh /\ task'[a].saved = task[a].saved
    BY <1>2, <1>4 DEF TaskOK, Fields
  <1>6. /\ DOMAIN task'[b] = Fields /\ task'[b].pc = "spawned"
        /\ task'[b].dirty = task[b].dirty /\ task'[b].stale = task[b].stale
        /\ task'[b].fresh = task[b].fresh /\ task'[b].saved = task[b].saved
    BY <1>2, <1>4 DEF TaskOK, Fields
  <1>7. TaskOK(a, task'[a]) /\ TaskOK(b, task'[b])
    <2>1. TaskOK(a, task'[a])
      BY <1>1, <1>2, <1>5, StepsAre DEF TaskOK, HasView
    <2>2. TaskOK(b, task'[b])
      BY <1>2, <1>3, <1>6, StepsAre DEF TaskOK, HasView
    <2>3. QED
      BY <2>1, <2>2
  <1>8. ASSUME NEW u \in Turns PROVE TurnOK(u)'
    <2>1. /\ TurnOK(u) /\ <<"request", u>> \in Tasks /\ <<"generation", u>> \in Tasks
          /\ <<"build", u>> \in Tasks
      BY <1>1, TasksAre DEF Frame
    <2>2. CASE u # t
      <3>1. /\ task'[<<"request", u>>] = task[<<"request", u>>]
            /\ task'[<<"generation", u>>] = task[<<"generation", u>>]
            /\ task'[<<"build", u>>] = task[<<"build", u>>]
        BY <1>1, <1>4, <2>1, <2>2 DEF b
      <3>2. QED
        BY <2>1, <3>1 DEF TurnOK
    <2>3. CASE u = t /\ a = <<"request", t>>
      <3>1. task'[<<"generation", u>>] = task[<<"generation", u>>] /\ task'[<<"build", u>>] = task'[b]
        BY <1>4, <2>1, <2>3 DEF b
      <3>2. task[<<"generation", t>>].pc = "none"
        BY <1>1, <1>3, <2>3 DEF TurnOK
      <3>3. task'[<<"request", t>>].pc = "reply"
        BY <1>5, <2>3
      <3>4. QED
        BY <2>3, <3>1, <3>2, <3>3 DEF TurnOK
    <2>4. CASE u = t /\ a = <<"generation", t>>
      <3>1. task'[<<"request", u>>] = task[<<"request", u>>] /\ task'[<<"build", u>>] = task'[b]
        BY <1>4, <2>1, <2>4 DEF b
      <3>2. QED
        BY <1>1, <1>3, <1>5, <1>6, <2>4, <3>1 DEF TurnOK
    <2>5. QED
      BY <1>1, <2>2, <2>3, <2>4
  <1>9. ASSUME NEW o \in Tasks, Active(o)'
        PROVE  \E p \in Tasks : Active(p) /\ Turn(p) = Turn(o)
    <2>1. Active(a)
      BY <1>1 DEF Active, At
    <2>2. QED
      BY <1>2, <1>4, <1>9, <2>1 DEF Active, At, t
  <1>10. Frame'
    <2>1. ~crossed' => OneTurn'
      BY <1>1, <1>9 DEF Frame, OneTurn
    <2>2. \A o \in Tasks : TaskOK(o, task'[o])
      BY <1>1, <1>4, <1>7 DEF Frame
    <2>3. QED
      BY <1>1, <1>4, <1>8, <2>1, <2>2 DEF Frame
  <1>11. /\ HasView(task[a]) /\ ~HasView(task'[b])
         /\ task'[a].pc # "tail" /\ task'[b].pc # "tail"
    BY <1>1, <1>5, <1>6 DEF HasView
  <1>12. InputHeld' /\ ProblemKnown' /\ SavedAreThere'
    BY <1>1, <1>4, <1>5, <1>11 DEF CInv, InputHeld, ProblemKnown, SavedAreThere
  <1>13. StatusTrue'
    <2>1. Shows(a, task[a].pc) /\ Shows(b, task'[b].pc)
      BY <1>1, <1>2, <1>6 DEF Shows
    <2>2. QED
      BY <1>1, <1>2, <2>1 DEF CInv, StatusTrue, Shows
  <1>14. QED
    BY <1>10, <1>12, <1>13 DEF CInv

-----------------------------------------------------------------------------
LEMMA RestartKeeps ==
  ASSUME CInv, Restart
  PROVE  CInv'
  <1>1. /\ failures' = failures + 1 /\ restarted' = TRUE /\ DOMAIN task' = Tasks
        /\ \A o \in Tasks : task'[o] = IF task[o].pc = "none" THEN Idle ELSE Ended
        /\ UNCHANGED <<row, status, slots, problems, kept, crossed>>
    BY DEF Restart, Failure, At
  <1>2. \A o \in Tasks : task'[o].pc = IF task[o].pc = "none" THEN "none" ELSE "ended"
    BY <1>1, IdleIs
  <1>3. ASSUME NEW o \in Tasks PROVE TaskOK(o, task'[o])
    BY <1>1, IdleIs, KindsAre, Bounds DEF TaskOK, HasView
  <1>4. ASSUME NEW t \in Turns PROVE TurnOK(t)'
    <2>1. TurnOK(t)
      BY DEF CInv, Frame
    <2>2. QED
      BY <1>2, <2>1, TasksAre DEF TurnOK
  <1>5. \A o \in Tasks : ~Active(o)' /\ ~HasView(task'[o]) /\ task'[o].pc # "tail"
    BY <1>2 DEF Active, At, HasView
  <1>6. Frame'
    BY <1>1, <1>3, <1>4, <1>5 DEF CInv, Frame, OneTurn
  <1>7. InputHeld' /\ SavedAreThere' /\ StatusTrue'
    BY <1>1, <1>5 DEF CInv, InputHeld, SavedAreThere, StatusTrue
  <1>8. ProblemKnown'
    BY <1>1, <1>5 DEF CInv, Frame, ProblemKnown
  <1>9. QED
    BY <1>6, <1>7, <1>8 DEF CInv

LEMMA CInvInit == Init => CInv
  <1> SUFFICES ASSUME Init PROVE CInv
    OBVIOUS
  <1>1. PICK old \in BOOLEAN :
         /\ row = [log |-> {}, limits |-> None,
                   problem |-> IF old THEN 1 ELSE None, examples |-> IF old THEN OldSamples ELSE 0]
         /\ problems = IF old THEN {1} ELSE {}
         /\ slots = [i \in 1..MaxSlots |-> IF old /\ i <= OldSamples THEN Before ELSE None]
    BY DEF Init
  <1>2. /\ status = "idle" /\ DOMAIN task = Tasks /\ (\A o \in Tasks : task[o] = Idle)
        /\ failures = 0 /\ kept = {} /\ crossed = FALSE /\ restarted = FALSE
    BY DEF Init
  <1>3. \A o \in Tasks : task[o].pc = "none" /\ ~Active(o) /\ ~HasView(task[o])
    BY <1>2, IdleIs DEF Active, At, HasView
  <1>4. RowOK(row) /\ DOMAIN slots = 1..MaxSlots /\ IsFiniteSet(problems)
    <2>1. IsFiniteSet(problems)
      BY <1>1, FS_EmptySet, FS_Singleton
    <2>2. QED
      BY <1>1, <2>1, Bounds DEF RowOK, Columns
  <1>5. ASSUME NEW o \in Tasks PROVE TaskOK(o, task[o])
    BY <1>2, IdleIs, KindsAre, Bounds DEF TaskOK, HasView
  <1>6. ASSUME NEW t \in Turns PROVE TurnOK(t)
    BY <1>3, TasksAre DEF TurnOK
  <1>7. Frame
    BY <1>2, <1>3, <1>4, <1>5, <1>6 DEF Frame, OneTurn
  <1>8. InputHeld /\ SavedAreThere
    BY <1>2, <1>3 DEF InputHeld, Holds, SavedAreThere
  <1>9. StatusTrue
    BY <1>2, <1>3 DEF StatusTrue, Shows
  <1>10. ProblemKnown
    <2>1. 1 # None
      BY ChatAssumption
    <2>2. QED
      BY <1>1, <1>3, <2>1 DEF ProblemKnown
  <1>11. QED
    BY <1>7, <1>8, <1>9, <1>10 DEF CInv

LEMMA StepKeeps ==
  ASSUME CInv, NEW a \in Tasks, Step(a)
  PROVE  CInv'
  <1>1. Frame
    BY DEF CInv
  <1>2. CASE PersistMessage(a)
    BY <1>2, AppendLogKeeps DEF PersistMessage, At
  <1>3. CASE ClassifyAction(a)
    <2>1. CASE Quiet(a)
      BY <2>1, QuietKeeps
    <2>2. CASE task' = [task EXCEPT ![a] = Ended,
                 ![<<"generation", Turn(a)>>] = [Idle EXCEPT !.pc = "spawned"]]
      BY <1>3, <2>2, SpawnGenerationKeeps DEF ClassifyAction, At, Smooth
    <2>3. QED
      BY <1>1, <1>3, <2>1, <2>2, ClassifyQuiet
  <1>4. CASE Reply(a)
    BY <1>4, AppendLogKeeps DEF Reply, At
  <1>5. CASE BuildMessage(a)
    BY <1>5, AppendLogKeeps DEF BuildMessage, At
  <1>6. CASE SpawnBuild(a)
    BY <1>6, SpawnBuildKeeps
  <1>7. CASE BuildLoads(a)
    BY <1>7, BuildLoadsKeeps
  <1>8. CASE \/ GenProgress(a) \/ NewStatement(a) \/ EnsureProblem(a) \/ SyncStatement(a)
             \/ RegenerateTags(a) \/ EssenceCheck(a) \/ PrepareSamples(a) \/ UploadExamples(a)
             \/ DeleteStaleExamples(a) \/ ModifyFiles(a) \/ PushFiles(a) \/ GeneratePack(a)
             \/ MarkBuildStarted(a) \/ BuildUploads(a) \/ BuildVerdict(a)
    <2>1. Quiet(a)
      BY <1>1, <1>8, GenProgressQuiet, NewStatementQuiet, EnsureProblemQuiet, SyncsQuiet,
         RegenerateTagsQuiet, EssenceCheckQuiet, PrepareSamplesQuiet, UploadExamplesQuiet,
         DeleteStaleExamplesQuiet, GeneratePackQuiet, MarkBuildStartedQuiet, BuildStepsQuiet
    <2>2. QED
      BY <2>1, QuietKeeps
  <1>9. QED
    BY <1>2, <1>3, <1>4, <1>5, <1>6, <1>7, <1>8 DEF Step

LEMMA NextKeeps == CInv /\ [Next]_vars => CInv'
  <1> SUFFICES ASSUME CInv, [Next]_vars PROVE CInv'
    OBVIOUS
  <1>1. CASE \E t \in Turns : Arrive(t) \/ GenerationLoads(t)
    BY <1>1, ArriveKeeps, GenerationLoadsKeeps
  <1>2. CASE \E a \in Tasks : Step(a)
    BY <1>2, StepKeeps
  <1>3. CASE \E e \in Editors : LoadSettings(e) \/ UpdateProblemSettings(e)
    BY <1>3, LoadSettingsKeeps, UpdateProblemSettingsKeeps
  <1>4. CASE Restart
    BY <1>4, RestartKeeps
  <1>5. CASE UNCHANGED vars
    BY <1>5 DEF vars, CInv, Frame, InputHeld, StatusTrue, ProblemKnown, SavedAreThere, Holds,
                TurnOK, OneTurn, Active, At
  <1>6. QED
    BY <1>1, <1>2, <1>3, <1>4, <1>5 DEF Next

(* The invariant holds in every state of a session (ChatSession's Spec).      *)
THEOREM CInvHolds == Spec => []CInv
  BY CInvInit, NextKeeps, PTL DEF Spec
-----------------------------------------------------------------------------
(* What the user wrote stays in the log, and a limit the user set stays set,  *)
(* as long as no two messages' tasks ran at once (chat.py, update_settings).  *)
THEOREM InputKept == Spec => []UserInputIsKept
  <1>1. CInv => UserInputIsKept
    BY DEF CInv, InputHeld, Holds, UserInputIsKept, UserMessageIsKept, LimitsAreKept
  <1>2. QED
    BY <1>1, CInvHolds, PTL

(* The session says that it is building exactly while a build is asked for or *)
(* runs (mark_build_started before the spawn).                                *)
THEOREM StatusShown == Spec => []BuildIsShown
  <1>1. CInv => BuildIsShown
    BY DEF CInv, StatusTrue, Shows, BuildIsShown, At
  <1>2. QED
    BY <1>1, CInvHolds, PTL

(* A session makes at most one problem and keeps its id (ensure_problem).     *)
THEOREM ProblemMadeOnce == Spec => []OneProblem
  <1>1. CInv => OneProblem
    <2> SUFFICES ASSUME CInv, ~crossed, failures = 0
                 PROVE  /\ Cardinality(problems) <= 1
                        /\ \A a \in Tasks : At(a, "sync") => row.problem \in problems
      BY DEF OneProblem
    <2>1. /\ problems = IF row.problem = None THEN {} ELSE {row.problem}
          /\ \A a \in Tasks : HasView(task[a]) => task[a].view.problem = row.problem
      BY DEF CInv, ProblemKnown
    <2>2. Cardinality(problems) <= 1
      <3>1. Cardinality({}) = 0 /\ Cardinality({row.problem}) = 1
        BY FS_EmptySet, FS_Singleton
      <3>2. QED
        BY <2>1, <3>1
    <2>3. ASSUME NEW a \in Tasks, At(a, "sync") PROVE row.problem \in problems
      <3>1. HasView(task[a]) /\ task[a].view.problem # None
        BY <2>3 DEF CInv, Frame, TaskOK, At, HasView
      <3>2. QED
        BY <2>1, <3>1
    <2>4. QED
      BY <2>2, <2>3
  <1>2. QED
    BY <1>1, CInvHolds, PTL

-----------------------------------------------------------------------------
\* Only PrepareSamples ends the making of samples, and only DeleteStaleExamples
\* the cleaning up after them.
LEMMA StepOfOther ==
  ASSUME CInv, NEW o \in Tasks, Step(o), NEW a \in Tasks, a # o
  PROVE  task'[a] = task[a] \/ task'[a].pc = "spawned"
  <1>1. Frame /\ DOMAIN task = Tasks
    BY DEF CInv, Frame
  <1>2. CASE PersistMessage(o) \/ Reply(o) \/ BuildMessage(o)
    BY <1>1, <1>2 DEF PersistMessage, Reply, BuildMessage, AppendLog, Commit
  <1>3. CASE ClassifyAction(o)
    <2>1. CASE Quiet(o)
      BY <2>1 DEF Quiet, Moves, Others
    <2>2. CASE task' = [task EXCEPT ![o] = Ended,
                 ![<<"generation", Turn(o)>>] = [Idle EXCEPT !.pc = "spawned"]]
      <3>1. [Idle EXCEPT !.pc = "spawned"].pc = "spawned"
        BY DEF Idle
      <3>2. QED
        BY <1>1, <2>2, <3>1
    <2>3. QED
      BY <1>1, <1>3, <2>1, <2>2, ClassifyQuiet
  <1>4. CASE SpawnBuild(o)
    <2>1. task' = [task EXCEPT ![o].pc = "reply", ![BuildOf(o)].pc = "spawned"]
      BY <1>4 DEF SpawnBuild
    <2>2. "pc" \in DOMAIN task[a]
      BY <1>1 DEF Frame, TaskOK, Fields
    <2> DEFINE b == BuildOf(o)
    <2> HIDE DEF b
    <2>3. task' = [task EXCEPT ![o].pc = "reply", ![b].pc = "spawned"]
      BY <2>1 DEF b
    <2>4. CASE a # b
      BY <1>1, <2>3, <2>4
    <2>5. CASE a = b
      <3>1. task'[a] = [task[a] EXCEPT !.pc = "spawned"]
        BY <1>1, <2>3, <2>5
      <3>2. QED
        BY <2>2, <3>1
    <2>6. QED
      BY <2>4, <2>5
  <1>5. CASE BuildLoads(o)
    BY <1>1, <1>5 DEF BuildLoads, Loaded
  <1>6. CASE \/ GenProgress(o) \/ NewStatement(o) \/ EnsureProblem(o) \/ SyncStatement(o)
             \/ RegenerateTags(o) \/ EssenceCheck(o) \/ PrepareSamples(o) \/ UploadExamples(o)
             \/ DeleteStaleExamples(o) \/ ModifyFiles(o) \/ PushFiles(o) \/ GeneratePack(o)
             \/ MarkBuildStarted(o) \/ BuildUploads(o) \/ BuildVerdict(o)
    <2>1. Quiet(o)
      BY <1>1, <1>6, GenProgressQuiet, NewStatementQuiet, EnsureProblemQuiet, SyncsQuiet,
         RegenerateTagsQuiet, EssenceCheckQuiet, PrepareSamplesQuiet, UploadExamplesQuiet,
         DeleteStaleExamplesQuiet, GeneratePackQuiet, MarkBuildStartedQuiet, BuildStepsQuiet
    <2>2. QED
      BY <2>1 DEF Quiet, Moves, Others
  <1>7. QED
    BY <1>2, <1>3, <1>4, <1>5, <1>6 DEF Step

LEMMA LeavesBy ==
  ASSUME CInv, [Next]_vars, NEW a \in Tasks, task[a].pc \in {"samples", "tail"},
         task'[a].pc = AfterSamples(a)
  PROVE  \/ task[a].pc = "samples" /\ PrepareSamples(a)
         \/ task[a].pc = "tail" /\ DeleteStaleExamples(a)
  <1>1. /\ Frame /\ DOMAIN task = Tasks /\ task'[a].pc \in {"pack", "reply"}
        /\ task'[a].pc # task[a].pc
    BY DEF CInv, Frame, AfterSamples
  <1>2. CASE \E t \in Turns : Arrive(t)
    BY <1>1, <1>2 DEF Arrive, Loaded, At
  <1>3. CASE \E t \in Turns : GenerationLoads(t)
    BY <1>1, <1>3 DEF GenerationLoads, At
  <1>4. CASE \E e \in Editors : LoadSettings(e)
    BY <1>1, <1>4 DEF LoadSettings, Loaded, At
  <1>5. CASE \E e \in Editors : UpdateProblemSettings(e)
    BY <1>1, <1>5 DEF UpdateProblemSettings, Commit, At
  <1>6. CASE Restart
    BY <1>1, <1>6, IdleIs DEF Restart, At
  <1>7. CASE UNCHANGED vars
    BY <1>1, <1>7 DEF vars
  <1>8. ASSUME NEW o \in Tasks, Step(o), o # a PROVE FALSE
    BY <1>1, <1>8, StepOfOther
  <1>9. CASE Step(a)
    <2>1. UploadExamples(a) => task[a].pc = "upload"
      BY DEF UploadExamples, At
    <2>2. PrepareSamples(a) => task[a].pc = "samples"
      BY DEF PrepareSamples, At
    <2>3. DeleteStaleExamples(a) => task[a].pc = "tail"
      BY DEF DeleteStaleExamples, At
    <2>4. /\ ~PersistMessage(a) /\ ~ClassifyAction(a) /\ ~GenProgress(a) /\ ~NewStatement(a)
          /\ ~EnsureProblem(a) /\ ~SyncStatement(a)
      BY DEF PersistMessage, ClassifyAction, GenProgress, NewStatement, EnsureProblem,
             SyncStatement, At
    <2>5. /\ ~RegenerateTags(a) /\ ~EssenceCheck(a) /\ ~ModifyFiles(a) /\ ~PushFiles(a)
          /\ ~GeneratePack(a) /\ ~MarkBuildStarted(a)
      BY DEF RegenerateTags, EssenceCheck, ModifyFiles, PushFiles, GeneratePack,
             MarkBuildStarted, At
    <2>6. /\ ~SpawnBuild(a) /\ ~Reply(a) /\ ~BuildLoads(a) /\ ~BuildUploads(a)
          /\ ~BuildVerdict(a) /\ ~BuildMessage(a)
      BY DEF SpawnBuild, Reply, BuildLoads, BuildUploads, BuildVerdict, BuildMessage, At
    <2>7. QED
      BY <1>9, <2>1, <2>2, <2>3, <2>4, <2>5, <2>6 DEF Step
  <1>10. QED
    BY <1>2, <1>3, <1>4, <1>5, <1>6, <1>7, <1>8, <1>9 DEF Next

LEMMA NoteIs ==
  ASSUME NEW stale \in Nat, NEW fresh \in Nat, NEW i \in 1..stale
  PROVE  i \in 1..fresh \/ i \in StaleSamplesNote(stale, fresh)
  BY DEF StaleSamplesNote

LEMMA SamplesStep == CInv /\ [Next]_vars => NewSamplesStay /\ OldSamplesAreTold
  <1> SUFFICES ASSUME CInv, [Next]_vars PROVE NewSamplesStay /\ OldSamplesAreTold
    OBVIOUS
  <1>1. ASSUME NEW a \in Tasks, Leaves(a, "tail"), NEW i \in task[a].saved
        PROVE  slots'[i] = slots[i]
    <2>1. DeleteStaleExamples(a)
      BY <1>1, LeavesBy DEF Leaves, At
    <2>2. /\ task[a].saved \subseteq 1..task[a].fresh /\ task[a].fresh \in 0..MaxSamples
          /\ DOMAIN slots = 1..MaxSlots /\ task[a].stale \in 0..MaxSlots
      BY DEF CInv, Frame, TaskOK
    <2>3. i \in 1..task[a].fresh /\ i \in DOMAIN slots
      BY <2>2, Bounds
    <2>4. \/ slots' = slots
          \/ slots' = [s \in DOMAIN slots |->
                         IF s \in task[a].fresh + 1..task[a].stale THEN None ELSE slots[s]]
      BY <2>1 DEF DeleteStaleExamples
    <2>5. i \notin task[a].fresh + 1..task[a].stale
      BY <2>2, <2>3
    <2>6. QED
      BY <2>3, <2>4, <2>5
  <1>2. ASSUME NEW a \in Tasks, ~crossed, Leaves(a, "samples"), NEW i \in 1..task[a].stale
        PROVE  i \in task'[a].told
    <2>1. PrepareSamples(a) /\ task'[a].pc \in {"pack", "reply"}
      BY <1>2, LeavesBy DEF Leaves, At, AfterSamples
    <2>2. DOMAIN task = Tasks /\ DOMAIN task[a] = Fields /\ task[a].stale \in Nat
      BY Bounds DEF CInv, Frame, TaskOK
    <2>3. ~\E n \in 1..MaxSamples :
             task' = [task EXCEPT ![a] = [@ EXCEPT !.view.examples = n, !.dirty = {},
                                                     !.fresh = n, !.pc = "upload"]]
      BY <2>1, <2>2 DEF Fields
    <2>4. task' = [task EXCEPT ![a] = [@ EXCEPT !.pc = AfterSamples(a),
                        !.told = StaleSamplesNote(task[a].stale, 0)]]
      BY <2>1, <2>3 DEF PrepareSamples
    <2>5. task'[a].told = StaleSamplesNote(task[a].stale, 0)
      BY <2>2, <2>4 DEF Fields
    <2>6. QED
      BY <2>2, <2>5, NoteIs
  <1>3. ASSUME NEW a \in Tasks, ~crossed, Leaves(a, "tail"),
               task[a].saved = 1..Cardinality(task[a].saved), NEW i \in 1..task[a].stale
        PROVE  slots'[i] \in {Turn(a), None} \/ i \in task'[a].told
    <2> DEFINE n == task[a].fresh
               stale == task[a].stale
               saved == task[a].saved
               card == Cardinality(saved)
               note == StaleSamplesNote(stale, card)
    <2>1. DeleteStaleExamples(a) /\ task[a].pc = "tail"
      BY <1>3, LeavesBy DEF Leaves, At
    <2>2. /\ saved \subseteq 1..n /\ n \in 0..MaxSamples /\ stale \in 0..MaxSlots
          /\ DOMAIN slots = 1..MaxSlots /\ DOMAIN task = Tasks /\ DOMAIN task[a] = Fields
          /\ MaxSlots \in Nat /\ n \in Nat /\ stale \in Nat
      BY Bounds, ChatAssumption DEF CInv, Frame, TaskOK
    <2>3. card \in Nat
      <3>1. IsFiniteSet(1..n)
        <4> HIDE DEF n
        <4>1. 1 \in Int /\ n \in Int
          BY <2>2
        <4>2. QED
          BY <4>1, FS_Interval
      <3>2. IsFiniteSet(saved)
        BY <2>2, <3>1, FS_Subset
      <3>3. QED
        BY <3>2, FS_CardinalityType
    <2>4. \A s \in saved : slots[s] = Turn(a)
      BY <1>3, <2>1 DEF CInv, SavedAreThere
    <2>5. i \in DOMAIN slots
      BY <2>2
    <2>6. i \in saved \/ i \in note
      BY <1>3, <2>2, <2>3, NoteIs
    <2>7. CASE slots' = slots /\ (stale = 0 \/ (saved = 1..n /\ n >= stale))
      BY <2>2, <2>4, <2>7
    <2>8. ASSUME slots' = slots,
                 task' = [task EXCEPT ![a] = [@ EXCEPT !.pc = AfterSamples(a),
                                !.told = note, !.stale = 0, !.fresh = 0, !.saved = {}]]
          PROVE  slots'[i] \in {Turn(a), None} \/ i \in task'[a].told
      <3> HIDE DEF note
      <3>1. task'[a].told = note
        BY <2>2, <2>8 DEF Fields
      <3>2. QED
        BY <2>4, <2>6, <2>8, <3>1
    <2>9. CASE saved = 1..n /\ slots' = [s \in DOMAIN slots |->
                                           IF s \in n + 1..stale THEN None ELSE slots[s]]
      BY <2>2, <2>4, <2>5, <2>9
    <2>10. QED
      BY <2>1, <2>7, <2>8, <2>9 DEF DeleteStaleExamples
  <1>4. NewSamplesStay
    BY <1>1 DEF NewSamplesStay
  <1>5. OldSamplesAreTold
    BY <1>2, <1>3 DEF OldSamplesAreTold
  <1>6. QED
    BY <1>4, <1>5

(* Cleaning up after new samples deletes none of them, and the reply names    *)
(* every old one that is still a test (samples.py).                           *)
THEOREM SamplesKept == Spec => SamplesAreMerged
  <1>1. CInv /\ [Next]_vars => [NewSamplesStay /\ OldSamplesAreTold]_vars
    BY SamplesStep
  <1>2. QED
    BY <1>1, CInvHolds, PTL DEF Spec, SamplesAreMerged

-----------------------------------------------------------------------------
(* The routes of a Polygon problem. *)
RowNames == {"problem", "info", "statements", "solutions"}
Saves(step) == step.does = "call" /\ Methods[step.what].does = "write"
Tells(step, table) ==
  /\ step.does = "call"
  /\ table # "problem" => Methods[step.what].does = "read" /\ Methods[step.what].part = table /\ table \in Parts

\* What all routes have in common: rows are loaded right after the call that tells them, and
\* flushed right after that; nothing is saved after a refresh; nothing is saved by a route
\* that may end early.
Shape(s) ==
  \A i \in DOMAIN s :
    /\ s[i].does = "load" =>
         /\ s[i].what \in RowNames /\ i > 1 /\ Tells(s[i - 1], s[i].what)
         /\ i < Len(s) /\ s[i + 1].does = "flush"
    /\ s[i].does = "flush" => i > 1 /\ s[i - 1].does = "load" /\ s[i - 1].what = s[i].what
    /\ s[i].does = "add" => i > 1 /\ s[i - 1].does = "find"
    /\ s[i].does \in {"peek", "find"} => \A k \in DOMAIN s : ~Saves(s[k])
    /\ s[i].does = "find" => \A k \in DOMAIN s : s[k].does # "flush"
    /\ s[i].does = "flush" /\ s[i].what # "problem" =>
         \A k \in DOMAIN s :
           /\ k > i /\ s[k].does = "call" => Methods[s[k].what].does = "read"
           /\ s[k].does = "flush" => s[k].what # "problem"
Shaped(s) == s \in Seq(Members(s)) /\ s # <<>> /\ Shape(s)

-----------------------------------------------------------------------------
(* A request on its route. *)
Contents == Requests \cup {Old, Person, Nil}
AnyStep == UNION {Members(Routes[x]) : x \in DOMAIN Routes}
Endings == {"ok", "invalid", "unauthorized", "conflict", "refused", "failed", "notFound"}
Statuses == Endings \cup {"new", "running"}
RouteNames == DOMAIN Routes \cup {Nil}
RequestType ==
  [route : RouteNames, todo : Seq(AnyStep), end : Statuses, tries : Nat, answer : Contents, loaded : Contents]
CopyIs(c) == c = [value |-> c.value, edits |-> c.edits] /\ c.value \in [Parts -> Contents]

WorkspaceTypes ==
  /\ request \in [Requests -> RequestType]
  /\ CopyIs(copy) /\ CopyIs(revision)
  /\ rows \in [RowNames -> Contents]
  /\ sessions \subseteq Requests /\ before \in [Requests -> SUBSET Requests]
  /\ \A call \in late : call[1] \in Requests
  /\ \A package \in packages : package.by \in Requests

Route(r) == Routes[request[r].route]
Taken(r) == Len(Route(r)) - Len(request[r].todo)
OnRoute ==
  \A r \in Requests :
    /\ request[r].end # "new" => request[r].route \in DOMAIN Routes
    /\ Running(r) =>
         /\ Len(request[r].todo) \in 1..Len(Route(r))
         /\ \A i \in 1..Len(request[r].todo) : request[r].todo[i] = Route(r)[Taken(r) + i]

Stored == copy.edits \cup dropped
Committed == revision.edits \cup dropped
SavedStays ==
  /\ revision.edits \subseteq copy.edits
  /\ \A r \in Requests : Running(r) =>
       \A i \in 1..Taken(r) : Saves(Route(r)[i]) =>
         LET part == Methods[Route(r)[i].what].part IN part \in Beside \/ <<r, part>> \in Stored

\* Whoever was over when a request arrived is; only requests under way leave traces.
EarlierAreOver ==
  /\ \A r \in Requests : \A q \in before[r] : Over(q)
  /\ \A call \in late : request[call[1]].end # "new"
  /\ \A package \in packages : request[package.by].end # "new"

Covered(r, edits) == \A q \in before[r] : request[q].end = "ok" => KeptEdits(q) \subseteq edits
BuildsCovered ==
  \A r \in Requests : request[r].route = "build" /\
    (\/ Running(r) /\ Taken(r) = 1
     \/ \E call \in late : call[1] = r /\ Methods[call[2]].does = "build") => Covered(r, Committed)

AddersAreFirst == \A r \in Requests : Does(r, "add") => before[r] \cap sessions = {}

\* Rows a request nobody has overtaken has refreshed, and what it is about to write.
Current(r) == Running(r) /\ r \notin disturbed
RowsAreFresh ==
  \A r \in Requests : Current(r) /\ rows.problem # Nil =>
    \A table \in Refreshed(Route(r)) \ Refreshed(request[r].todo) : rows[table] = copy.value[table]
AnswersAreFresh ==
  \A r \in Requests : Current(r) /\ What(r) # "problem" =>
    /\ Does(r, "load") \/ Does(r, "flush") => request[r].answer = copy.value[What(r)]
    /\ Does(r, "flush") => request[r].loaded = rows[What(r)]

WorkspaceInv ==
  /\ WorkspaceTypes /\ OnRoute /\ SavedStays /\ AnsweredIsDone /\ EarlierAreOver /\ BuildsCovered
  /\ BuiltHoldsTheSaved /\ AddersAreFirst /\ RowsAreFresh /\ AnswersAreFresh
-----------------------------------------------------------------------------
(* The tables. *)
LEMMA TogetherIs ==
  ASSUME NEW tables, NEW t \in tables, NEW x \in DOMAIN t, \A u \in tables : x \in DOMAIN u => u = t
  PROVE  x \in DOMAIN Together(tables) /\ Together(tables)[x] = t[x]
  <1>1. (CHOOSE u \in tables : x \in DOMAIN u) = t
    BY Zenon
  <1>2. QED
    BY <1>1 DEF Together

LEMMA TogetherOf ==
  ASSUME NEW tables, NEW x \in DOMAIN Together(tables)
  PROVE  \E t \in tables : x \in DOMAIN t /\ Together(tables)[x] = t[x]
  <1>1. PICK t \in tables : x \in DOMAIN t
    BY DEF Together
  <1>2. (CHOOSE u \in tables : x \in DOMAIN u) \in {u \in tables : x \in DOMAIN u}
    BY <1>1
  <1>3. QED
    BY <1>2 DEF Together

\* The methods that decide something below.
LEMMA MethodsUsed ==
  /\ Methods["get_info"] = Reads("info") /\ Methods["update_info"].does = "write"
  /\ Methods["update_info"].part = "info" /\ "update_info" \in DOMAIN Methods
  /\ Methods["get_statements"] = Reads("statements") /\ Methods["save_statement"].does = "write"
  /\ Methods["save_statement"].part = "statements" /\ "save_statement" \in DOMAIN Methods
  /\ Methods["get_solutions"] = Reads("solutions") /\ Methods["save_solution"].does = "write"
  /\ Methods["save_solution"].part = "solutions" /\ "save_solution" \in DOMAIN Methods
  /\ Methods["list_problems"].does = "list"
  /\ Methods["commit_changes"].does = "commit" /\ Methods["build_package"].does = "build"
  <1> DEFINE Used == {"get_info", "update_info", "get_statements", "save_statement", "get_solutions",
                      "save_solution", "list_problems", "commit_changes", "build_package"}
             Tables == {ProblemMethods, InfoMethods, StatementMethods, FileMethods, SolutionMethods,
                        CheckingMethods, TestsetMethods, GroupMethods, IssueMethods, MaterialMethods,
                        WorkingCopyMethods, PackageMethods}
  <1>1. /\ Used \cap DOMAIN ProblemMethods = {"list_problems"}
        /\ Used \cap DOMAIN InfoMethods = {"get_info", "update_info"}
        /\ Used \cap DOMAIN StatementMethods = {"get_statements", "save_statement"}
        /\ Used \cap DOMAIN SolutionMethods = {"get_solutions", "save_solution"}
        /\ Used \cap DOMAIN WorkingCopyMethods = {"commit_changes"}
        /\ Used \cap DOMAIN PackageMethods = {"build_package"}
    BY DEF ProblemMethods, InfoMethods, StatementMethods, SolutionMethods, WorkingCopyMethods, PackageMethods
  <1>2. \A t \in {FileMethods, CheckingMethods, TestsetMethods, GroupMethods, IssueMethods, MaterialMethods} :
          Used \cap DOMAIN t = {}
    BY DEF FileMethods, CheckingMethods, TestsetMethods, GroupMethods, IssueMethods, MaterialMethods
  <1>3. /\ ProblemMethods["list_problems"].does = "list"
        /\ InfoMethods["get_info"] = Reads("info")
        /\ InfoMethods["update_info"].does = "write" /\ InfoMethods["update_info"].part = "info"
        /\ StatementMethods["get_statements"] = Reads("statements")
        /\ StatementMethods["save_statement"].does = "write"
        /\ StatementMethods["save_statement"].part = "statements"
        /\ SolutionMethods["get_solutions"] = Reads("solutions")
        /\ SolutionMethods["save_solution"].does = "write"
        /\ SolutionMethods["save_solution"].part = "solutions"
        /\ WorkingCopyMethods["commit_changes"].does = "commit"
        /\ PackageMethods["build_package"].does = "build"
    BY DEF ProblemMethods, InfoMethods, StatementMethods, SolutionMethods, WorkingCopyMethods, PackageMethods,
       Method, Reads, Writes, Checked
  <1>4. ASSUME NEW t \in Tables, NEW x \in Used \cap DOMAIN t
        PROVE  x \in DOMAIN Methods /\ Methods[x] = t[x]
    <2>1. \A u \in Tables : x \in DOMAIN u => u = t
      BY <1>1, <1>2
    <2>2. Methods = Together(Tables)
      BY DEF Methods
    <2> HIDE DEF Tables, Used
    <2>3. x \in DOMAIN Together(Tables) /\ Together(Tables)[x] = t[x]
      BY <1>4, <2>1, TogetherIs
    <2>4. QED
      BY <2>2, <2>3
  <1>5. /\ ProblemMethods \in Tables /\ InfoMethods \in Tables /\ StatementMethods \in Tables
        /\ SolutionMethods \in Tables /\ WorkingCopyMethods \in Tables /\ PackageMethods \in Tables
    OBVIOUS
  <1> HIDE DEF Tables
  <1>6. /\ Methods["get_info"] = InfoMethods["get_info"]
        /\ Methods["update_info"] = InfoMethods["update_info"] /\ "update_info" \in DOMAIN Methods
        /\ Methods["get_statements"] = StatementMethods["get_statements"]
        /\ Methods["save_statement"] = StatementMethods["save_statement"] /\ "save_statement" \in DOMAIN Methods
        /\ Methods["get_solutions"] = SolutionMethods["get_solutions"]
        /\ Methods["save_solution"] = SolutionMethods["save_solution"] /\ "save_solution" \in DOMAIN Methods
        /\ Methods["list_problems"] = ProblemMethods["list_problems"]
        /\ Methods["commit_changes"] = WorkingCopyMethods["commit_changes"]
        /\ Methods["build_package"] = PackageMethods["build_package"]
    BY <1>1, <1>4, <1>5
  <1>7. QED
    BY <1>3, <1>6

LEMMA RowsAreParts == {"info", "statements", "solutions"} \subseteq Parts
  BY MethodsUsed DEF Parts

-----------------------------------------------------------------------------
(* The routes. *)
\* The steps about which a route's shape says nothing.
Loose(step) == step.does \notin {"load", "flush", "add", "peek", "find"}
LEMMA CallIs ==
  ASSUME NEW method
  PROVE  Call(method).does = "call" /\ Call(method).what = method /\ Loose(Call(method))
  BY DEF Call, RouteStep, Loose

LEMMA OneIsShaped ==
  ASSUME NEW a, Loose(a)
  PROVE  Shaped(<<a>>)
  <1> DEFINE s == <<a>>
  <1>1. s \in Seq({a}) /\ s # <<>> /\ DOMAIN s = 1..1 /\ s[1] = a
    OBVIOUS
  <1> HIDE DEF s
  <1>2. Members(s) = {a}
    BY <1>1 DEF Members
  <1>3. QED
    BY <1>1, <1>2 DEF Shaped, Shape, Loose, s

LEMMA TwoAreShaped ==
  ASSUME NEW a, NEW b, Loose(a), Loose(b)
  PROVE  Shaped(<<a, b>>)
  <1> DEFINE s == <<a, b>>
  <1>1. s \in Seq({a, b}) /\ s # <<>> /\ DOMAIN s = 1..2 /\ s[1] = a /\ s[2] = b
    OBVIOUS
  <1> HIDE DEF s
  <1>2. Members(s) = {a, b}
    BY <1>1 DEF Members
  <1>3. QED
    BY <1>1, <1>2 DEF Shaped, Shape, Loose, s

LEMMA ThreeAreShaped ==
  ASSUME NEW a, NEW b, NEW c, Loose(a), Loose(b), Loose(c)
  PROVE  Shaped(<<a, b, c>>)
  <1> DEFINE s == <<a, b, c>>
  <1>1. s \in Seq({a, b, c}) /\ s # <<>> /\ DOMAIN s = 1..3 /\ s[1] = a /\ s[2] = b /\ s[3] = c
    OBVIOUS
  <1> HIDE DEF s
  <1>2. Members(s) = {a, b, c}
    BY <1>1 DEF Members
  <1>3. QED
    BY <1>1, <1>2 DEF Shaped, Shape, Loose, s

\* A refresh, alone or after calls, or after a look at the rows.
Loads(table) == RouteStep("load", table, FALSE)
Flushes(table) == RouteStep("flush", table, FALSE)
LEMMA RefreshIs ==
  ASSUME NEW method, NEW table
  PROVE  /\ Refresh(method, table) = <<Call(method), Loads(table), Flushes(table)>>
         /\ Loads(table).does = "load" /\ Loads(table).what = table
         /\ Flushes(table).does = "flush" /\ Flushes(table).what = table
  BY DEF Refresh, Loads, Flushes, RouteStep

LEMMA RefreshIsShaped ==
  ASSUME NEW method, NEW table \in RowNames, Tells(Call(method), table)
  PROVE  Shaped(Refresh(method, table))
  <1> DEFINE c == Call(method)
             l == Loads(table)
             f == Flushes(table)
             s == <<c, l, f>>
  <1>1. /\ c.does = "call" /\ c.what = method /\ Tells(c, table)
        /\ l.does = "load" /\ l.what = table /\ f.does = "flush" /\ f.what = table
        /\ Refresh(method, table) = s
    BY CallIs, RefreshIs
  <1> HIDE DEF c, l, f
  <1>2. s \in Seq({c, l, f}) /\ s # <<>> /\ DOMAIN s = 1..3 /\ Len(s) = 3 /\ s[1] = c /\ s[2] = l /\ s[3] = f
    OBVIOUS
  <1> HIDE DEF s
  <1>3. Members(s) = {c, l, f}
    BY <1>2 DEF Members
  <1>4. Shape(s)
    BY <1>1, <1>2 DEF Shape, Tells
  <1>5. QED
    BY <1>1, <1>2, <1>3, <1>4 DEF Shaped

LEMMA CallThenRefresh ==
  ASSUME NEW a, Loose(a), NEW method, NEW table \in RowNames, Tells(Call(method), table)
  PROVE  Shaped(<<a>> \o Refresh(method, table))
  <1> DEFINE c == Call(method)
             l == Loads(table)
             f == Flushes(table)
             s == <<a>> \o <<c, l, f>>
  <1>1. /\ c.does = "call" /\ c.what = method /\ Tells(c, table)
        /\ l.does = "load" /\ l.what = table /\ f.does = "flush" /\ f.what = table
        /\ <<a>> \o Refresh(method, table) = s
    <2>1. <<a>> \o Refresh(method, table) = s
      BY DEF Refresh, Loads, Flushes
    <2>2. QED
      BY <2>1, CallIs, RefreshIs
  <1> HIDE DEF c, l, f
  <1>2. /\ s \in Seq({a, c, l, f}) /\ s # <<>> /\ DOMAIN s = 1..4 /\ Len(s) = 4
        /\ s[1] = a /\ s[2] = c /\ s[3] = l /\ s[4] = f
    OBVIOUS
  <1> HIDE DEF s
  <1>3. Members(s) = {a, c, l, f}
    BY <1>2 DEF Members
  <1>4. Shape(s)
    BY <1>1, <1>2 DEF Shape, Tells, Loose
  <1>5. QED
    BY <1>1, <1>2, <1>3, <1>4 DEF Shaped

LEMMA PeekThenRefresh ==
  ASSUME NEW method, NEW table \in RowNames, Tells(Call(method), table), Methods[method].does # "write"
  PROVE  Shaped(Cached(table) \o Refresh(method, table))
  <1> DEFINE a == RouteStep("peek", table, FALSE)
             c == Call(method)
             l == Loads(table)
             f == Flushes(table)
             s == <<a>> \o <<c, l, f>>
  <1>1. /\ c.does = "call" /\ c.what = method /\ Tells(c, table) /\ a.does = "peek"
        /\ l.does = "load" /\ l.what = table /\ f.does = "flush" /\ f.what = table
        /\ Cached(table) \o Refresh(method, table) = s
    <2>1. Cached(table) \o Refresh(method, table) = s
      BY DEF Cached, Refresh, Loads, Flushes
    <2>2. a.does = "peek"
      BY DEF RouteStep
    <2>3. QED
      BY <2>1, <2>2, CallIs, RefreshIs
  <1> HIDE DEF a, c, l, f
  <1>2. /\ s \in Seq({a, c, l, f}) /\ s # <<>> /\ DOMAIN s = 1..4 /\ Len(s) = 4
        /\ s[1] = a /\ s[2] = c /\ s[3] = l /\ s[4] = f
    OBVIOUS
  <1> HIDE DEF s
  <1>3. Members(s) = {a, c, l, f}
    BY <1>2 DEF Members
  <1>4. Shape(s)
    BY <1>1, <1>2 DEF Shape, Tells, Saves
  <1>5. QED
    BY <1>1, <1>2, <1>3, <1>4 DEF Shaped

LEMMA DetailIsShaped == Shaped(Cached("problem") \o RefreshList \o Found)
  <1> DEFINE a == RouteStep("peek", "problem", FALSE)
             c == Call("list_problems")
             l == Loads("problem")
             f == Flushes("problem")
             e == RouteStep("found", "problem", FALSE)
             s == <<a>> \o <<c, l, f>> \o <<e>>
  <1>1. /\ c.does = "call" /\ c.what = "list_problems" /\ a.does = "peek" /\ e.does = "found"
        /\ l.does = "load" /\ l.what = "problem" /\ f.does = "flush" /\ f.what = "problem"
        /\ Cached("problem") \o RefreshList \o Found = s
    <2>1. Cached("problem") \o RefreshList \o Found = s
      BY DEF Cached, Found, RefreshList, Refresh, Loads, Flushes
    <2>2. a.does = "peek" /\ e.does = "found"
      BY DEF RouteStep
    <2>3. QED
      BY <2>1, <2>2, CallIs, RefreshIs
  <1> HIDE DEF a, c, l, f, e
  <1>2. /\ s \in Seq({a, c, l, f, e}) /\ s # <<>> /\ DOMAIN s = 1..5 /\ Len(s) = 5
        /\ s[1] = a /\ s[2] = c /\ s[3] = l /\ s[4] = f /\ s[5] = e
    OBVIOUS
  <1> HIDE DEF s
  <1>3. Members(s) = {a, c, l, f, e}
    BY <1>2 DEF Members
  <1>4. Shape(s)
    BY <1>1, <1>2, MethodsUsed, SMTT(30) DEF Shape, Tells, Saves, RowNames
  <1>5. QED
    BY <1>1, <1>2, <1>3, <1>4 DEF Shaped

\* The calls of the refreshes tell what they are for.
LEMMA RefreshesTell ==
  /\ Tells(Call("list_problems"), "problem") /\ Tells(Call("get_info"), "info")
  /\ Tells(Call("get_statements"), "statements") /\ Tells(Call("get_solutions"), "solutions")
  /\ Methods["list_problems"].does # "write" /\ Methods["get_info"].does # "write"
  /\ Methods["get_statements"].does # "write"
  BY CallIs, MethodsUsed, RowsAreParts DEF Tells, Reads, Method

LEMMA SyncIsShaped == Shaped(RefreshInfo \o RefreshStatements)
  <1> DEFINE a == Call("get_info")
             b == Loads("info")
             c == Flushes("info")
             d == Call("get_statements")
             e == Loads("statements")
             f == Flushes("statements")
             s == <<a, b, c>> \o <<d, e, f>>
  <1>1. /\ a.does = "call" /\ a.what = "get_info" /\ d.does = "call" /\ d.what = "get_statements"
        /\ b.does = "load" /\ b.what = "info" /\ c.does = "flush" /\ c.what = "info"
        /\ e.does = "load" /\ e.what = "statements" /\ f.does = "flush" /\ f.what = "statements"
        /\ RefreshInfo \o RefreshStatements = s
        /\ Tells(a, "info") /\ Tells(d, "statements")
    <2>1. RefreshInfo \o RefreshStatements = s
      BY DEF RefreshInfo, RefreshStatements, Refresh, Loads, Flushes
    <2>2. QED
      BY <2>1, CallIs, RefreshIs, RefreshesTell
  <1> HIDE DEF a, b, c, d, e, f
  <1>2. /\ s \in Seq({a, b, c, d, e, f}) /\ s # <<>> /\ DOMAIN s = 1..6 /\ Len(s) = 6
        /\ s[1] = a /\ s[2] = b /\ s[3] = c /\ s[4] = d /\ s[5] = e /\ s[6] = f
    OBVIOUS
  <1> HIDE DEF s
  <1>3. Members(s) = {a, b, c, d, e, f}
    BY <1>2 DEF Members
  <1>4. Shape(s)
    BY <1>1, <1>2, SMTT(30) DEF Shape, RowNames, Tells
  <1>5. QED
    BY <1>1, <1>2, <1>3, <1>4 DEF Shaped

LEMMA OpenedIsShaped == Shaped(Opened)
  <1> DEFINE a == RouteStep("find", "session", FALSE)
             b == RouteStep("add", "session", FALSE)
             s == <<a, b>>
  <1>1. a.does = "find" /\ b.does = "add" /\ Opened = s
    <2>1. Opened = s
      BY DEF Opened
    <2>2. QED
      BY <2>1 DEF RouteStep
  <1> HIDE DEF a, b
  <1>2. s \in Seq({a, b}) /\ s # <<>> /\ DOMAIN s = 1..2 /\ s[1] = a /\ s[2] = b
    OBVIOUS
  <1> HIDE DEF s
  <1>3. Members(s) = {a, b}
    BY <1>2 DEF Members
  <1>4. QED
    BY <1>1, <1>2, <1>3 DEF Shaped, Shape, Saves

\* Most routes are a call or two.
LEMMA CallIsShaped == \A method : Shaped(<<Call(method)>>)
  BY OneIsShaped, CallIs

LEMMA UploadIsShaped == \A method : Shaped(Upload(method))
  <1> TAKE method
  <1>1. Loose(RouteStep("call", "save_file", FALSE)) /\ Loose(Call(method))
    BY CallIs DEF Loose, RouteStep
  <1>2. QED
    BY <1>1, TwoAreShaped DEF Upload

\* Every route of a table is shaped; "build" is looked at on its own.
Sound(table) == \A x \in DOMAIN table : Shaped(table[x])
LEMMA CallRoutesAreSound ==
  /\ Sound(CreateRoutes) /\ Sound(InteractorRoutes) /\ Sound(SettingsRoutes) /\ Sound(MetaRoutes)
  /\ Sound(TagRoutes) /\ Sound(IssueRoutes) /\ Sound(MaterialRoutes) /\ Sound(WorkingCopyRoutes)
  /\ Sound(ContestRoutes) /\ Sound(CheckerRoutes)
  <1>1. Sound(CreateRoutes)
    BY CallIsShaped DEF Sound, CreateRoutes
  <1>2. Sound(InteractorRoutes)
    BY CallIsShaped, UploadIsShaped DEF Sound, InteractorRoutes
  <1>3. Sound(SettingsRoutes)
    BY CallIsShaped DEF Sound, SettingsRoutes
  <1>4. Sound(MetaRoutes)
    BY CallIsShaped DEF Sound, MetaRoutes
  <1>5. Sound(TagRoutes)
    BY CallIsShaped DEF Sound, TagRoutes
  <1>6. Sound(IssueRoutes)
    BY CallIsShaped DEF Sound, IssueRoutes
  <1>7. Sound(MaterialRoutes)
    BY CallIsShaped DEF Sound, MaterialRoutes
  <1>8. Sound(WorkingCopyRoutes)
    BY CallIsShaped DEF Sound, WorkingCopyRoutes
  <1>9. Sound(ContestRoutes)
    BY CallIsShaped DEF Sound, ContestRoutes
  <1>10. Sound(CheckerRoutes)
    BY CallIsShaped, UploadIsShaped DEF Sound, CheckerRoutes
  <1>11. QED
    BY <1>1, <1>2, <1>3, <1>4, <1>5, <1>6, <1>7, <1>8, <1>9, <1>10

LEMMA MixedRoutesAreSound ==
  /\ Sound(ListRoutes) /\ Sound(DetailRoutes) /\ Sound(InfoRoutes) /\ Sound(StatementRoutes)
  /\ Sound(FileRoutes) /\ Sound(TestRoutes) /\ Sound(PackageRoutes) /\ Sound(SessionRoutes)
  /\ Sound(AccountRoutes)
  <1>1. Sound(ListRoutes)
    <2> DEFINE a == RefreshList
               b == <<RouteStep("show", "problem", FALSE)>>
    <2>1. Shaped(a)
      BY RefreshIsShaped, RefreshesTell DEF RefreshList, RowNames
    <2>2. Loose(RouteStep("show", "problem", FALSE))
      BY DEF Loose, RouteStep
    <2>3. Shaped(b)
      BY <2>2, OneIsShaped
    <2>4. ListRoutes = [list |-> a, list_cached |-> b]
      BY DEF ListRoutes
    <2> HIDE DEF a, b
    <2>5. QED
      BY <2>1, <2>2, <2>3, <2>4, CallIsShaped DEF Sound
  <1>2. Sound(DetailRoutes)
    <2> DEFINE a == Cached("problem") \o RefreshList \o Found
               b == RefreshInfo \o RefreshStatements
    <2>1. Shaped(a) /\ Shaped(b)
      BY DetailIsShaped, SyncIsShaped
    <2>2. DetailRoutes = [detail |-> a, sync |-> b]
      BY DEF DetailRoutes
    <2> HIDE DEF a, b
    <2>3. QED
      BY <2>1, <2>2, CallIsShaped DEF Sound
  <1>3. Sound(InfoRoutes)
    <2> DEFINE a == Cached("info") \o RefreshInfo
               b == RefreshInfo
               c == <<Call("update_info")>> \o RefreshInfo
    <2>1. "info" \in RowNames
      BY DEF RowNames
    <2>2. Shaped(a)
      BY <2>1, PeekThenRefresh, RefreshesTell DEF RefreshInfo
    <2>3. Shaped(b)
      BY <2>1, RefreshIsShaped, RefreshesTell DEF RefreshInfo
    <2>4. Shaped(c)
      BY <2>1, CallIs, CallThenRefresh, RefreshesTell DEF RefreshInfo
    <2>5. InfoRoutes = [info |-> a, info_refreshed |-> b, update_info |-> c]
      BY DEF InfoRoutes
    <2> HIDE DEF a, b, c
    <2>6. QED
      BY <2>1, <2>2, <2>3, <2>4, <2>5, CallIsShaped DEF Sound
  <1>4. Sound(StatementRoutes)
    <2> DEFINE a == Cached("statements") \o RefreshStatements
               b == RefreshStatements
               c == <<Call("save_statement")>> \o RefreshStatements
    <2>1. "statements" \in RowNames
      BY DEF RowNames
    <2>2. Shaped(a)
      BY <2>1, PeekThenRefresh, RefreshesTell DEF RefreshStatements
    <2>3. Shaped(b)
      BY <2>1, RefreshIsShaped, RefreshesTell DEF RefreshStatements
    <2>4. Shaped(c)
      BY <2>1, CallIs, CallThenRefresh, RefreshesTell DEF RefreshStatements
    <2>5. StatementRoutes = [statements |-> a, statements_refreshed |-> b, save_statement |-> c,
              render |-> <<Call("render_statements")>>, resources |-> <<Call("get_statement_resources")>>,
              view_resource |-> <<Call("view_statement_resource")>>,
              save_resource |-> <<Call("save_statement_resource")>>]
      BY DEF StatementRoutes
    <2> HIDE DEF a, b, c
    <2>6. QED
      BY <2>1, <2>2, <2>3, <2>4, <2>5, CallIsShaped DEF Sound
  <1>5. Sound(FileRoutes)
    <2> DEFINE a == <<Call("get_files")>> \o RefreshSolutions
    <2>1. "solutions" \in RowNames
      BY DEF RowNames
    <2>2. Shaped(a)
      BY <2>1, CallIs, CallThenRefresh, RefreshesTell DEF RefreshSolutions
    <2>3. FileRoutes = [files |-> a, view_file |-> <<Call("view_file")>>, save_file |-> <<Call("save_file")>>,
              view_solution |-> <<Call("view_solution")>>, save_solution |-> <<Call("save_solution")>>,
              extra_tags |-> <<Call("edit_solution_extra_tags")>>]
      BY DEF FileRoutes
    <2> HIDE DEF a
    <2>4. QED
      BY <2>1, <2>2, <2>3, CallIsShaped DEF Sound
  <1>6. Sound(TestRoutes)
    <2> DEFINE a == <<Call("get_test_input"), Call("get_test_answer")>>
               b == <<RouteStep("call", "save_test", FALSE)>>
    <2>1. Shaped(a)
      BY CallIs, TwoAreShaped
    <2>2. Loose(RouteStep("call", "save_test", FALSE))
      BY DEF Loose, RouteStep
    <2>3. Shaped(b)
      BY <2>2, OneIsShaped
    <2>4. TestRoutes = [tests |-> <<Call("get_tests")>>, preview_tests |-> <<Call("preview_tests")>>,
              save_test |-> <<Call("save_test")>>, delete_tests |-> <<Call("delete_tests")>>,
              set_test_group |-> <<Call("set_test_group")>>, test_input |-> <<Call("get_test_input")>>,
              test_preview |-> a, test_answer |-> <<Call("get_test_answer")>>, replace_test |-> b]
      BY DEF TestRoutes
    <2> HIDE DEF a, b
    <2>5. QED
      BY <2>1, <2>2, <2>3, <2>4, CallIsShaped DEF Sound
  <1>7. Sound(PackageRoutes)
    <2>1. Shaped(<<Call("commit_changes"), Call("build_package")>>)
      BY CallIs, TwoAreShaped
    <2>2. QED
      BY <2>1, CallIsShaped DEF Sound, PackageRoutes
  <1>8. Sound(SessionRoutes)
    BY OpenedIsShaped DEF Sound, SessionRoutes
  <1>9. Sound(AccountRoutes)
    <2> DEFINE a == RouteStep("user", "keys", FALSE)
               b == RouteStep("probe", "keys", FALSE)
               c == RouteStep("keep", "keys", FALSE)
               d == RouteStep("drop", "keys", FALSE)
    <2>1. Loose(a) /\ Loose(b) /\ Loose(c) /\ Loose(d)
      BY DEF Loose, RouteStep
    <2>2. Shaped(<<a, b, c>>) /\ Shaped(<<a, d>>)
      BY <2>1, TwoAreShaped, ThreeAreShaped
    <2>3. AccountRoutes = [link |-> <<a, b, c>>, unlink |-> <<a, d>>]
      BY DEF AccountRoutes
    <2> HIDE DEF a, b, c, d
    <2>4. QED
      BY <2>1, <2>2, <2>3, CallIsShaped DEF Sound
  <1>10. QED
    BY <1>1, <1>2, <1>3, <1>4, <1>5, <1>6, <1>7, <1>8, <1>9

LEMMA RoutesAreShaped == \A x \in DOMAIN Routes : Shaped(Routes[x])
  <1> DEFINE Tables == {ListRoutes, DetailRoutes, CreateRoutes, InfoRoutes, StatementRoutes, FileRoutes,
                        CheckerRoutes, InteractorRoutes, TestRoutes, SettingsRoutes, MetaRoutes, TagRoutes,
                        IssueRoutes, MaterialRoutes, WorkingCopyRoutes, PackageRoutes, ContestRoutes,
                        SessionRoutes, AccountRoutes}
  <1>1. Routes = Together(Tables)
    BY DEF Routes
  <1>2. \A t \in Tables : Sound(t)
    BY CallRoutesAreSound, MixedRoutesAreSound
  <1> HIDE DEF Tables
  <1>3. QED
    BY <1>1, <1>2, TogetherOf DEF Sound

LEMMA OneTableBuilds ==
  /\ "build" \notin DOMAIN ListRoutes /\ "build" \notin DOMAIN DetailRoutes /\ "build" \notin DOMAIN CreateRoutes
  /\ "build" \notin DOMAIN InfoRoutes /\ "build" \notin DOMAIN StatementRoutes /\ "build" \notin DOMAIN FileRoutes
  /\ "build" \notin DOMAIN CheckerRoutes /\ "build" \notin DOMAIN InteractorRoutes
  /\ "build" \notin DOMAIN TestRoutes /\ "build" \notin DOMAIN SettingsRoutes /\ "build" \notin DOMAIN MetaRoutes
  /\ "build" \notin DOMAIN TagRoutes /\ "build" \notin DOMAIN IssueRoutes /\ "build" \notin DOMAIN MaterialRoutes
  /\ "build" \notin DOMAIN WorkingCopyRoutes /\ "build" \notin DOMAIN ContestRoutes
  /\ "build" \notin DOMAIN SessionRoutes /\ "build" \notin DOMAIN AccountRoutes
  <1>1. /\ DOMAIN ListRoutes = {"list", "list_cached"} /\ DOMAIN DetailRoutes = {"detail", "sync"}
        /\ DOMAIN InfoRoutes = {"info", "info_refreshed", "update_info"}
        /\ DOMAIN StatementRoutes = {"statements", "statements_refreshed", "save_statement", "render", "resources",
                                     "view_resource", "save_resource"}
        /\ DOMAIN FileRoutes = {"files", "view_file", "save_file", "view_solution", "save_solution", "extra_tags"}
    BY Zenon DEF ListRoutes, DetailRoutes, InfoRoutes, StatementRoutes, FileRoutes
  <1>2. /\ "build" \notin DOMAIN CreateRoutes /\ "build" \notin DOMAIN CheckerRoutes
        /\ "build" \notin DOMAIN InteractorRoutes /\ "build" \notin DOMAIN SettingsRoutes
        /\ "build" \notin DOMAIN MetaRoutes /\ "build" \notin DOMAIN TagRoutes
        /\ "build" \notin DOMAIN IssueRoutes /\ "build" \notin DOMAIN MaterialRoutes
        /\ "build" \notin DOMAIN WorkingCopyRoutes /\ "build" \notin DOMAIN ContestRoutes
        /\ "build" \notin DOMAIN SessionRoutes
    BY DEF CreateRoutes, CheckerRoutes, InteractorRoutes, SettingsRoutes, MetaRoutes, TagRoutes, IssueRoutes,
       MaterialRoutes, WorkingCopyRoutes, ContestRoutes, SessionRoutes
  <1>3. DOMAIN AccountRoutes = {"link", "unlink"}
    BY Zenon DEF AccountRoutes
  <1>4. DOMAIN TestRoutes = {"tests", "preview_tests", "save_test", "delete_tests", "set_test_group", "test_input",
                             "test_preview", "test_answer", "replace_test"}
    BY Zenon DEF TestRoutes
  <1>5. QED
    BY <1>1, <1>2, <1>3, <1>4

LEMMA BuildRouteIs == Routes["build"] = <<Call("commit_changes"), Call("build_package")>>
  <1> DEFINE Tables == {ListRoutes, DetailRoutes, CreateRoutes, InfoRoutes, StatementRoutes, FileRoutes,
                        CheckerRoutes, InteractorRoutes, TestRoutes, SettingsRoutes, MetaRoutes, TagRoutes,
                        IssueRoutes, MaterialRoutes, WorkingCopyRoutes, PackageRoutes, ContestRoutes,
                        SessionRoutes, AccountRoutes}
  <1>1. Routes = Together(Tables) /\ PackageRoutes \in Tables
    BY DEF Routes
  <1>2. \A t \in Tables : "build" \in DOMAIN t => t = PackageRoutes
    BY OneTableBuilds
  <1>3. /\ "build" \in DOMAIN PackageRoutes
        /\ PackageRoutes["build"] = <<Call("commit_changes"), Call("build_package")>>
    BY DEF PackageRoutes
  <1> HIDE DEF Tables
  <1>4. QED
    BY <1>1, <1>2, <1>3, TogetherIs

-----------------------------------------------------------------------------
(* How a request moves on. *)
LEMMA RouteIs ==
  ASSUME NEW x \in DOMAIN Routes
  PROVE  /\ Shape(Routes[x]) /\ Routes[x] # <<>> /\ Routes[x] \in Seq(AnyStep)
         /\ Len(Routes[x]) \in Nat \ {0} /\ DOMAIN Routes[x] = 1..Len(Routes[x])
  <1>1. Shaped(Routes[x])
    BY RoutesAreShaped
  <1> DEFINE s == Routes[x]
  <1>2. Members(s) \subseteq AnyStep
    BY DEF AnyStep
  <1> HIDE DEF s
  <1>3. s \in Seq(Members(s)) /\ s # <<>> /\ Shape(s)
    BY <1>1 DEF Shaped, s
  <1>4. s \in Seq(AnyStep)
    BY <1>2, <1>3
  <1>5. QED
    BY <1>3, <1>4 DEF s

LEMMA TodoIs ==
  ASSUME WorkspaceTypes, OnRoute, NEW r \in Requests, Running(r)
  PROVE  /\ request[r].todo \in Seq(AnyStep) /\ Len(request[r].todo) \in Nat \ {0}
         /\ Taken(r) \in Nat /\ Taken(r) + Len(request[r].todo) = Len(Route(r))
         /\ DOMAIN Route(r) = 1..Len(Route(r)) /\ Len(Route(r)) \in Nat
         /\ Shape(Route(r)) /\ request[r].route \in DOMAIN Routes
         /\ Taken(r) + 1 \in DOMAIN Route(r) /\ Head(request[r].todo) = Route(r)[Taken(r) + 1]
  <1>1. request[r].route \in DOMAIN Routes /\ request[r].todo \in Seq(AnyStep)
    BY DEF OnRoute, Running, WorkspaceTypes, RequestType
  <1>2. /\ Len(request[r].todo) \in 1..Len(Route(r))
        /\ \A i \in 1..Len(request[r].todo) : request[r].todo[i] = Route(r)[Taken(r) + i]
    BY DEF OnRoute
  <1>3. /\ Shape(Route(r)) /\ Len(Route(r)) \in Nat \ {0} /\ DOMAIN Route(r) = 1..Len(Route(r))
    BY <1>1, RouteIs DEF Route
  <1>4. Head(request[r].todo) = request[r].todo[1] /\ 1 \in 1..Len(request[r].todo)
    BY <1>1, <1>2, <1>3
  <1>5. Taken(r) \in Nat /\ Taken(r) + Len(request[r].todo) = Len(Route(r)) /\ Taken(r) + 1 \in 1..Len(Route(r))
    BY <1>2, <1>3 DEF Taken
  <1>6. QED
    BY <1>1, <1>2, <1>3, <1>4, <1>5

LEMMA NoRequestIs == NoRequest \in RequestType
  <1>1. Nil \in RouteNames /\ "new" \in Statuses /\ Nil \in Contents /\ <<>> \in Seq(AnyStep)
    BY DEF RouteNames, Statuses, Contents
  <1>2. QED
    BY <1>1 DEF NoRequest, RequestType

WithTodo(q, todo) == [q EXCEPT !.todo = todo, !.tries = 0]
LEMMA WithTodoIs ==
  ASSUME NEW q \in RequestType, NEW todo \in Seq(AnyStep), NEW x, x = WithTodo(q, todo)
  PROVE  /\ x \in RequestType /\ x.todo = todo /\ x.route = q.route /\ x.end = q.end
         /\ x.answer = q.answer /\ x.loaded = q.loaded
  <1> DEFINE Todos == Seq(AnyStep)
  <1>1. RequestType = [route : RouteNames, todo : Todos, end : Statuses, tries : Nat,
                       answer : Contents, loaded : Contents]
    BY DEF RequestType
  <1>2. todo \in Todos /\ 0 \in Nat
    OBVIOUS
  <1> HIDE DEF Todos
  <1>3. QED
    BY <1>1, <1>2 DEF WithTodo

\* What becomes of a request whose step, or two, is done.
Goes(r, n, answer, loaded) ==
  request' = [request EXCEPT ![r] = Passed([@ EXCEPT !.answer = answer, !.loaded = loaded], n)]
Shifted(r, n) ==
  /\ request'[r].route = request[r].route
  /\ Len(request[r].todo) <= n => request'[r].end = "ok"
  /\ Len(request[r].todo) > n =>
       /\ request'[r].end = "running" /\ Len(request'[r].todo) = Len(request[r].todo) - n
       /\ \A i \in 1..(Len(request[r].todo) - n) : request'[r].todo[i] = request[r].todo[i + n]
LEMMA GoesIs ==
  ASSUME WorkspaceTypes, OnRoute, NEW r \in Requests, Running(r), NEW n \in {1, 2},
         NEW answer \in Contents, NEW loaded \in Contents, Goes(r, n, answer, loaded)
  PROVE  /\ request' \in [Requests -> RequestType] /\ \A q \in Requests \ {r} : request'[q] = request[q]
         /\ Shifted(r, n)
         /\ request'[r].end = "running" => request'[r].answer = answer /\ request'[r].loaded = loaded
  <1> DEFINE todo == request[r].todo
             rest == SubSeq(todo, n + 1, Len(todo))
             q == [request[r] EXCEPT !.answer = answer, !.loaded = loaded]
  <1>1. todo \in Seq(AnyStep) /\ Len(todo) \in Nat \ {0} /\ request[r].route \in DOMAIN Routes
    BY TodoIs
  <1>2. request \in [Requests -> RequestType] /\ request[r] \in RequestType
    BY DEF WorkspaceTypes
  <1>3. q \in RequestType /\ q.todo = todo /\ q.route = request[r].route /\ q.end = "running"
        /\ q.answer = answer /\ q.loaded = loaded
    BY <1>2 DEF RequestType, Running
  <1>4. request'[r] = Passed(q, n) /\ \A p \in Requests \ {r} : request'[p] = request[p]
    BY <1>2 DEF Goes
  <1>5. rest \in Seq(AnyStep)
    BY <1>1
  <1>6. CASE Len(todo) <= n
    <2>1. rest = <<>>
      BY <1>1, <1>6
    <2>2. request'[r] = [NoRequest EXCEPT !.route = q.route, !.end = "ok"]
      BY <1>3, <1>4, <2>1 DEF Passed
    <2>3. request'[r].route = request[r].route /\ request'[r].end = "ok" /\ request'[r] \in RequestType
      <3>1. NoRequest \in RequestType /\ q.route \in RouteNames /\ "ok" \in Statuses
        BY <1>1, <1>3, NoRequestIs DEF RouteNames, Statuses, Endings
      <3>2. QED
        BY <1>3, <2>2, <3>1 DEF RequestType
    <2>4. request' = [request EXCEPT ![r] = request'[r]]
      BY <1>2, <1>4 DEF Goes
    <2>5. QED
      BY <1>1, <1>2, <1>4, <1>6, <2>3, <2>4 DEF Shifted
  <1>7. CASE Len(todo) > n
    <2>1. rest # <<>> /\ Len(rest) = Len(todo) - n /\ \A i \in 1..(Len(todo) - n) : rest[i] = todo[i + n]
      <3>1. Len(rest) = Len(todo) - n
        BY <1>1, <1>7
      <3>2. \A i \in 1..(Len(todo) - n) : rest[i] = todo[i + n]
        BY <1>1, <1>7
      <3>3. rest # <<>>
        <4> HIDE DEF rest
        <4>1. QED
          BY <1>1, <1>7, <3>1
      <3>4. QED
        BY <3>1, <3>2, <3>3
    <2>2. request'[r] = [q EXCEPT !.todo = rest, !.tries = 0]
      BY <1>3, <1>4, <2>1 DEF Passed
    <2> HIDE DEF rest, q
    <2>3. /\ request'[r] \in RequestType /\ request'[r].todo = rest /\ request'[r].route = request[r].route
          /\ request'[r].end = "running" /\ request'[r].answer = answer /\ request'[r].loaded = loaded
      <3>1. q \in RequestType /\ q.route = request[r].route /\ q.end = "running" /\ q.answer = answer /\ q.loaded = loaded
        BY <1>3
      <3>2. rest \in Seq(AnyStep)
        BY <1>5
      <3> DEFINE x == request'[r]
      <3>3. x = WithTodo(q, rest)
        BY <2>2 DEF WithTodo
      <3> HIDE DEF x
      <3>5. /\ x \in RequestType /\ x.todo = rest /\ x.route = q.route /\ x.end = q.end
            /\ x.answer = q.answer /\ x.loaded = q.loaded
        BY <3>1, <3>2, <3>3, WithTodoIs
      <3>4. QED
        BY <3>1, <3>5 DEF x
    <2>4. request' = [request EXCEPT ![r] = request'[r]]
      BY <1>2, <1>4 DEF Goes
    <2>5. QED
      BY <1>1, <1>2, <1>4, <1>7, <2>1, <2>3, <2>4 DEF Shifted
  <1>8. QED
    BY <1>1, <1>6, <1>7

LEMMA PassesGoes ==
  ASSUME WorkspaceTypes, NEW r \in Requests, NEW n, Passes(r, n)
  PROVE  /\ Goes(r, n, request[r].answer, request[r].loaded)
         /\ request[r].answer \in Contents /\ request[r].loaded \in Contents
  <1>1. request[r] \in RequestType
    BY DEF WorkspaceTypes
  <1>2. [request[r] EXCEPT !.answer = request[r].answer, !.loaded = request[r].loaded] = request[r]
    BY <1>1 DEF RequestType
  <1>3. QED
    BY <1>1, <1>2 DEF Goes, Passes, RequestType

LEMMA EndsIs ==
  ASSUME WorkspaceTypes, OnRoute, NEW r \in Requests, Running(r), NEW end \in Endings, Ends(r, end)
  PROVE  /\ request' \in [Requests -> RequestType] /\ \A q \in Requests \ {r} : request'[q] = request[q]
         /\ request'[r].end = end /\ request'[r].route = request[r].route
  <1>1. request \in [Requests -> RequestType] /\ request[r].route \in DOMAIN Routes
    BY TodoIs DEF WorkspaceTypes
  <1> DEFINE x == [NoRequest EXCEPT !.route = request[r].route, !.end = end]
  <1>2. x \in RequestType /\ x.end = end /\ x.route = request[r].route
    <2>1. NoRequest \in RequestType /\ request[r].route \in RouteNames /\ end \in Statuses
      BY <1>1, NoRequestIs DEF RouteNames, Statuses
    <2>2. QED
      BY <2>1 DEF RequestType
  <1> HIDE DEF x
  <1>3. request' = [request EXCEPT ![r] = x]
    BY DEF Ends, x
  <1>4. QED
    BY <1>1, <1>2, <1>3

LEMMA TriesAgainIs ==
  ASSUME WorkspaceTypes, NEW r \in Requests, request' = [request EXCEPT ![r].tries = @ + 1]
  PROVE  /\ request' \in [Requests -> RequestType] /\ \A q \in Requests \ {r} : request'[q] = request[q]
         /\ request'[r].end = request[r].end /\ request'[r].route = request[r].route
         /\ request'[r].todo = request[r].todo /\ request'[r].answer = request[r].answer
         /\ request'[r].loaded = request[r].loaded
  <1>1. request \in [Requests -> RequestType] /\ request[r] \in RequestType
    BY DEF WorkspaceTypes
  <1>2. request'[r] = [request[r] EXCEPT !.tries = @ + 1] /\ \A q \in Requests \ {r} : request'[q] = request[q]
    BY <1>1
  <1>3. request'[r] \in RequestType
    BY <1>1, <1>2, SMTT(30) DEF RequestType
  <1>4. QED
    BY <1>1, <1>2, <1>3 DEF RequestType

-----------------------------------------------------------------------------
(* Polygon. *)
\* Nothing that was saved is lost, nothing that was committed is uncommitted.
Grows ==
  /\ CopyIs(copy)' /\ CopyIs(revision)' /\ revision'.edits \subseteq copy'.edits
  /\ Stored \subseteq Stored' /\ Committed \subseteq Committed' /\ dropped \subseteq dropped'
  /\ \A package \in packages' : package.by \in Requests

LEMMA NothingGrows ==
  ASSUME WorkspaceTypes, SavedStays, UNCHANGED polygon
  PROVE  Grows
  BY DEF polygon, Grows, WorkspaceTypes, SavedStays, CopyIs, Stored, Committed

LEMMA MergedIs ==
  ASSUME NEW value \in [Parts -> Contents]
  PROVE  Merged(value) \in [Parts -> Contents]
  BY DEF Merged, Contents

LEMMA EditGrows ==
  ASSUME WorkspaceTypes, SavedStays, NEW who \in Contents, NEW part, Edit(who, part),
         UNCHANGED <<revision, theirs, packages, dropped>>
  PROVE  Grows /\ (part \in Beside \/ <<who, part>> \in copy'.edits)
  <1>1. CopyIs(copy) /\ CopyIs(revision) /\ revision.edits \subseteq copy.edits
    BY DEF WorkspaceTypes, SavedStays
  <1> DEFINE value == [copy.value EXCEPT ![part] = who]
             edits == copy.edits \cup (IF part \in Beside THEN {} ELSE {<<who, part>>})
  <1>2. value \in [Parts -> Contents]
    BY <1>1 DEF CopyIs
  <1>3. copy.edits \subseteq edits /\ (part \in Beside \/ <<who, part>> \in edits)
    OBVIOUS
  <1>4. copy' = [value |-> value, edits |-> edits]
    BY DEF Edit
  <1> HIDE DEF value, edits
  <1>5. copy'.value = value /\ copy'.edits = edits
    BY <1>4
  <1>6. CopyIs(copy)'
    BY <1>2, <1>4, <1>5 DEF CopyIs
  <1>7. CopyIs(revision)'
    BY <1>1 DEF CopyIs
  <1>8. QED
    BY <1>1, <1>3, <1>5, <1>6, <1>7 DEF Grows, Stored, Committed, WorkspaceTypes

LEMMA CommitGrows ==
  ASSUME WorkspaceTypes, SavedStays, NEW method, CommitCopy(method)
  PROVE  Grows /\ (Conflicts = {} => revision'.edits = copy.edits)
  <1>1. CopyIs(copy) /\ CopyIs(revision) /\ revision.edits \subseteq copy.edits
    BY DEF WorkspaceTypes, SavedStays
  <1>2. CASE Conflicts = {}
    <2> DEFINE value == Merged(copy.value)
    <2>1. value \in [Parts -> Contents]
      BY <1>1, MergedIs DEF CopyIs
    <2>2. copy' = [copy EXCEPT !.value = value] /\ revision' = copy' /\ packages' = packages /\ dropped' = dropped
      BY <1>2 DEF CommitCopy
    <2> HIDE DEF value
    <2>3. copy' = [value |-> value, edits |-> copy.edits]
      BY <1>1, <2>2 DEF CopyIs
    <2>4. CopyIs(copy)' /\ CopyIs(revision)' /\ copy'.edits = copy.edits /\ revision'.edits = copy.edits
      BY <2>1, <2>2, <2>3 DEF CopyIs
    <2>5. QED
      BY <1>1, <2>2, <2>4 DEF Grows, Stored, Committed, WorkspaceTypes
  <1>3. CASE Conflicts # {}
    BY <1>3, NothingGrows DEF CommitCopy, polygon
  <1>4. QED
    BY <1>2, <1>3

LEMMA UpdateGrows ==
  ASSUME WorkspaceTypes, SavedStays, NEW method, UpdateCopy(method)
  PROVE  Grows
  <1>1. CopyIs(copy) /\ CopyIs(revision) /\ revision.edits \subseteq copy.edits
    BY DEF WorkspaceTypes, SavedStays
  <1> DEFINE mine == Merged(copy.value)
             base == Merged(revision.value)
  <1>2. mine \in [Parts -> Contents] /\ base \in [Parts -> Contents]
    BY <1>1, MergedIs DEF CopyIs
  <1>3. /\ copy' = [copy EXCEPT !.value = mine] /\ revision' = [revision EXCEPT !.value = base]
        /\ packages' = packages /\ dropped' = dropped
    BY DEF UpdateCopy
  <1> HIDE DEF mine, base
  <1>4. copy' = [value |-> mine, edits |-> copy.edits] /\ revision' = [value |-> base, edits |-> revision.edits]
    BY <1>1, <1>3 DEF CopyIs
  <1>5. CopyIs(copy)' /\ CopyIs(revision)' /\ copy'.edits = copy.edits /\ revision'.edits = revision.edits
    BY <1>2, <1>4 DEF CopyIs
  <1>6. QED
    BY <1>1, <1>3, <1>5 DEF Grows, Stored, Committed, WorkspaceTypes

LEMMA DiscardGrows ==
  ASSUME WorkspaceTypes, SavedStays, NEW method, DiscardCopy(method)
  PROVE  Grows
  <1>1. CopyIs(copy) /\ CopyIs(revision) /\ revision.edits \subseteq copy.edits
    BY DEF WorkspaceTypes, SavedStays
  <1> DEFINE value == [p \in Parts |-> IF p \in Beside THEN copy.value[p] ELSE revision.value[p]]
  <1>2. value \in [Parts -> Contents]
    BY <1>1 DEF CopyIs
  <1>3. /\ copy' = [revision EXCEPT !.value = value] /\ revision' = revision
        /\ packages' = packages /\ dropped' = dropped \cup (copy.edits \ revision.edits)
    BY DEF DiscardCopy, Uncommitted
  <1> HIDE DEF value
  <1>4. copy' = [value |-> value, edits |-> revision.edits]
    BY <1>1, <1>3 DEF CopyIs
  <1>5. CopyIs(copy)' /\ CopyIs(revision)' /\ copy'.edits = revision.edits /\ revision'.edits = revision.edits
    BY <1>1, <1>2, <1>3, <1>4 DEF CopyIs
  <1>6. QED
    BY <1>1, <1>3, <1>5 DEF Grows, Stored, Committed, WorkspaceTypes

\* What a call does to Polygon.
Done(r, method) ==
  /\ Methods[method].does = "write" => Methods[method].part \in Beside \/ <<r, Methods[method].part>> \in copy'.edits
  /\ Methods[method].does = "commit" /\ Conflicts = {} => revision'.edits = copy.edits
  /\ Methods[method].does = "read" => UNCHANGED polygon
  /\ \A package \in packages' \ packages :
       Methods[method].does = "build" /\ package = [by |-> r, edits |-> revision.edits]
LEMMA ExecuteIs ==
  ASSUME WorkspaceTypes, SavedStays, NEW r \in Requests, NEW method, Execute(r, method)
  PROVE  Grows /\ Done(r, method)
  <1>1. CASE Write(r, method)
    BY <1>1, EditGrows DEF Write, Done, Contents
  <1>2. CASE CommitCopy(method)
    <2>1. Methods[method].does = "commit" /\ packages' = packages
      BY <1>2 DEF CommitCopy
    <2>2. QED
      BY <1>2, <2>1, CommitGrows DEF Done
  <1>3. CASE UpdateCopy(method)
    <2>1. Methods[method].does = "update" /\ packages' = packages
      BY <1>3 DEF UpdateCopy
    <2>2. QED
      BY <1>3, <2>1, UpdateGrows DEF Done
  <1>4. CASE DiscardCopy(method)
    <2>1. Methods[method].does = "discard" /\ packages' = packages
      BY <1>4 DEF DiscardCopy
    <2>2. QED
      BY <1>4, <2>1, DiscardGrows DEF Done
  <1>5. CASE BuildPackage(r, method)
    <2>1. /\ UNCHANGED <<copy, revision, theirs, dropped>> /\ Methods[method].does = "build"
          /\ packages' = packages \cup {[by |-> r, edits |-> revision.edits]}
      BY <1>5 DEF BuildPackage
    <2>2. \A package \in packages' : package.by \in Requests
      BY <2>1 DEF WorkspaceTypes
    <2>3. Grows
      BY <2>1, <2>2 DEF Grows, WorkspaceTypes, SavedStays, CopyIs, Stored, Committed
    <2>4. QED
      BY <2>1, <2>3 DEF Done
  <1>6. CASE Look(method)
    <2>1. Methods[method].does \in {"read", "list", "create"} /\ UNCHANGED polygon
      BY <1>6 DEF Look
    <2>2. packages' = packages
      BY <2>1 DEF polygon
    <2>3. QED
      BY <2>1, <2>2, NothingGrows DEF Done
  <1>7. QED
    BY <1>1, <1>2, <1>3, <1>4, <1>5, <1>6 DEF Execute

-----------------------------------------------------------------------------
(* A request's turn. *)
OneMoves(r) ==
  /\ request' \in [Requests -> RequestType] /\ \A q \in Requests \ {r} : request'[q] = request[q]
  /\ request'[r].route = request[r].route
Stops(r) == request'[r].end \in Endings \ {"ok"}
Early(r) == request'[r].end = "ok" /\ (Does(r, "peek") \/ Does(r, "find"))
Stays(r) == Does(r, "call") /\ request'[r].end = "running" /\ request'[r].todo = request[r].todo
Skips(r) == Does(r, "load") /\ Nothing(r) /\ Shifted(r, 2)
Advances(r) ==
  /\ Shifted(r, 1)
  /\ Does(r, "call") => Execute(r, What(r)) /\ ~CommitFails(What(r))
  /\ Does(r, "find") => sessions = {}
  /\ Does(r, "call") /\ request'[r].end = "running" => request'[r].answer = Answer(What(r))
  /\ Does(r, "load") /\ request'[r].end = "running" =>
       request'[r].answer = request[r].answer /\ request'[r].loaded = rows[What(r)]
  /\ Does(r, "flush") =>
       rows' = IF request[r].answer = request[r].loaded THEN rows ELSE [rows EXCEPT ![What(r)] = request[r].answer]

\* What else moves.
Beyond(r) ==
  /\ Execute(r, What(r)) \/ UNCHANGED polygon
  /\ ~Does(r, "call") => UNCHANGED polygon /\ late' = late
  /\ \A call \in late' : call \in late \/ call = <<r, What(r)>>
  /\ (Does(r, "flush") /\ Advances(r)) \/ UNCHANGED rows
  /\ sessions' = sessions \/ (Does(r, "add") /\ sessions' = sessions \cup {r})

LEMMA Only ==
  ASSUME NEW r, NEW does, Does(r, does)
  PROVE  Running(r) /\ \A other : Does(r, other) => other = does
  BY DEF Does

LEMMA AnswerIs ==
  ASSUME WorkspaceTypes, NEW method
  PROVE  Answer(method) \in Contents
  <1>1. copy.value \in [Parts -> Contents] /\ Old \in Contents /\ Nil \in Contents
    BY DEF WorkspaceTypes, CopyIs, Contents
  <1>2. QED
    BY <1>1 DEF Answer

LEMMA WithAnswerIs ==
  ASSUME WorkspaceTypes, NEW r \in Requests, NEW n, NEW answer
  PROVE  (request' = [request EXCEPT ![r] = Passed([@ EXCEPT !.answer = answer], n)])
           => Goes(r, n, answer, request[r].loaded)
  <1>1. request[r] \in RequestType
    BY DEF WorkspaceTypes
  <1>2. [request[r] EXCEPT !.answer = answer] = [request[r] EXCEPT !.answer = answer, !.loaded = request[r].loaded]
    BY <1>1 DEF RequestType
  <1>3. QED
    BY <1>2 DEF Goes

LEMMA WithLoadedIs ==
  ASSUME WorkspaceTypes, NEW r \in Requests, NEW n, NEW loaded
  PROVE  (request' = [request EXCEPT ![r] = Passed([@ EXCEPT !.loaded = loaded], n)])
           => Goes(r, n, request[r].answer, loaded)
  <1>1. request[r] \in RequestType
    BY DEF WorkspaceTypes
  <1>2. [request[r] EXCEPT !.loaded = loaded] = [request[r] EXCEPT !.answer = request[r].answer, !.loaded = loaded]
    BY <1>1 DEF RequestType
  <1>3. QED
    BY <1>2 DEF Goes

LEMMA ContentsAre ==
  ASSUME WorkspaceTypes, NEW r \in Requests
  PROVE  request[r].answer \in Contents /\ request[r].loaded \in Contents
  BY DEF WorkspaceTypes, RequestType

LEMMA CallTurn ==
  ASSUME WorkspaceTypes, OnRoute, SavedStays, NEW r \in Requests, CallStep(r)
  PROVE  /\ Does(r, "call") /\ OneMoves(r) /\ before' = before
         /\ Stops(r) \/ Stays(r) \/ Advances(r)
         /\ Beyond(r)
  <1>1. UNCHANGED <<local, listed, before>>
    BY DEF CallStep
  <1>2. rows' = rows /\ sessions' = sessions /\ before' = before
    BY <1>1 DEF local
  <1>3. ASSUME NEW end \in Endings \ {"ok"}, Does(r, "call"), Ends(r, end)
        PROVE  OneMoves(r) /\ Stops(r)
    <2>1. Running(r)
      BY <1>3, Only
    <2>2. QED
      BY <1>3, <2>1, EndsIs DEF OneMoves, Stops
  <1>4. CASE RefuseParameter(r)
    <2>1. Does(r, "call") /\ Ends(r, "invalid") /\ UNCHANGED polygon /\ late' = late
      BY <1>4 DEF RefuseParameter
    <2>2. QED
      BY <1>2, <1>3, <2>1 DEF Beyond, Endings
  <1>5. CASE LackKeys(r)
    <2>1. Does(r, "call") /\ Ends(r, "unauthorized") /\ UNCHANGED polygon /\ late' = late
      BY <1>5 DEF LackKeys
    <2>2. QED
      BY <1>2, <1>3, <2>1 DEF Beyond, Endings
  <1>6. CASE Refused(r)
    <2>1. Does(r, "call") /\ Ends(r, "refused") /\ UNCHANGED polygon /\ late' = late
      BY <1>6 DEF Refused, Calls
    <2>2. QED
      BY <1>2, <1>3, <2>1 DEF Beyond, Endings
  <1>7. CASE Answered(r)
    <2>1. Does(r, "call") /\ Execute(r, What(r)) /\ late' = late
      BY <1>7 DEF Answered, Calls
    <2>2. Running(r) /\ Beyond(r)
      BY <1>2, <2>1, Only DEF Beyond
    <2>3. CASE CommitFails(What(r))
      <3>1. Ends(r, "conflict")
        BY <1>7, <2>3 DEF Answered
      <3>2. QED
        BY <1>2, <1>3, <2>1, <2>2, <3>1 DEF Endings
    <2>4. CASE ~CommitFails(What(r))
      <3>1. Goes(r, 1, Answer(What(r)), request[r].loaded)
        BY <1>7, <2>4, WithAnswerIs DEF Answered
      <3>2. OneMoves(r) /\ Shifted(r, 1) /\ (request'[r].end = "running" => request'[r].answer = Answer(What(r)))
        BY <2>2, <3>1, GoesIs, AnswerIs, ContentsAre DEF OneMoves, Shifted
      <3>3. Advances(r)
        BY <2>1, <2>4, <3>2, Only DEF Advances
      <3>4. QED
        BY <1>2, <2>1, <2>2, <3>2, <3>3
    <2>5. QED
      BY <2>3, <2>4
  <1>8. CASE Lost(r)
    <2>1. Does(r, "call") /\ Running(r)
      BY <1>8, Only DEF Lost, Calls
    <2>2. PICK fate \in Fates :
            /\ IF fate \in {"ran", "garbled"} /\ Known(What(r)) THEN Execute(r, What(r)) ELSE UNCHANGED polygon
            /\ late' = IF fate = "late" THEN late \cup {<<r, What(r)>>} ELSE late
            /\ IF Repeats(What(r), fate) /\ request[r].tries + 1 < MaxAttempts
                 THEN request' = [request EXCEPT ![r].tries = @ + 1]
                 ELSE Ends(r, "failed")
      BY <1>8 DEF Lost
    <2>3. Beyond(r)
      BY <1>2, <2>1, <2>2 DEF Beyond
    <2>4. CASE request' = [request EXCEPT ![r].tries = @ + 1]
      <3>1. OneMoves(r) /\ Stays(r)
        BY <2>1, <2>4, TriesAgainIs DEF OneMoves, Stays, Running
      <3>2. QED
        BY <1>2, <2>1, <2>3, <3>1
    <2>5. CASE Ends(r, "failed")
      BY <1>2, <1>3, <2>1, <2>3, <2>5 DEF Endings
    <2>6. QED
      BY <2>2, <2>4, <2>5
  <1>9. QED
    BY <1>4, <1>5, <1>6, <1>7, <1>8 DEF CallStep

LEMMA PlainTurn ==
  ASSUME WorkspaceTypes, OnRoute, NEW r \in Requests, Running(r), Passes(r, 1)
  PROVE  OneMoves(r) /\ Shifted(r, 1)
  BY PassesGoes, GoesIs DEF OneMoves, Shifted

LEMMA StopTurn ==
  ASSUME WorkspaceTypes, OnRoute, NEW r \in Requests, Running(r), NEW end \in Endings, Ends(r, end)
  PROVE  OneMoves(r) /\ request'[r].end = end
  BY EndsIs DEF OneMoves

LEMMA RowTurn ==
  ASSUME WorkspaceTypes, OnRoute, NEW r \in Requests, RowStep(r)
  PROVE  /\ Running(r) /\ OneMoves(r) /\ before' = before
         /\ Stops(r) \/ Early(r) \/ Skips(r) \/ Advances(r)
         /\ Beyond(r)
  <1>1. UNCHANGED polygon /\ sessions' = sessions /\ late' = late /\ before' = before
    BY DEF RowStep
  <1>2. {"failed", "notFound"} \subseteq Endings \ {"ok"} /\ "ok" \in Endings
    BY DEF Endings
  <1>3. CASE Peek(r)
    <2>1. Does(r, "peek") /\ rows' = rows
      BY <1>3 DEF Peek
    <2>2. Running(r) /\ Beyond(r)
      BY <1>1, <2>1, Only DEF Beyond
    <2>3. CASE HasRow(What(r))
      BY <1>1, <1>2, <1>3, <2>1, <2>2, <2>3, StopTurn DEF Peek, Early
    <2>4. CASE ~HasRow(What(r))
      <3>1. OneMoves(r) /\ Shifted(r, 1)
        BY <1>3, <2>2, <2>4, PlainTurn DEF Peek
      <3>2. Advances(r)
        BY <2>1, <3>1, Only DEF Advances
      <3>3. QED
        BY <1>1, <2>2, <3>1, <3>2
    <2>5. QED
      BY <2>3, <2>4
  <1>4. CASE Load(r)
    <2>1. Does(r, "load") /\ rows' = rows
      BY <1>4 DEF Load
    <2>2. Running(r) /\ Beyond(r)
      BY <1>1, <2>1, Only DEF Beyond
    <2>3. CASE Nothing(r)
      <3>1. Passes(r, 2)
        BY <1>4, <2>3 DEF Load
      <3>2. OneMoves(r) /\ Shifted(r, 2)
        BY <2>2, <3>1, PassesGoes, GoesIs DEF OneMoves, Shifted
      <3>3. QED
        BY <1>1, <2>1, <2>2, <2>3, <3>2 DEF Skips
    <2>4. CASE ~Nothing(r)
      <3>1. Goes(r, 1, request[r].answer, rows[What(r)])
        BY <1>4, <2>4, WithLoadedIs DEF Load
      <3>2. rows[What(r)] \in Contents
        <4>1. What(r) \in RowNames
          <5>1. Route(r)[Taken(r) + 1].does = "load" /\ What(r) = Route(r)[Taken(r) + 1].what
            BY <2>1, <2>2, TodoIs DEF Does, What
          <5>2. QED
            BY <2>2, <5>1, TodoIs DEF Shape
        <4>2. QED
          BY <4>1 DEF WorkspaceTypes
      <3>3. /\ OneMoves(r) /\ Shifted(r, 1)
            /\ (request'[r].end = "running" =>
                  request'[r].answer = request[r].answer /\ request'[r].loaded = rows[What(r)])
        BY <2>2, <3>1, <3>2, GoesIs, ContentsAre DEF OneMoves, Shifted
      <3>4. Advances(r)
        BY <2>1, <3>3, Only DEF Advances
      <3>5. QED
        BY <1>1, <2>2, <3>3, <3>4
    <2>5. QED
      BY <2>3, <2>4
  <1>5. CASE Flush(r)
    <2>1. Does(r, "flush")
      BY <1>5 DEF Flush
    <2>2. Running(r) /\ \A other : Does(r, other) => other = "flush"
      BY <2>1, Only
    <2>3. CASE Missing(What(r), request[r].loaded) /\ HasRow(What(r))
      <3>1. Ends(r, "failed") /\ rows' = rows
        BY <1>5, <2>3 DEF Flush
      <3>2. OneMoves(r) /\ Stops(r)
        BY <1>2, <2>2, <3>1, StopTurn DEF Stops
      <3>3. QED
        BY <1>1, <2>2, <3>1, <3>2 DEF Beyond
    <2>4. CASE ~(Missing(What(r), request[r].loaded) /\ HasRow(What(r)))
      <3>1. /\ Passes(r, 1)
            /\ rows' = IF request[r].answer = request[r].loaded THEN rows ELSE [rows EXCEPT ![What(r)] = request[r].answer]
        BY <1>5, <2>4 DEF Flush
      <3>2. OneMoves(r) /\ Shifted(r, 1)
        BY <2>2, <3>1, PlainTurn
      <3>3. Advances(r)
        BY <2>2, <3>1, <3>2 DEF Advances
      <3>4. QED
        BY <1>1, <2>1, <2>2, <3>2, <3>3 DEF Beyond
    <2>5. QED
      BY <2>3, <2>4
  <1>6. CASE Show(r)
    <2>1. rows' = rows /\ (Does(r, "show") \/ Does(r, "found"))
      BY <1>6 DEF Show
    <2>2. Running(r) /\ \A other : Does(r, other) => other \in {"show", "found"}
      BY <2>1, Only
    <2>3. Beyond(r)
      BY <1>1, <2>1, <2>2 DEF Beyond
    <2>4. CASE Passes(r, 1)
      <3>1. OneMoves(r) /\ Shifted(r, 1)
        BY <2>2, <2>4, PlainTurn
      <3>2. Advances(r)
        BY <2>2, <3>1 DEF Advances
      <3>3. QED
        BY <1>1, <2>2, <2>3, <3>1, <3>2
    <2>5. CASE Ends(r, "notFound")
      BY <1>1, <1>2, <2>2, <2>3, <2>5, StopTurn DEF Stops
    <2>6. QED
      BY <1>6, <2>4, <2>5 DEF Show
  <1>7. QED
    BY <1>3, <1>4, <1>5, <1>6 DEF RowStep

LEMMA SessionTurn ==
  ASSUME WorkspaceTypes, OnRoute, NEW r \in Requests, SessionStep(r)
  PROVE  /\ Running(r) /\ OneMoves(r) /\ before' = before
         /\ Early(r) \/ Advances(r)
         /\ Beyond(r)
  <1>1. UNCHANGED polygon /\ rows' = rows /\ late' = late /\ before' = before
    BY DEF SessionStep
  <1>2. CASE FindSession(r)
    <2>1. Does(r, "find") /\ sessions' = sessions
      BY <1>2 DEF FindSession
    <2>2. Running(r) /\ Beyond(r)
      BY <1>1, <2>1, Only DEF Beyond
    <2>3. CASE sessions # {}
      <3>1. Ends(r, "ok") /\ "ok" \in Endings
        BY <1>2, <2>3 DEF FindSession, Endings
      <3>2. QED
        BY <1>1, <2>1, <2>2, <3>1, StopTurn DEF Early
    <2>4. CASE sessions = {}
      <3>1. OneMoves(r) /\ Shifted(r, 1)
        BY <1>2, <2>2, <2>4, PlainTurn DEF FindSession
      <3>2. Advances(r)
        BY <2>1, <2>4, <3>1, Only DEF Advances
      <3>3. QED
        BY <1>1, <2>2, <3>1, <3>2
    <2>5. QED
      BY <2>3, <2>4
  <1>3. CASE AddSession(r)
    <2>1. Does(r, "add") /\ sessions' = sessions \cup {r} /\ Passes(r, 1)
      BY <1>3 DEF AddSession
    <2>2. Running(r) /\ Beyond(r)
      BY <1>1, <2>1, Only DEF Beyond
    <2>3. OneMoves(r) /\ Shifted(r, 1)
      BY <2>1, <2>2, PlainTurn
    <2>4. Advances(r)
      BY <2>1, <2>3, Only DEF Advances
    <2>5. QED
      BY <1>1, <2>2, <2>3, <2>4
  <1>4. QED
    BY <1>2, <1>3 DEF SessionStep

LEMMA AccountTurn ==
  ASSUME WorkspaceTypes, OnRoute, NEW r \in Requests, AccountStep(r)
  PROVE  /\ Running(r) /\ OneMoves(r) /\ before' = before
         /\ Stops(r) \/ Advances(r)
         /\ Beyond(r)
  <1>1. UNCHANGED polygon /\ rows' = rows /\ sessions' = sessions /\ late' = late /\ before' = before
    BY DEF AccountStep
  <1>2. Does(r, "user") \/ Does(r, "probe") \/ Does(r, "keep") \/ Does(r, "drop")
    BY DEF AccountStep, LoadUser, Probe, KeepKeys, DropKeys
  <1>3. Running(r) /\ \A other : Does(r, other) => other \in {"user", "probe", "keep", "drop"}
    BY <1>2, Only
  <1>4. Beyond(r)
    BY <1>1, <1>3 DEF Beyond
  <1>5. ASSUME OneMoves(r), Shifted(r, 1)
        PROVE  Advances(r)
    BY <1>3, <1>5 DEF Advances
  <1>6. CASE LoadUser(r)
    <2> DEFINE loaded == IF linked THEN Old ELSE Nil
    <2>1. loaded \in Contents
      BY DEF Contents
    <2>2. Goes(r, 1, request[r].answer, loaded)
      BY <1>6, WithLoadedIs DEF LoadUser
    <2> HIDE DEF loaded
    <2>3. OneMoves(r) /\ Shifted(r, 1)
      BY <1>3, <2>1, <2>2, GoesIs, ContentsAre DEF OneMoves, Shifted
    <2>4. QED
      BY <1>1, <1>3, <1>4, <1>5, <2>3
  <1>7. CASE Passes(r, 1)
    BY <1>1, <1>3, <1>4, <1>5, <1>7, PlainTurn
  <1>8. CASE \E end \in {"refused", "failed"} : Ends(r, end)
    <2>1. PICK end \in {"refused", "failed"} : Ends(r, end)
      BY <1>8
    <2>2. end \in Endings \ {"ok"}
      BY DEF Endings
    <2>3. OneMoves(r) /\ Stops(r)
      BY <1>3, <2>1, <2>2, StopTurn DEF Stops
    <2>4. QED
      BY <1>1, <1>3, <1>4, <2>3
  <1>9. QED
    BY <1>6, <1>7, <1>8 DEF AccountStep, Probe, KeepKeys, DropKeys

LEMMA DieTurn ==
  ASSUME WorkspaceTypes, OnRoute, NEW r \in Requests, Die(r)
  PROVE  Running(r) /\ OneMoves(r) /\ before' = before /\ Stops(r) /\ Beyond(r)
  <1>1. /\ UNCHANGED polygon /\ rows' = rows /\ sessions' = sessions /\ late' = late /\ before' = before
        /\ Running(r) /\ Ends(r, "failed")
    BY DEF Die, local
  <1>2. OneMoves(r) /\ Stops(r)
    BY <1>1, StopTurn DEF Stops, Endings
  <1>3. QED
    BY <1>1, <1>2 DEF Beyond

\* All of it: a request under way stops, answers early, asks again or moves on.
TakesTurn(r) ==
  /\ Running(r) /\ OneMoves(r) /\ before' = before
  /\ Stops(r) \/ Early(r) \/ Stays(r) \/ Skips(r) \/ Advances(r)
  /\ Beyond(r)
LEMMA TurnIs ==
  ASSUME WorkspaceTypes, OnRoute, SavedStays, NEW r \in Requests, RequestStep(r)
  PROVE  Receive(r) \/ TakesTurn(r)
  <1>1. CASE CallStep(r)
    BY <1>1, CallTurn, Only DEF TakesTurn
  <1>2. CASE RowStep(r)
    BY <1>2, RowTurn DEF TakesTurn
  <1>3. CASE SessionStep(r)
    BY <1>3, SessionTurn DEF TakesTurn
  <1>4. CASE AccountStep(r)
    BY <1>4, AccountTurn DEF TakesTurn
  <1>5. CASE Die(r)
    BY <1>5, DieTurn DEF TakesTurn
  <1>6. QED
    BY <1>1, <1>2, <1>3, <1>4, <1>5 DEF RequestStep

-----------------------------------------------------------------------------
(* Types and routes. *)
LEMMA SameIs ==
  ASSUME NEW q, request'[q] = request[q]
  PROVE  /\ Running(q)' = Running(q) /\ Over(q)' = Over(q)
         /\ Route(q)' = Route(q) /\ Taken(q)' = Taken(q) /\ What(q)' = What(q)
         /\ KeptEdits(q)' = KeptEdits(q) /\ \A does : Does(q, does)' = Does(q, does)
  BY DEF Running, Over, Route, Taken, What, KeptEdits, Edited, StepsFor, Does

LEMMA SameRouteIs ==
  ASSUME NEW q, request'[q].route = request[q].route
  PROVE  Route(q)' = Route(q) /\ KeptEdits(q)' = KeptEdits(q)
  BY DEF Route, KeptEdits, Edited, StepsFor

LEMMA ReceiveIs ==
  ASSUME WorkspaceTypes, NEW r \in Requests, Receive(r)
  PROVE  /\ request' \in [Requests -> RequestType] /\ \A q \in Requests \ {r} : request'[q] = request[q]
         /\ request[r].end = "new" /\ request'[r].end = "running"
         /\ request'[r].route \in DOMAIN Routes /\ request'[r].todo = Routes[request'[r].route]
         /\ before' = [before EXCEPT ![r] = {q \in Requests : Over(q)}]
         /\ UNCHANGED polygon /\ rows' = rows /\ sessions' = sessions /\ late' = late
  <1>1. PICK route \in Offered :
          request' = [request EXCEPT ![r].route = route, ![r].todo = Routes[route], ![r].end = "running"]
    BY DEF Receive
  <1>2. route \in DOMAIN Routes
    BY RoutesAssumption
  <1> DEFINE todo == Routes[route]
             x == [request[r] EXCEPT !.route = route, !.todo = todo, !.end = "running"]
  <1>3. todo \in Seq(AnyStep) /\ route \in RouteNames /\ "running" \in Statuses
    BY <1>2, RouteIs DEF RouteNames, Statuses
  <1>4. request \in [Requests -> RequestType] /\ request[r] \in RequestType
    BY DEF WorkspaceTypes
  <1>5. request'[r] = x /\ \A q \in Requests \ {r} : request'[q] = request[q]
    BY <1>1, <1>4
  <1> HIDE DEF todo
  <1>6. x \in RequestType /\ x.end = "running" /\ x.route = route /\ x.todo = todo
    <2> DEFINE Todos == Seq(AnyStep)
    <2>1. RequestType = [route : RouteNames, todo : Todos, end : Statuses, tries : Nat,
                         answer : Contents, loaded : Contents]
      BY DEF RequestType
    <2>2. todo \in Todos
      BY <1>3
    <2> HIDE DEF Todos
    <2>3. QED
      BY <1>3, <1>4, <2>1, <2>2
  <1>7. request' = [request EXCEPT ![r] = request'[r]]
    BY <1>1, <1>4
  <1> HIDE DEF x
  <1>8. request' \in [Requests -> RequestType]
    BY <1>4, <1>5, <1>6, <1>7
  <1>9. /\ request[r].end = "new" /\ before' = [before EXCEPT ![r] = {q \in Requests : Over(q)}]
        /\ UNCHANGED polygon /\ rows' = rows /\ sessions' = sessions /\ late' = late
    BY DEF Receive, local
  <1>10. QED
    BY <1>2, <1>5, <1>6, <1>8, <1>9 DEF todo

\* Where a request stands after its turn.
LEMMA ShiftedIs ==
  ASSUME WorkspaceTypes, OnRoute, NEW r \in Requests, Running(r), OneMoves(r), NEW n \in {1, 2}, Shifted(r, n)
  PROVE  /\ Running(r)' =>
              /\ Taken(r)' = Taken(r) + n /\ Len(request'[r].todo) \in 1..Len(Route(r))
              /\ \A i \in 1..Len(request'[r].todo) : request'[r].todo[i] = Route(r)[Taken(r)' + i]
              /\ \A does : Does(r, does)' => Route(r)[Taken(r) + n + 1].does = does
              /\ What(r)' = Route(r)[Taken(r) + n + 1].what
              /\ Taken(r) + n + 1 \in DOMAIN Route(r)
         /\ ~Running(r)' => request'[r].end = "ok" /\ Len(Route(r)) <= Taken(r) + n
  <1> DEFINE old == request[r].todo
             new == request'[r].todo
  <1>1. /\ old \in Seq(AnyStep) /\ Len(old) \in Nat \ {0} /\ Taken(r) \in Nat
        /\ Taken(r) + Len(old) = Len(Route(r)) /\ Len(Route(r)) \in Nat
        /\ DOMAIN Route(r) = 1..Len(Route(r))
    BY TodoIs
  <1>2. \A i \in 1..Len(old) : old[i] = Route(r)[Taken(r) + i]
    BY DEF OnRoute
  <1>3. Route(r)' = Route(r)
    BY SameRouteIs DEF OneMoves
  <1>4. new \in Seq(AnyStep)
    BY DEF OneMoves, RequestType
  <1>5. CASE Len(old) <= n
    <2>1. request'[r].end = "ok"
      BY <1>5 DEF Shifted
    <2>2. ~Running(r)'
      BY <2>1 DEF Running
    <2> HIDE DEF old, new
    <2>3. Len(Route(r)) <= Taken(r) + n
      BY <1>1, <1>5
    <2>4. QED
      BY <2>1, <2>2, <2>3, Zenon
  <1>6. CASE Len(old) > n
    <2>1. /\ request'[r].end = "running" /\ Len(new) = Len(old) - n
          /\ \A i \in 1..(Len(old) - n) : new[i] = old[i + n]
      BY <1>6 DEF Shifted
    <2>2. Taken(r)' = Len(Route(r)) - Len(new)
      BY <1>3 DEF Taken
    <2> HIDE DEF new, old
    <2>3. Taken(r)' = Taken(r) + n /\ Len(new) \in 1..Len(Route(r)) /\ Taken(r) + n + 1 \in DOMAIN Route(r)
      BY <1>1, <1>6, <2>1, <2>2
    <2>4. \A i \in 1..Len(new) : new[i] = Route(r)[Taken(r)' + i]
      <3> TAKE i \in 1..Len(new)
      <3>1. i + n \in 1..Len(old) /\ i \in 1..(Len(old) - n) /\ Taken(r) + (i + n) = Taken(r)' + i
        BY <1>1, <1>6, <2>1, <2>3, SMTT(30)
      <3>2. QED
        BY <1>2, <2>1, <3>1 DEF old
    <2>5. Head(new) = Route(r)[Taken(r) + n + 1]
      <3>1. 1 \in 1..Len(new) /\ Taken(r)' + 1 = Taken(r) + n + 1
        BY <1>1, <1>6, <2>1, <2>3
      <3>2. Head(new) = new[1]
        BY <1>4, <3>1
      <3>3. new[1] = Route(r)[Taken(r)' + 1]
        BY <2>4, <3>1
      <3>4. QED
        BY <3>1, <3>2, <3>3
    <2>6. What(r)' = Route(r)[Taken(r) + n + 1].what
      BY <2>5 DEF What, new
    <2>7. \A does : Does(r, does)' => Route(r)[Taken(r) + n + 1].does = does
      BY <2>5 DEF Does, new
    <2>8. Running(r)'
      BY <2>1 DEF Running
    <2>9. QED
      BY <2>3, <2>4, <2>6, <2>7, <2>8 DEF new
  <1>7. QED
    BY <1>1, <1>5, <1>6

LEMMA TurnGrows ==
  ASSUME WorkspaceTypes, SavedStays, NEW r \in Requests, TakesTurn(r)
  PROVE  Grows
  <1>1. Execute(r, What(r)) \/ UNCHANGED polygon
    BY DEF TakesTurn, Beyond
  <1>2. QED
    BY <1>1, ExecuteIs, NothingGrows

LEMMA TurnTypes ==
  ASSUME WorkspaceTypes, OnRoute, SavedStays, NEW r \in Requests, TakesTurn(r)
  PROVE  WorkspaceTypes'
  <1>1. request' \in [Requests -> RequestType]
    BY DEF TakesTurn, OneMoves
  <1>2. CopyIs(copy)' /\ CopyIs(revision)' /\ \A package \in packages' : package.by \in Requests
    BY TurnGrows DEF Grows
  <1>3. rows' \in [RowNames -> Contents]
    <2>1. request[r].answer \in Contents /\ rows \in [RowNames -> Contents]
      BY ContentsAre DEF WorkspaceTypes
    <2>2. rows' = rows \/ rows' = [rows EXCEPT ![What(r)] = request[r].answer]
      BY DEF TakesTurn, Beyond, Advances
    <2>3. QED
      BY <2>1, <2>2
  <1>4. sessions' \subseteq Requests /\ before' \in [Requests -> SUBSET Requests]
    BY DEF TakesTurn, Beyond, WorkspaceTypes
  <1>5. \A call \in late' : call[1] \in Requests
    <2>1. \A call \in late' : call \in late \/ call = <<r, What(r)>>
      BY DEF TakesTurn, Beyond
    <2>2. QED
      BY <2>1 DEF WorkspaceTypes
  <1>6. QED
    BY <1>1, <1>2, <1>3, <1>4, <1>5 DEF WorkspaceTypes

LEMMA TurnOnRoute ==
  ASSUME WorkspaceTypes, OnRoute, SavedStays, NEW r \in Requests, TakesTurn(r)
  PROVE  OnRoute'
  <1> SUFFICES ASSUME NEW q \in Requests
               PROVE  /\ request'[q].end # "new" => request'[q].route \in DOMAIN Routes
                      /\ Running(q)' =>
                           /\ Len(request'[q].todo) \in 1..Len(Route(q)')
                           /\ \A i \in 1..Len(request'[q].todo) : request'[q].todo[i] = Route(q)'[Taken(q)' + i]
    BY DEF OnRoute
  <1>1. Running(r) /\ OneMoves(r)
    BY DEF TakesTurn
  <1>2. CASE q # r
    <2>1. request'[q] = request[q]
      BY <1>1, <1>2 DEF OneMoves
    <2>2. Running(q)' = Running(q) /\ Route(q)' = Route(q) /\ Taken(q)' = Taken(q)
      BY <2>1, SameIs
    <2>3. QED
      BY <2>1, <2>2 DEF OnRoute
  <1>3. CASE q = r
    <2>1. request'[r].route \in DOMAIN Routes /\ Route(r)' = Route(r)
      BY <1>1, TodoIs, SameRouteIs DEF OneMoves
    <2>2. CASE Stops(r) \/ Early(r)
      BY <1>3, <2>1, <2>2 DEF Stops, Early, Endings, Running
    <2>3. CASE Stays(r)
      <3>1. request'[r].todo = request[r].todo /\ Taken(r)' = Taken(r)
        BY <2>1, <2>3 DEF Stays, Taken
      <3>2. QED
        BY <1>1, <1>3, <2>1, <3>1 DEF OnRoute
    <2>4. ASSUME NEW n \in {1, 2}, Shifted(r, n)
          PROVE  Running(r)' => /\ Len(request'[r].todo) \in 1..Len(Route(r))
                                /\ \A i \in 1..Len(request'[r].todo) : request'[r].todo[i] = Route(r)[Taken(r)' + i]
      BY <1>1, <2>4, ShiftedIs
    <2>5. QED
      BY <1>3, <2>1, <2>2, <2>3, <2>4 DEF TakesTurn, Skips, Advances
  <1>4. QED
    BY <1>2, <1>3

\* A call that was given up runs after all, or somebody edits on Polygon itself.
Elsewhere ==
  /\ request' = request /\ before' = before /\ rows' = rows /\ sessions' = sessions
  /\ Grows /\ late' \subseteq late
  /\ \A package \in packages' \ packages : \E call \in late :
       Methods[call[2]].does = "build" /\ package = [by |-> call[1], edits |-> revision.edits]
LEMMA ElsewhereIs ==
  ASSUME WorkspaceTypes, SavedStays, RunLate \/ Outside
  PROVE  Elsewhere
  <1>1. CASE RunLate
    <2>1. request' = request /\ before' = before /\ rows' = rows /\ sessions' = sessions
      BY <1>1 DEF RunLate, local
    <2>2. PICK call \in late : /\ late' = late \ {call}
                               /\ IF Known(call[2]) THEN Execute(call[1], call[2]) ELSE UNCHANGED polygon
      BY <1>1 DEF RunLate
    <2>3. call[1] \in Requests
      BY DEF WorkspaceTypes
    <2>4. CASE Execute(call[1], call[2])
      <3>1. Grows /\ Done(call[1], call[2])
        BY <2>3, <2>4, ExecuteIs
      <3>2. QED
        BY <2>1, <2>2, <3>1 DEF Elsewhere, Done
    <2>5. CASE UNCHANGED polygon
      <3>1. Grows /\ packages' = packages
        BY <2>5, NothingGrows DEF polygon
      <3>2. QED
        BY <2>1, <2>2, <3>1 DEF Elsewhere
    <2>6. QED
      BY <2>2, <2>4, <2>5
  <1>2. CASE Outside
    <2>1. request' = request /\ before' = before /\ rows' = rows /\ sessions' = sessions /\ late' = late
      BY <1>2 DEF Outside, local
    <2>2. \/ \E part \in SharedParts : Edit(Person, part) /\ UNCHANGED <<revision, theirs, packages, dropped>>
          \/ UNCHANGED <<copy, revision, packages, dropped>>
      BY <1>2 DEF Outside
    <2>3. CASE UNCHANGED <<copy, revision, packages, dropped>>
      BY <2>1, <2>3 DEF Elsewhere, Grows, WorkspaceTypes, SavedStays, CopyIs, Stored, Committed
    <2>4. CASE \E part \in SharedParts : Edit(Person, part) /\ UNCHANGED <<revision, theirs, packages, dropped>>
      <3>1. PICK part \in SharedParts : Edit(Person, part) /\ UNCHANGED <<revision, theirs, packages, dropped>>
        BY <2>4
      <3>2. Grows
        BY <3>1, EditGrows DEF Contents
      <3>3. QED
        BY <2>1, <3>1, <3>2 DEF Elsewhere
    <2>5. QED
      BY <2>2, <2>3, <2>4
  <1>3. QED
    BY <1>1, <1>2

LEMMA ReceiveTypes ==
  ASSUME WorkspaceTypes, OnRoute, SavedStays, NEW r \in Requests, Receive(r)
  PROVE  WorkspaceTypes' /\ OnRoute' /\ Grows
  <1>1. Grows
    BY ReceiveIs, NothingGrows
  <1>2. before' \in [Requests -> SUBSET Requests]
    BY ReceiveIs DEF WorkspaceTypes
  <1>3. WorkspaceTypes'
    BY <1>1, <1>2, ReceiveIs DEF WorkspaceTypes, Grows
  <1>4. ASSUME NEW q \in Requests
        PROVE  /\ request'[q].end # "new" => request'[q].route \in DOMAIN Routes
               /\ Running(q)' =>
                    /\ Len(request'[q].todo) \in 1..Len(Route(q)')
                    /\ \A i \in 1..Len(request'[q].todo) : request'[q].todo[i] = Route(q)'[Taken(q)' + i]
    <2>1. CASE q # r
      <3>1. request'[q] = request[q]
        BY <2>1, ReceiveIs
      <3>2. Running(q)' = Running(q) /\ Route(q)' = Route(q) /\ Taken(q)' = Taken(q)
        BY <3>1, SameIs
      <3>3. QED
        BY <3>1, <3>2 DEF OnRoute
    <2>2. CASE q = r
      <3>1. request'[r].route \in DOMAIN Routes /\ request'[r].todo = Routes[request'[r].route]
        BY ReceiveIs
      <3>2. Len(request'[r].todo) \in Nat \ {0} /\ Route(r)' = request'[r].todo
        BY <3>1, RouteIs DEF Route
      <3>3. Taken(r)' = 0
        BY <3>2 DEF Taken
      <3>4. QED
        BY <2>2, <3>1, <3>2, <3>3
    <2>3. QED
      BY <2>1, <2>2
  <1>5. QED
    BY <1>1, <1>3, <1>4 DEF OnRoute

LEMMA ElsewhereTypes ==
  ASSUME WorkspaceTypes, OnRoute, Elsewhere
  PROVE  WorkspaceTypes' /\ OnRoute'
  <1>1. WorkspaceTypes'
    BY DEF WorkspaceTypes, Elsewhere, Grows
  <1>2. OnRoute'
    BY DEF OnRoute, Elsewhere, Running, Route, Taken
  <1>3. QED
    BY <1>1, <1>2

-----------------------------------------------------------------------------
(* What was saved. *)
SavedTo(r, i, stored) ==
  Saves(Route(r)[i]) =>
    \/ Methods[Route(r)[i].what].part \in Beside
    \/ <<r, Methods[Route(r)[i].what].part>> \in stored
LEMMA SavedStaysIs ==
  SavedStays <=> /\ revision.edits \subseteq copy.edits
                 /\ \A r \in Requests : Running(r) => \A i \in 1..Taken(r) : SavedTo(r, i, Stored)
  BY DEF SavedStays, SavedTo

LEMMA AllAreSaved ==
  ASSUME NEW r, NEW stored,
         \A i \in DOMAIN Route(r) : SavedTo(r, i, stored)
  PROVE  KeptEdits(r) \subseteq stored
  <1> SUFFICES ASSUME NEW e \in KeptEdits(r) PROVE e \in stored
    OBVIOUS
  <1>1. PICK s \in StepsFor(r) : s.does = "call" /\ Methods[s.what].does = "write" /\ e = <<r, Methods[s.what].part>>
    BY DEF KeptEdits, Edited
  <1>2. PICK i \in DOMAIN Route(r) : s = Route(r)[i]
    BY DEF StepsFor, Members, Route
  <1>3. e[2] = Methods[s.what].part /\ e[2] \notin Beside
    BY <1>1 DEF KeptEdits
  <1>4. QED
    BY <1>1, <1>2, <1>3 DEF SavedTo, Saves

\* After its turn a request has saved what the steps it has taken save.
LEMMA TurnSaves ==
  ASSUME WorkspaceTypes, OnRoute, SavedStays, NEW r \in Requests, TakesTurn(r)
  PROVE  /\ Running(r)' => \A i \in 1..Taken(r)' : SavedTo(r, i, Stored')
         /\ request'[r].end = "ok" => \A i \in DOMAIN Route(r) : SavedTo(r, i, Stored')
  <1>1. Running(r) /\ OneMoves(r) /\ Stored \subseteq Stored'
    BY TurnGrows DEF TakesTurn, Grows
  <1>2. /\ Taken(r) \in Nat /\ DOMAIN Route(r) = 1..Len(Route(r)) /\ Len(Route(r)) \in Nat
        /\ Shape(Route(r)) /\ Taken(r) + 1 \in DOMAIN Route(r)
        /\ Head(request[r].todo) = Route(r)[Taken(r) + 1] /\ Route(r)' = Route(r)
    BY <1>1, TodoIs, SameRouteIs DEF OneMoves
  <1>3. \A i \in 1..Taken(r) : SavedTo(r, i, Stored')
    BY <1>1, SavedStaysIs DEF SavedTo
  <1>4. CASE Stops(r)
    BY <1>4 DEF Stops, Endings, Running
  <1>5. CASE Early(r)
    <2>1. Route(r)[Taken(r) + 1].does \in {"peek", "find"}
      BY <1>2, <1>5 DEF Early, Does
    <2>2. \A k \in DOMAIN Route(r) : ~Saves(Route(r)[k])
      BY <1>2, <2>1 DEF Shape
    <2>3. QED
      BY <1>5, <2>2 DEF Early, Running, SavedTo
  <1>6. CASE Stays(r)
    <2>1. Taken(r)' = Taken(r) /\ request'[r].end = "running"
      BY <1>2, <1>6 DEF Stays, Taken
    <2>2. QED
      BY <1>3, <2>1
  <1>7. ASSUME NEW n \in {1, 2}, Shifted(r, n), \A i \in (Taken(r) + 1)..(Taken(r) + n) : SavedTo(r, i, Stored')
        PROVE  /\ Running(r)' => \A i \in 1..Taken(r)' : SavedTo(r, i, Stored')
               /\ request'[r].end = "ok" => \A i \in DOMAIN Route(r) : SavedTo(r, i, Stored')
    <2>1. \A i \in 1..(Taken(r) + n) : SavedTo(r, i, Stored')
      BY <1>2, <1>3, <1>7
    <2>2. Running(r)' => Taken(r)' = Taken(r) + n
      BY <1>1, <1>7, ShiftedIs
    <2>3. request'[r].end = "ok" => Len(Route(r)) <= Taken(r) + n
      <3>1. request'[r].end = "ok" => ~Running(r)'
        BY DEF Running
      <3>2. QED
        BY <1>1, <1>7, <3>1, ShiftedIs
    <2>4. QED
      BY <1>2, <2>1, <2>2, <2>3
  <1>8. CASE Skips(r)
    <2>1. Shifted(r, 2) /\ Route(r)[Taken(r) + 1].does = "load"
      BY <1>2, <1>8 DEF Skips, Does
    <2>2. Route(r)[Taken(r) + 2].does = "flush"
      BY <1>2, <2>1 DEF Shape
    <2>3. \A i \in (Taken(r) + 1)..(Taken(r) + 2) : SavedTo(r, i, Stored')
      BY <1>2, <2>1, <2>2 DEF SavedTo, Saves
    <2>4. QED
      BY <1>7, <2>1, <2>3
  <1>9. CASE Advances(r)
    <2>1. Shifted(r, 1)
      BY <1>9 DEF Advances
    <2>2. SavedTo(r, Taken(r) + 1, Stored')
      <3>1. SUFFICES ASSUME Saves(Route(r)[Taken(r) + 1])
                     PROVE  \/ Methods[What(r)].part \in Beside
                            \/ <<r, Methods[What(r)].part>> \in Stored'
        BY <1>2 DEF SavedTo, What
      <3>2. Does(r, "call") /\ Methods[What(r)].does = "write"
        BY <1>1, <1>2, <3>1 DEF Saves, Does, What
      <3>3. Done(r, What(r))
        BY <1>9, <3>2, ExecuteIs DEF Advances
      <3>4. QED
        BY <3>2, <3>3 DEF Done, Stored
    <2>3. \A i \in (Taken(r) + 1)..(Taken(r) + 1) : SavedTo(r, i, Stored')
      BY <1>2, <2>2
    <2>4. QED
      BY <1>7, <2>1, <2>3
  <1>10. QED
    BY <1>4, <1>5, <1>6, <1>8, <1>9 DEF TakesTurn

LEMMA TurnKeeps ==
  ASSUME WorkspaceTypes, OnRoute, SavedStays, AnsweredIsDone, NEW r \in Requests, TakesTurn(r)
  PROVE  SavedStays' /\ AnsweredIsDone'
  <1>1. OneMoves(r) /\ Grows
    BY TurnGrows DEF TakesTurn
  <1>2. Stored \subseteq Stored' /\ revision'.edits \subseteq copy'.edits /\ Route(r)' = Route(r)
    BY <1>1, SameRouteIs DEF OneMoves, Grows
  <1>3. ASSUME NEW q \in Requests
        PROVE  /\ Running(q)' => \A i \in 1..Taken(q)' : SavedTo(q, i, Stored)'
               /\ request'[q].end = "ok" => KeptEdits(q)' \subseteq Stored'
    <2>1. CASE q = r
      <3>1. request'[r].end = "ok" => \A i \in DOMAIN Route(r) : SavedTo(r, i, Stored')
        BY TurnSaves
      <3>2. request'[r].end = "ok" => KeptEdits(r) \subseteq Stored'
        BY <3>1, AllAreSaved
      <3>3. KeptEdits(r)' = KeptEdits(r)
        BY <1>1, SameRouteIs DEF OneMoves
      <3>4. Running(r)' => \A i \in 1..Taken(r)' : SavedTo(r, i, Stored)'
        BY <1>2, TurnSaves DEF SavedTo
      <3>5. QED
        BY <2>1, <3>2, <3>3, <3>4
    <2>2. CASE q # r
      <3>1. request'[q] = request[q]
        BY <1>1, <2>2 DEF OneMoves
      <3>2. Running(q)' = Running(q) /\ Taken(q)' = Taken(q) /\ KeptEdits(q)' = KeptEdits(q) /\ Route(q)' = Route(q)
        BY <3>1, SameIs
      <3>3. Running(q) => \A i \in 1..Taken(q) : SavedTo(q, i, Stored)
        BY SavedStaysIs
      <3>4. request[q].end = "ok" => KeptEdits(q) \subseteq Stored
        BY DEF AnsweredIsDone, Stored
      <3>5. Running(q)' => \A i \in 1..Taken(q)' : SavedTo(q, i, Stored)'
        BY <1>2, <3>2, <3>3 DEF SavedTo
      <3>6. QED
        BY <1>2, <3>1, <3>2, <3>4, <3>5
    <2>3. QED
      BY <2>1, <2>2
  <1>4. SavedStays'
    BY <1>2, <1>3 DEF SavedStays, SavedTo
  <1>5. AnsweredIsDone'
    BY <1>3 DEF AnsweredIsDone, Stored
  <1>6. QED
    BY <1>4, <1>5

LEMMA ReceiveKeeps ==
  ASSUME WorkspaceTypes, OnRoute, SavedStays, AnsweredIsDone, NEW r \in Requests, Receive(r)
  PROVE  SavedStays' /\ AnsweredIsDone'
  <1>1. copy' = copy /\ revision' = revision /\ Stored' = Stored /\ request'[r].end = "running"
    BY ReceiveIs DEF polygon, Stored
  <1>2. Taken(r)' = 0
    <2>1. request'[r].route \in DOMAIN Routes /\ request'[r].todo = Routes[request'[r].route]
      BY ReceiveIs
    <2>2. QED
      BY <2>1, RouteIs DEF Taken, Route
  <1>3. ASSUME NEW q \in Requests
        PROVE  /\ Running(q)' => \A i \in 1..Taken(q)' : SavedTo(q, i, Stored)'
               /\ request'[q].end = "ok" => KeptEdits(q)' \subseteq Stored'
    <2>1. CASE q = r
      BY <1>1, <1>2, <2>1
    <2>2. CASE q # r
      <3>1. request'[q] = request[q]
        BY <2>2, ReceiveIs
      <3>2. Running(q)' = Running(q) /\ Taken(q)' = Taken(q) /\ KeptEdits(q)' = KeptEdits(q) /\ Route(q)' = Route(q)
        BY <3>1, SameIs
      <3>3. Running(q) => \A i \in 1..Taken(q) : SavedTo(q, i, Stored)
        BY SavedStaysIs
      <3>4. request[q].end = "ok" => KeptEdits(q) \subseteq Stored
        BY DEF AnsweredIsDone, Stored
      <3>5. Running(q)' => \A i \in 1..Taken(q)' : SavedTo(q, i, Stored)'
        BY <1>1, <3>2, <3>3 DEF SavedTo
      <3>6. QED
        BY <1>1, <3>1, <3>2, <3>4, <3>5
    <2>3. QED
      BY <2>1, <2>2
  <1>4. SavedStays'
    BY <1>1, <1>3 DEF SavedStays, SavedTo
  <1>5. AnsweredIsDone'
    BY <1>3 DEF AnsweredIsDone, Stored
  <1>6. QED
    BY <1>4, <1>5

LEMMA ElsewhereKeeps ==
  ASSUME SavedStays, AnsweredIsDone, Elsewhere
  PROVE  SavedStays' /\ AnsweredIsDone'
  <1>1. request' = request /\ Stored \subseteq Stored' /\ revision'.edits \subseteq copy'.edits
    BY DEF Elsewhere, Grows
  <1>2. \A q : Running(q)' = Running(q) /\ Taken(q)' = Taken(q) /\ KeptEdits(q)' = KeptEdits(q) /\ Route(q)' = Route(q)
    BY <1>1, SameIs
  <1>3. SavedStays'
    BY <1>1, <1>2 DEF SavedStays
  <1>4. AnsweredIsDone'
    BY <1>1, <1>2 DEF AnsweredIsDone, Stored
  <1>5. QED
    BY <1>3, <1>4

-----------------------------------------------------------------------------
(* What is built. *)
\* A request that is over stays as it is, and so does what it answered.
LEMMA OverStays ==
  ASSUME NEW r \in Requests, \A q \in Requests \ {r} : request'[q] = request[q], ~Over(r), NEW q \in Requests, Over(q)
  PROVE  request'[q] = request[q] /\ Over(q)' /\ KeptEdits(q)' = KeptEdits(q)
  <1>1. request'[q] = request[q]
    OBVIOUS
  <1>2. QED
    BY <1>1, SameIs

LEMMA EarlierStay ==
  ASSUME WorkspaceTypes, EarlierAreOver, NEW r \in Requests,
         \A q \in Requests \ {r} : request'[q] = request[q], ~Over(r),
         NEW q \in Requests, NEW edits, NEW more, edits \subseteq more, Covered(q, edits), before'[q] = before[q]
  PROVE  \A p \in before'[q] : request'[p].end = "ok" => KeptEdits(p)' \subseteq more
  <1>1. ASSUME NEW p \in before[q]
        PROVE  request'[p] = request[p] /\ KeptEdits(p)' = KeptEdits(p)
    <2>1. p \in Requests /\ Over(p)
      BY DEF WorkspaceTypes, EarlierAreOver
    <2>2. QED
      BY <2>1, OverStays
  <1>2. QED
    BY <1>1 DEF Covered

LEMMA TurnEarlier ==
  ASSUME WorkspaceTypes, OnRoute, SavedStays, EarlierAreOver, NEW r \in Requests, TakesTurn(r)
  PROVE  EarlierAreOver'
  <1>1. Running(r) /\ ~Over(r) /\ OneMoves(r) /\ before' = before
    BY DEF TakesTurn, Running, Over
  <1>2. \A q \in Requests : \A p \in before'[q] : Over(p)'
    BY <1>1, OverStays DEF EarlierAreOver, WorkspaceTypes, OneMoves
  <1>3. request'[r].end # "new"
    BY DEF TakesTurn, Stops, Early, Stays, Skips, Advances, Shifted, Endings, OneMoves, RequestType
  <1>4. \A q \in Requests : request[q].end # "new" => request'[q].end # "new"
    BY <1>1, <1>3 DEF OneMoves
  <1>5. \A call \in late' : request'[call[1]].end # "new"
    <2>1. \A call \in late' : call \in late \/ call = <<r, What(r)>>
      BY DEF TakesTurn, Beyond
    <2>2. QED
      BY <1>3, <1>4, <2>1 DEF EarlierAreOver, WorkspaceTypes
  <1>6. \A package \in packages' : request'[package.by].end # "new"
    <2>1. \A package \in packages' : package \in packages \/ package = [by |-> r, edits |-> revision.edits]
      <3>1. CASE Execute(r, What(r))
        BY <3>1, ExecuteIs DEF Done
      <3>2. CASE UNCHANGED polygon
        BY <3>2 DEF polygon
      <3>3. QED
        BY <3>1, <3>2 DEF TakesTurn, Beyond
    <2>2. QED
      BY <1>3, <1>4, <2>1 DEF EarlierAreOver, WorkspaceTypes
  <1>7. QED
    BY <1>2, <1>5, <1>6 DEF EarlierAreOver

LEMMA BuildIs ==
  ASSUME WorkspaceTypes, OnRoute, NEW r \in Requests, Running(r), request[r].route = "build"
  PROVE  /\ Taken(r) \in {0, 1}
         /\ Taken(r) = 0 => Does(r, "call") /\ What(r) = "commit_changes" /\ Methods[What(r)].does = "commit"
         /\ Does(r, "call")
  <1> DEFINE commit == Call("commit_changes")
             build == Call("build_package")
             s == <<commit, build>>
  <1>1. Route(r) = s
    BY BuildRouteIs DEF Route
  <1>2. commit.does = "call" /\ commit.what = "commit_changes" /\ build.does = "call"
    BY CallIs
  <1> HIDE DEF commit, build
  <1>3. Len(s) = 2 /\ s[1] = commit /\ s[2] = build
    OBVIOUS
  <1> HIDE DEF s
  <1>4. Taken(r) \in {0, 1} /\ Head(request[r].todo) = s[Taken(r) + 1]
    BY <1>1, <1>3, TodoIs
  <1>5. Does(r, "call") /\ (Taken(r) = 0 => What(r) = "commit_changes")
    BY <1>2, <1>3, <1>4 DEF Does, What
  <1>6. QED
    BY <1>4, <1>5, MethodsUsed

LEMMA TurnBuilds ==
  ASSUME WorkspaceTypes, OnRoute, SavedStays, AnsweredIsDone, EarlierAreOver, BuildsCovered, NEW r \in Requests, TakesTurn(r)
  PROVE  BuildsCovered'
  <1>1. /\ Running(r) /\ ~Over(r) /\ OneMoves(r) /\ before' = before
        /\ \A q \in Requests \ {r} : request'[q] = request[q]
    BY DEF TakesTurn, Running, Over, OneMoves
  <1>2. Committed \subseteq Committed'
    BY TurnGrows DEF Grows
  <1> SUFFICES ASSUME NEW q \in Requests, request'[q].route = "build",
                      \/ Running(q)' /\ Taken(q)' = 1
                      \/ \E call \in late' : call[1] = q /\ Methods[call[2]].does = "build"
               PROVE  \A p \in before'[q] : request'[p].end = "ok" => KeptEdits(p)' \subseteq Committed'
    BY DEF BuildsCovered, Covered
  <1>3. request[q].route = "build"
    BY <1>1 DEF OneMoves
  <1>4. ASSUME NEW edits, edits \subseteq Committed', Covered(q, edits)
        PROVE  \A p \in before'[q] : request'[p].end = "ok" => KeptEdits(p)' \subseteq Committed'
    BY <1>1, <1>4, EarlierStay
  <1>5. CASE \/ Running(q) /\ Taken(q) = 1
             \/ \E call \in late : call[1] = q /\ Methods[call[2]].does = "build"
    <2>1. Covered(q, Committed)
      BY <1>3, <1>5 DEF BuildsCovered
    <2>2. QED
      BY <1>2, <1>4, <2>1
  <1>6. CASE ~(\/ Running(q) /\ Taken(q) = 1
               \/ \E call \in late : call[1] = q /\ Methods[call[2]].does = "build")
    <2>1. q = r
      <3>1. SUFFICES ASSUME q # r PROVE FALSE
        OBVIOUS
      <3>2. Running(q)' = Running(q) /\ Taken(q)' = Taken(q)
        BY <1>1, <3>1, SameIs
      <3>3. \A call \in late' : call \in late \/ call = <<r, What(r)>>
        BY DEF TakesTurn, Beyond
      <3>4. QED
        BY <1>6, <3>1, <3>2, <3>3
    <2>2. Taken(r) = 0 /\ Does(r, "call") /\ What(r) = "commit_changes" /\ Methods[What(r)].does = "commit"
      BY <1>1, <1>3, <1>6, <2>1, BuildIs
    <2>3. Running(r)' /\ Taken(r)' = 1
      <3>1. \A call \in late' : call \in late \/ call = <<r, What(r)>>
        BY DEF TakesTurn, Beyond
      <3>2. QED
        BY <1>6, <2>1, <2>2, <3>1
    <2>4. Advances(r)
      <3>1. ~Stops(r) /\ ~Early(r)
        BY <2>3 DEF Stops, Early, Running, Endings
      <3>2. ~Stays(r)
        BY <1>1, <2>2, <2>3, SameRouteIs DEF Stays, Taken, OneMoves
      <3>3. ~Skips(r)
        BY <2>2, Only DEF Skips
      <3>4. QED
        BY <3>1, <3>2, <3>3 DEF TakesTurn
    <2>5. Execute(r, What(r)) /\ Conflicts = {}
      BY <2>2, <2>4 DEF Advances, CommitFails
    <2>6. revision'.edits = copy.edits /\ dropped \subseteq dropped'
      BY <2>2, <2>5, ExecuteIs DEF Done, Grows
    <2>7. Stored \subseteq Committed'
      BY <2>6 DEF Stored, Committed
    <2>8. Covered(r, Stored)
      BY DEF AnsweredIsDone, Covered, Stored, WorkspaceTypes
    <2>9. QED
      BY <1>4, <2>1, <2>7, <2>8
  <1>7. QED
    BY <1>5, <1>6

LEMMA TurnHolds ==
  ASSUME WorkspaceTypes, OnRoute, SavedStays, EarlierAreOver, BuildsCovered, BuiltHoldsTheSaved,
         NEW r \in Requests, TakesTurn(r)
  PROVE  BuiltHoldsTheSaved'
  <1>1. /\ Running(r) /\ ~Over(r) /\ OneMoves(r) /\ before' = before
        /\ \A q \in Requests \ {r} : request'[q] = request[q]
    BY DEF TakesTurn, Running, Over, OneMoves
  <1>2. dropped \subseteq dropped'
    BY TurnGrows DEF Grows
  <1> SUFFICES ASSUME NEW package \in packages', request'[package.by].route = "build"
               PROVE  \A p \in before'[package.by] :
                        request'[p].end = "ok" => KeptEdits(p)' \subseteq package.edits \cup dropped'
    BY DEF BuiltHoldsTheSaved
  <1>3. package \in packages \/ (Methods[What(r)].does = "build" /\ package = [by |-> r, edits |-> revision.edits])
    <2>1. CASE Execute(r, What(r))
      BY <2>1, ExecuteIs DEF Done
    <2>2. CASE UNCHANGED polygon
      BY <2>2 DEF polygon
    <2>3. QED
      BY <2>1, <2>2 DEF TakesTurn, Beyond
  <1>4. package.by \in Requests
    BY <1>3 DEF WorkspaceTypes
  <1>5. request[package.by].route = "build"
    BY <1>1, <1>4 DEF OneMoves
  <1> DEFINE edits == package.edits \cup dropped
             more == package.edits \cup dropped'
  <1>6. Covered(package.by, edits)
    <2>1. CASE package \in packages
      BY <1>5, <2>1 DEF BuiltHoldsTheSaved, Covered
    <2>2. CASE Methods[What(r)].does = "build" /\ package = [by |-> r, edits |-> revision.edits]
      <3>1. Taken(r) = 1
        BY <1>1, <1>5, <2>2, BuildIs
      <3>2. Covered(r, Committed)
        BY <1>1, <1>5, <2>2, <3>1 DEF BuildsCovered
      <3>3. QED
        BY <2>2, <3>2 DEF Committed
    <2>3. QED
      BY <1>3, <2>1, <2>2
  <1>7. edits \subseteq more
    BY <1>2
  <1> HIDE DEF edits, more
  <1>8. \A p \in before'[package.by] : request'[p].end = "ok" => KeptEdits(p)' \subseteq more
    BY <1>1, <1>4, <1>6, <1>7, EarlierStay
  <1>9. QED
    BY <1>8 DEF more

LEMMA ReceiveBuilds ==
  ASSUME WorkspaceTypes, OnRoute, EarlierAreOver, BuildsCovered, BuiltHoldsTheSaved, NEW r \in Requests, Receive(r)
  PROVE  EarlierAreOver' /\ BuildsCovered' /\ BuiltHoldsTheSaved'
  <1>1. /\ ~Over(r) /\ request[r].end = "new" /\ request'[r].end # "new" /\ ~Running(r)
        /\ \A q \in Requests \ {r} : request'[q] = request[q]
        /\ late' = late /\ packages' = packages /\ Committed' = Committed /\ dropped' = dropped
    BY ReceiveIs DEF Over, Running, polygon, Committed
  <1>2. /\ before'[r] = {q \in Requests : Over(q)} /\ \A q \in Requests \ {r} : before'[q] = before[q]
    BY ReceiveIs DEF WorkspaceTypes
  <1>3. Taken(r)' = 0
    <2>1. request'[r].route \in DOMAIN Routes /\ request'[r].todo = Routes[request'[r].route]
      BY ReceiveIs
    <2>2. QED
      BY <2>1, RouteIs DEF Taken, Route
  <1>4. EarlierAreOver'
    <2>1. ASSUME NEW q \in Requests, NEW p \in before'[q]
          PROVE  Over(p)'
      <3>1. p \in Requests /\ Over(p)
        BY <1>2, <2>1 DEF EarlierAreOver, WorkspaceTypes
      <3>2. QED
        BY <1>1, <3>1, OverStays
    <2>2. \A q \in Requests : request[q].end # "new" => request'[q].end # "new"
      BY <1>1
    <2>3. \A call \in late' : request'[call[1]].end # "new"
      BY <1>1, <2>2 DEF EarlierAreOver, WorkspaceTypes
    <2>4. \A package \in packages' : request'[package.by].end # "new"
      BY <1>1, <2>2 DEF EarlierAreOver, WorkspaceTypes
    <2>5. QED
      BY <2>1, <2>3, <2>4 DEF EarlierAreOver
  <1>5. BuildsCovered'
    <2> SUFFICES ASSUME NEW q \in Requests, request'[q].route = "build",
                        \/ Running(q)' /\ Taken(q)' = 1
                        \/ \E call \in late' : call[1] = q /\ Methods[call[2]].does = "build"
                 PROVE  \A p \in before'[q] : request'[p].end = "ok" => KeptEdits(p)' \subseteq Committed'
      BY DEF BuildsCovered, Covered
    <2>1. q # r
      BY <1>1, <1>3 DEF EarlierAreOver
    <2>2. Running(q)' = Running(q) /\ Taken(q)' = Taken(q) /\ request'[q] = request[q]
      BY <1>1, <2>1, SameIs
    <2>3. Covered(q, Committed) /\ before'[q] = before[q]
      BY <1>1, <1>2, <2>1, <2>2 DEF BuildsCovered
    <2>4. \A p \in before'[q] : request'[p].end = "ok" => KeptEdits(p)' \subseteq Committed
      BY <1>1, <2>3, EarlierStay
    <2>5. QED
      BY <1>1, <2>4
  <1>6. BuiltHoldsTheSaved'
    <2> SUFFICES ASSUME NEW package \in packages', request'[package.by].route = "build"
                 PROVE  \A p \in before'[package.by] :
                          request'[p].end = "ok" => KeptEdits(p)' \subseteq package.edits \cup dropped'
      BY DEF BuiltHoldsTheSaved
    <2>1. package \in packages /\ package.by \in Requests
      BY <1>1 DEF WorkspaceTypes
    <2>2. package.by # r
      BY <1>1, <2>1 DEF EarlierAreOver
    <2>3. request'[package.by] = request[package.by] /\ before'[package.by] = before[package.by]
      BY <1>1, <1>2, <2>1, <2>2
    <2> DEFINE edits == package.edits \cup dropped
    <2>4. Covered(package.by, edits)
      BY <2>1, <2>3 DEF BuiltHoldsTheSaved, Covered
    <2> HIDE DEF edits
    <2>5. \A p \in before'[package.by] : request'[p].end = "ok" => KeptEdits(p)' \subseteq edits
      BY <1>1, <2>1, <2>3, <2>4, EarlierStay
    <2>6. QED
      BY <1>1, <2>5 DEF edits
  <1>7. QED
    BY <1>4, <1>5, <1>6

LEMMA ElsewhereBuilds ==
  ASSUME WorkspaceTypes, EarlierAreOver, BuildsCovered, BuiltHoldsTheSaved, Elsewhere
  PROVE  EarlierAreOver' /\ BuildsCovered' /\ BuiltHoldsTheSaved'
  <1>1. /\ request' = request /\ before' = before /\ late' \subseteq late
        /\ Committed \subseteq Committed' /\ dropped \subseteq dropped'
    BY DEF Elsewhere, Grows
  <1>2. \A q : Over(q)' = Over(q) /\ Running(q)' = Running(q) /\ Taken(q)' = Taken(q) /\ KeptEdits(q)' = KeptEdits(q)
    BY <1>1, SameIs
  <1>3. \A package \in packages' : package \in packages \/
          \E call \in late : Methods[call[2]].does = "build" /\ package = [by |-> call[1], edits |-> revision.edits]
    BY DEF Elsewhere
  <1>4. EarlierAreOver'
    BY <1>1, <1>2, <1>3 DEF EarlierAreOver
  <1>5. BuildsCovered'
    <2>1. ASSUME NEW q \in Requests, Covered(q, Committed)
          PROVE  Covered(q, Committed)'
      BY <1>1, <1>2, <2>1 DEF Covered
    <2>2. QED
      BY <1>1, <1>2, <2>1 DEF BuildsCovered
  <1>6. BuiltHoldsTheSaved'
    <2> SUFFICES ASSUME NEW package \in packages', request[package.by].route = "build",
                        NEW p \in before[package.by], request[p].end = "ok"
                 PROVE  KeptEdits(p) \subseteq package.edits \cup dropped'
      BY <1>1, <1>2 DEF BuiltHoldsTheSaved
    <2>1. CASE package \in packages
      BY <1>1, <2>1 DEF BuiltHoldsTheSaved
    <2>2. CASE \E call \in late : Methods[call[2]].does = "build" /\ package = [by |-> call[1], edits |-> revision.edits]
      <3>1. PICK call \in late : Methods[call[2]].does = "build" /\ package = [by |-> call[1], edits |-> revision.edits]
        BY <2>2
      <3>2. package.by = call[1] /\ package.edits = revision.edits /\ call[1] \in Requests
        BY <3>1 DEF WorkspaceTypes
      <3>3. Covered(call[1], Committed)
        BY <3>1, <3>2 DEF BuildsCovered
      <3>4. KeptEdits(p) \subseteq Committed
        BY <3>2, <3>3 DEF Covered
      <3>5. QED
        BY <1>1, <3>2, <3>4 DEF Committed
    <2>3. QED
      BY <1>3, <2>1, <2>2
  <1>7. QED
    BY <1>4, <1>5, <1>6

-----------------------------------------------------------------------------
(* Sessions. *)
\* A step at hand is the one after the last step taken.
LEMMA AtHand ==
  ASSUME WorkspaceTypes, OnRoute, NEW r \in Requests, NEW does, Does(r, does)
  PROVE  /\ Route(r)[Taken(r) + 1].does = does /\ Route(r)[Taken(r) + 1].what = What(r)
         /\ Taken(r) + 1 \in DOMAIN Route(r) /\ Taken(r) \in Nat
  <1>1. Running(r)
    BY Only
  <1>2. QED
    BY <1>1, TodoIs DEF Does, What

\* A load is passed over together with its flush.
LEMMA SkippedIs ==
  ASSUME WorkspaceTypes, OnRoute, NEW r \in Requests, Does(r, "load")
  PROVE  /\ Route(r)[Taken(r) + 2].does = "flush" /\ Route(r)[Taken(r) + 2].what = What(r)
         /\ Taken(r) + 2 \in DOMAIN Route(r) /\ What(r) \in RowNames
  <1>1. /\ Route(r)[Taken(r) + 1].does = "load" /\ Route(r)[Taken(r) + 1].what = What(r)
        /\ Taken(r) + 1 \in DOMAIN Route(r) /\ Taken(r) \in Nat
    BY AtHand
  <1>2. Shape(Route(r)) /\ DOMAIN Route(r) = 1..Len(Route(r)) /\ Len(Route(r)) \in Nat
    BY TodoIs DEF Does
  <1>3. Taken(r) + 2 \in DOMAIN Route(r) /\ Route(r)[Taken(r) + 2].does = "flush" /\ What(r) \in RowNames
    BY <1>1, <1>2 DEF Shape
  <1>4. Route(r)[(Taken(r) + 2) - 1].what = Route(r)[Taken(r) + 2].what
    BY <1>2, <1>3 DEF Shape
  <1>5. QED
    BY <1>1, <1>3, <1>4

LEMMA TurnSessions ==
  ASSUME WorkspaceTypes, OnRoute, EarlierAreOver, AddersAreFirst, NEW r \in Requests, TakesTurn(r)
  PROVE  AddersAreFirst' /\ SessionIsFound
  <1>1. /\ Running(r) /\ ~Over(r) /\ OneMoves(r) /\ before' = before
        /\ \A q \in Requests \ {r} : request'[q] = request[q]
        /\ sessions' = sessions \/ (Does(r, "add") /\ sessions' = sessions \cup {r})
    BY DEF TakesTurn, Running, Over, OneMoves, Beyond
  <1>2. SessionIsFound
    BY <1>1 DEF SessionIsFound, AddersAreFirst
  <1>3. ASSUME NEW q \in Requests, Does(q, "add")'
        PROVE  before'[q] \cap sessions' = {}
    <2>1. CASE q # r
      <3>1. Does(q, "add")
        BY <1>1, <1>3, <2>1, SameIs
      <3>2. r \notin before[q] /\ before[q] \cap sessions = {}
        BY <1>1, <3>1 DEF EarlierAreOver, AddersAreFirst
      <3>3. QED
        BY <1>1, <3>2
    <2>2. CASE q = r
      <3>1. Running(r)' /\ Does(r, "add")'
        BY <1>3, <2>2 DEF Does
      <3>2. /\ Taken(r) \in Nat /\ Shape(Route(r)) /\ Taken(r) + 1 \in DOMAIN Route(r)
            /\ Head(request[r].todo) = Route(r)[Taken(r) + 1]
        BY <1>1, TodoIs
      <3>3. ASSUME NEW n \in {1, 2}, Shifted(r, n)
            PROVE  Route(r)[Taken(r) + n].does = "find"
        <4>1. Route(r)[Taken(r) + n + 1].does = "add" /\ Taken(r) + n + 1 \in DOMAIN Route(r)
          BY <1>1, <3>1, <3>3, ShiftedIs
        <4>2. Route(r)[(Taken(r) + n + 1) - 1].does = "find"
          BY <3>2, <4>1 DEF Shape
        <4>3. (Taken(r) + n + 1) - 1 = Taken(r) + n
          BY <3>2
        <4>4. QED
          BY <4>2, <4>3
      <3>4. ~Stops(r) /\ ~Early(r)
        BY <3>1 DEF Stops, Early, Running, Endings
      <3>5. ~Stays(r)
        BY <3>1 DEF Stays, Does
      <3>6. ~Skips(r)
        BY <3>3, SkippedIs DEF Skips
      <3>7. Advances(r) /\ Does(r, "find")
        BY <1>1, <3>2, <3>3, <3>4, <3>5, <3>6 DEF TakesTurn, Advances, Does
      <3>8. sessions = {} /\ sessions' = sessions
        BY <1>1, <3>7, Only DEF Advances
      <3>9. QED
        BY <2>2, <3>8
    <2>3. QED
      BY <2>1, <2>2
  <1>4. QED
    BY <1>2, <1>3 DEF AddersAreFirst

LEMMA ReceiveSessions ==
  ASSUME WorkspaceTypes, OnRoute, AddersAreFirst, NEW r \in Requests, Receive(r)
  PROVE  AddersAreFirst' /\ SessionIsFound
  <1>1. sessions' = sessions /\ \A q \in Requests \ {r} : request'[q] = request[q] /\ before'[q] = before[q]
    BY ReceiveIs DEF WorkspaceTypes
  <1>2. ASSUME NEW q \in Requests, Does(q, "add")'
        PROVE  q # r
    <2>1. SUFFICES ASSUME q = r PROVE FALSE
      OBVIOUS
    <2> DEFINE todo == request'[r].todo
    <2>2. request'[r].route \in DOMAIN Routes /\ todo = Routes[request'[r].route]
      BY ReceiveIs
    <2>3. Shape(todo) /\ todo \in Seq(AnyStep) /\ Len(todo) \in Nat \ {0} /\ DOMAIN todo = 1..Len(todo)
      BY <2>2, RouteIs
    <2>4. Head(todo).does = "add"
      BY <1>2, <2>1 DEF Does
    <2> HIDE DEF todo
    <2>5. Head(todo) = todo[1] /\ 1 \in DOMAIN todo
      BY <2>3
    <2>6. QED
      BY <2>3, <2>4, <2>5 DEF Shape
  <1>3. ASSUME NEW q \in Requests, Does(q, "add")'
        PROVE  before'[q] \cap sessions' = {}
    <2>1. q # r
      BY <1>2, <1>3
    <2>2. Does(q, "add")
      BY <1>1, <1>3, <2>1, SameIs
    <2>3. QED
      BY <1>1, <2>1, <2>2 DEF AddersAreFirst
  <1>4. SessionIsFound
    BY <1>1 DEF SessionIsFound
  <1>5. QED
    BY <1>3, <1>4 DEF AddersAreFirst

LEMMA ElsewhereSessions ==
  ASSUME AddersAreFirst, Elsewhere
  PROVE  AddersAreFirst' /\ SessionIsFound
  <1>1. request' = request /\ before' = before /\ sessions' = sessions
    BY DEF Elsewhere
  <1>2. \A q : Does(q, "add")' = Does(q, "add")
    BY <1>1, SameIs
  <1>3. QED
    BY <1>1, <1>2 DEF AddersAreFirst, SessionIsFound

-----------------------------------------------------------------------------
(* Rows. *)
Brings(step, table) == step.does = "flush" /\ step.what = table /\ table # "problem"
LEMMA RefreshedIs ==
  ASSUME NEW steps, NEW table
  PROVE  table \in Refreshed(steps) <=> \E i \in DOMAIN steps : Brings(steps[i], table)
  BY DEF Refreshed, Members, Brings

\* A row the route refreshes is brought by a step taken, or by one still to take.
LEMMA BroughtIs ==
  ASSUME WorkspaceTypes, OnRoute, NEW r \in Requests, Running(r), NEW table \in Refreshed(Route(r)),
         table \notin Refreshed(request[r].todo)
  PROVE  \E i \in 1..Taken(r) : i \in DOMAIN Route(r) /\ Brings(Route(r)[i], table)
  <1>1. PICK i \in DOMAIN Route(r) : Brings(Route(r)[i], table)
    BY RefreshedIs
  <1> DEFINE todo == request[r].todo
  <1>2. /\ todo \in Seq(AnyStep) /\ Len(todo) \in Nat /\ Taken(r) \in Nat /\ DOMAIN Route(r) = 1..Len(Route(r))
        /\ Taken(r) + Len(todo) = Len(Route(r)) /\ Len(Route(r)) \in Nat
    BY TodoIs
  <1>3. \A k \in 1..Len(todo) : todo[k] = Route(r)[Taken(r) + k]
    BY DEF OnRoute
  <1>4. \A k \in DOMAIN todo : ~Brings(todo[k], table)
    BY RefreshedIs
  <1> HIDE DEF todo
  <1>5. DOMAIN todo = 1..Len(todo)
    BY <1>2
  <1>6. CASE i > Taken(r)
    <2>1. i - Taken(r) \in 1..Len(todo) /\ Taken(r) + (i - Taken(r)) = i
      BY <1>2, <1>6
    <2>2. QED
      BY <1>1, <1>3, <1>4, <1>5, <2>1
  <1>7. QED
    BY <1>1, <1>2, <1>6

LEMMA NewTodoIs ==
  ASSUME NEW r \in Requests, OneMoves(r)
  PROVE  DOMAIN request'[r].todo = 1..Len(request'[r].todo)
  BY DEF OneMoves, RequestType

\* A row no longer to come was brought by a step just taken.
LEMMA JustBrought ==
  ASSUME WorkspaceTypes, OnRoute, NEW r \in Requests, Running(r), OneMoves(r), NEW n \in {1, 2}, Shifted(r, n),
         NEW table \in Refreshed(request[r].todo),
         request'[r].end = "running" => table \notin Refreshed(request'[r].todo)
  PROVE  \E i \in 1..n : Taken(r) + i \in DOMAIN Route(r) /\ Brings(Route(r)[Taken(r) + i], table)
  <1> DEFINE todo == request[r].todo
             new == request'[r].todo
  <1>1. /\ todo \in Seq(AnyStep) /\ Len(todo) \in Nat /\ Taken(r) \in Nat /\ DOMAIN Route(r) = 1..Len(Route(r))
        /\ Taken(r) + Len(todo) = Len(Route(r)) /\ Len(Route(r)) \in Nat
    BY TodoIs
  <1>2. \A k \in 1..Len(todo) : todo[k] = Route(r)[Taken(r) + k]
    BY DEF OnRoute
  <1>3. PICK k \in DOMAIN todo : Brings(todo[k], table)
    BY RefreshedIs
  <1>4. ASSUME k > n
        PROVE  \E i \in DOMAIN new : Brings(new[i], table)
    <2>1. Len(todo) > n
      BY <1>1, <1>3, <1>4
    <2>2. Len(new) = Len(todo) - n /\ \A i \in 1..(Len(todo) - n) : new[i] = todo[i + n]
      BY <2>1 DEF Shifted
    <2>3. k - n \in 1..(Len(todo) - n) /\ (k - n) + n = k
      BY <1>1, <1>3, <1>4, SMTT(30)
    <2>4. k - n \in DOMAIN new
      <3>1. request'[r].end = "running"
        BY <2>1 DEF Shifted
      <3>2. QED
        BY <2>2, <2>3, <3>1, NewTodoIs
    <2>5. QED
      BY <1>3, <2>2, <2>3, <2>4
  <1>5. ~(k > n)
    <2>1. SUFFICES ASSUME k > n PROVE FALSE
      OBVIOUS
    <2>2. request'[r].end = "running"
      BY <1>1, <1>3, <2>1 DEF Shifted
    <2>3. QED
      BY <1>4, <2>1, <2>2, RefreshedIs
  <1> HIDE DEF todo, new
  <1>6. k \in 1..n /\ k \in 1..Len(todo)
    BY <1>1, <1>3, <1>5
  <1>7. QED
    BY <1>1, <1>2, <1>3, <1>6

\* Who has not been overtaken in this turn.
LEMMA OvertakesIs ==
  ASSUME NEW who, Overtakes(who)
  PROVE  /\ \A q \in Requests : q # who /\ q \notin disturbed' /\ Running(q) =>
              q \notin disturbed /\ copy'.value = copy.value /\ rows' = rows
         /\ who \in Requests /\ who \notin disturbed' =>
              \/ who \notin disturbed
              \/ Does(who, "call") /\ Refreshed(request[who].todo) = Refreshed(Route(who))
  BY DEF Overtakes, Route

\* At a flush the answer is what Polygon has, and so is the row afterwards.
LEMMA FlushIsFresh ==
  ASSUME WorkspaceTypes, OnRoute, AnswersAreFresh, NEW r \in Requests, Does(r, "flush"), What(r) # "problem",
         r \notin disturbed, Beyond(r), Advances(r)
  PROVE  /\ rows'[What(r)] = copy'.value[What(r)]
         /\ \A table \in RowNames \ {What(r)} : rows'[table] = rows[table]
  <1>1. request[r].answer = copy.value[What(r)] /\ request[r].loaded = rows[What(r)]
    BY Only DEF AnswersAreFresh, Current
  <1>2. rows' = IF request[r].answer = request[r].loaded THEN rows ELSE [rows EXCEPT ![What(r)] = request[r].answer]
    BY DEF Advances
  <1>3. copy' = copy
    BY Only DEF Beyond, polygon
  <1>4. rows \in [RowNames -> Contents] /\ What(r) \in RowNames
    <2>1. /\ Route(r)[Taken(r) + 1].does = "flush" /\ Route(r)[Taken(r) + 1].what = What(r)
          /\ Taken(r) + 1 \in DOMAIN Route(r) /\ Taken(r) \in Nat
      BY AtHand
    <2>2. Shape(Route(r)) /\ DOMAIN Route(r) = 1..Len(Route(r)) /\ Len(Route(r)) \in Nat
      BY TodoIs DEF Does
    <2>3. Taken(r) \in DOMAIN Route(r) /\ Route(r)[Taken(r)].does = "load" /\ Route(r)[Taken(r)].what = What(r)
      <3>1. (Taken(r) + 1) - 1 = Taken(r) /\ (Taken(r) + 1 > 1 => Taken(r) \in 1..Len(Route(r)))
        BY <2>1, <2>2
      <3>2. QED
        BY <2>1, <2>2, <3>1 DEF Shape
    <2>4. QED
      BY <2>2, <2>3 DEF Shape, WorkspaceTypes
  <1>5. QED
    BY <1>1, <1>2, <1>3, <1>4

\* After its turn a request nobody overtook has fresh rows where it has refreshed.
LEMMA TurnRefreshes ==
  ASSUME WorkspaceTypes, OnRoute, SavedStays, RowsAreFresh, AnswersAreFresh, NEW r \in Requests, TakesTurn(r),
         Overtakes(r), r \notin disturbed', rows'.problem # Nil,
         Stays(r) \/ Skips(r) \/ Advances(r) \/ (Early(r) /\ Does(r, "find")),
         NEW table \in Refreshed(Route(r)), request'[r].end = "running" => table \notin Refreshed(request'[r].todo)
  PROVE  rows'[table] = copy'.value[table]
  <1>1. Running(r) /\ OneMoves(r) /\ Beyond(r)
    BY DEF TakesTurn
  <1>2. /\ Taken(r) \in Nat /\ DOMAIN Route(r) = 1..Len(Route(r)) /\ Len(Route(r)) \in Nat
        /\ Shape(Route(r)) /\ Taken(r) + 1 \in DOMAIN Route(r)
    BY <1>1, TodoIs
  <1>3. PICK b \in DOMAIN Route(r) : Brings(Route(r)[b], table)
    BY RefreshedIs
  <1>4. ~(Early(r) /\ Does(r, "find"))
    <2>1. SUFFICES ASSUME Does(r, "find") PROVE FALSE
      OBVIOUS
    <2>2. Route(r)[Taken(r) + 1].does = "find"
      BY <2>1, AtHand
    <2>3. QED
      BY <1>2, <1>3, <2>2 DEF Shape, Brings
  <1>5. \A k \in DOMAIN Route(r) : Route(r)[k].does = "flush" => Route(r)[k].what # "problem"
    BY <1>2, <1>3 DEF Shape, Brings
  <1>6. \/ table \notin Refreshed(request[r].todo)
        \/ Advances(r) /\ Does(r, "flush") /\ What(r) = table
    <2> SUFFICES ASSUME table \in Refreshed(request[r].todo)
                 PROVE  Advances(r) /\ Does(r, "flush") /\ What(r) = table
      OBVIOUS
    <2>1. ~Stays(r)
      BY DEF Stays
    <2>2. ~Skips(r)
      <3>1. SUFFICES ASSUME Skips(r) PROVE FALSE
        OBVIOUS
      <3>2. /\ Does(r, "load") /\ Nothing(r) /\ Shifted(r, 2) /\ Route(r)[Taken(r) + 1].does = "load"
            /\ Route(r)[Taken(r) + 2].does = "flush" /\ Route(r)[Taken(r) + 2].what = What(r)
            /\ Taken(r) + 2 \in DOMAIN Route(r)
        BY <3>1, AtHand, SkippedIs DEF Skips
      <3>3. What(r) # "problem"
        BY <1>5, <3>2
      <3>4. rows.problem = Nil
        BY <3>2, <3>3 DEF Nothing
      <3>5. rows' = rows
        BY <1>1, <3>2, Only DEF Beyond
      <3>6. QED
        BY <3>4, <3>5
    <2>3. Advances(r) /\ Shifted(r, 1)
      BY <1>4, <2>1, <2>2 DEF Advances
    <2>4. Brings(Route(r)[Taken(r) + 1], table)
      <3>1. PICK i \in 1..1 : Brings(Route(r)[Taken(r) + i], table)
        BY <1>1, <2>3, JustBrought
      <3>2. QED
        BY <3>1
    <2>5. QED
      BY <1>1, <2>3, <2>4, TodoIs DEF Brings, Does, What
  <1>7. CASE Advances(r) /\ Does(r, "flush") /\ What(r) = table
    <2>1. r \notin disturbed
      BY <1>7, OvertakesIs, Only
    <2>2. table # "problem"
      BY <1>3 DEF Brings
    <2>3. QED
      BY <1>1, <1>7, <2>1, <2>2, FlushIsFresh
  <1>8. CASE table \notin Refreshed(request[r].todo) /\ ~(Advances(r) /\ Does(r, "flush") /\ What(r) = table)
    <2>1. PICK i \in 1..Taken(r) : i \in DOMAIN Route(r) /\ Brings(Route(r)[i], table)
      BY <1>1, <1>8, BroughtIs
    <2>2. r \notin disturbed
      BY <1>8, OvertakesIs
    <2>3. copy' = copy
      <3>1. CASE Does(r, "call")
        <4>1. Route(r)[Taken(r) + 1].does = "call" /\ Route(r)[Taken(r) + 1].what = What(r)
          BY <3>1, AtHand
        <4>2. Taken(r) + 1 > i
          BY <1>2, <2>1
        <4>3. Methods[What(r)].does = "read"
          BY <1>2, <2>1, <4>1, <4>2 DEF Shape, Brings
        <4>4. UNCHANGED polygon
          BY <1>1, <4>3, ExecuteIs DEF Beyond, Done
        <4>5. QED
          BY <4>4 DEF polygon
      <3>2. CASE ~Does(r, "call")
        BY <1>1, <3>2 DEF Beyond, polygon
      <3>3. QED
        BY <3>1, <3>2
    <2>4. rows'.problem = rows.problem /\ rows'[table] = rows[table]
      <3>1. CASE Does(r, "flush") /\ Advances(r)
        <4>1. Route(r)[Taken(r) + 1].does = "flush" /\ Route(r)[Taken(r) + 1].what = What(r)
          BY <3>1, AtHand
        <4>2. What(r) # "problem"
          BY <1>2, <1>5, <4>1
        <4>3. \A other \in RowNames \ {What(r)} : rows'[other] = rows[other]
          BY <1>1, <2>2, <3>1, <4>2, FlushIsFresh
        <4>4. table \in RowNames /\ table # What(r)
          <5>1. i > 1 /\ Route(r)[i - 1].does = "load" /\ Route(r)[i - 1].what = table
            BY <1>2, <2>1 DEF Shape, Brings
          <5>2. i - 1 \in DOMAIN Route(r)
            BY <1>2, <2>1, <5>1
          <5>3. table \in RowNames
            BY <1>2, <5>1, <5>2 DEF Shape
          <5>4. QED
            BY <1>8, <3>1, <5>3
        <4>5. "problem" \in RowNames
          BY DEF RowNames
        <4>6. QED
          BY <4>2, <4>3, <4>4, <4>5
      <3>2. CASE rows' = rows
        BY <3>2
      <3>3. QED
        BY <1>1, <3>1, <3>2 DEF Beyond
    <2>5. rows[table] = copy.value[table]
      BY <1>1, <1>8, <2>2, <2>4 DEF RowsAreFresh, Current
    <2>6. QED
      BY <2>3, <2>4, <2>5
  <1>9. QED
    BY <1>6, <1>7, <1>8

\* What a request nobody overtook holds in its hands is what Polygon has.
LEMMA TurnAnswers ==
  ASSUME WorkspaceTypes, OnRoute, SavedStays, AnswersAreFresh, NEW r \in Requests, TakesTurn(r),
         Overtakes(r), r \notin disturbed', Running(r)', What(r)' # "problem"
  PROVE  /\ Does(r, "load")' \/ Does(r, "flush")' => request'[r].answer = copy'.value[What(r)']
         /\ Does(r, "flush")' => request'[r].loaded = rows'[What(r)']
  <1>1. Running(r) /\ OneMoves(r) /\ Beyond(r) /\ request'[r].end = "running"
    BY DEF TakesTurn, Running
  <1>2. /\ Taken(r) \in Nat /\ DOMAIN Route(r) = 1..Len(Route(r)) /\ Len(Route(r)) \in Nat
        /\ Shape(Route(r)) /\ Taken(r) + 1 \in DOMAIN Route(r)
    BY <1>1, TodoIs
  <1> SUFFICES ASSUME Does(r, "load")' \/ Does(r, "flush")'
               PROVE  /\ request'[r].answer = copy'.value[What(r)']
                      /\ Does(r, "flush")' => request'[r].loaded = rows'[What(r)']
    OBVIOUS
  <1>3. ASSUME NEW n \in {1, 2}, Shifted(r, n)
        PROVE  /\ Does(r, "load")' => Tells(Route(r)[Taken(r) + n], What(r)')
               /\ Does(r, "flush")' =>
                    Route(r)[Taken(r) + n].does = "load" /\ Route(r)[Taken(r) + n].what = What(r)'
    <2>1. /\ \A does : Does(r, does)' => Route(r)[Taken(r) + n + 1].does = does
          /\ What(r)' = Route(r)[Taken(r) + n + 1].what /\ Taken(r) + n + 1 \in DOMAIN Route(r)
      BY <1>1, <1>3, ShiftedIs
    <2>2. (Taken(r) + n + 1) - 1 = Taken(r) + n
      BY <1>2
    <2>3. QED
      BY <1>2, <2>1, <2>2 DEF Shape
  <1>4. ~Stops(r) /\ ~Early(r)
    BY <1>1 DEF Stops, Early, Endings
  <1>5. ~Stays(r)
    BY DEF Stays, Does
  <1>6. ~Skips(r)
    <2>1. SUFFICES ASSUME Skips(r) PROVE FALSE
      OBVIOUS
    <2>2. Shifted(r, 2) /\ Route(r)[Taken(r) + 2].does = "flush"
      BY <2>1, SkippedIs DEF Skips
    <2>3. QED
      BY <1>3, <2>2 DEF Tells
  <1>7. Advances(r) /\ Shifted(r, 1)
    BY <1>4, <1>5, <1>6 DEF TakesTurn, Advances
  <1>8. CASE Does(r, "load")'
    <2>1. Tells(Route(r)[Taken(r) + 1], What(r)')
      BY <1>3, <1>7, <1>8
    <2>2. Does(r, "call") /\ Route(r)[Taken(r) + 1].what = What(r)
      BY <1>1, <2>1, TodoIs DEF Tells, Does, What
    <2>3. Methods[What(r)].does = "read" /\ Methods[What(r)].part = What(r)' /\ What(r)' \in Parts
      BY <2>1, <2>2 DEF Tells
    <2>4. Execute(r, What(r)) /\ request'[r].answer = Answer(What(r))
      BY <1>1, <1>7, <2>2 DEF Advances
    <2>5. copy' = copy
      BY <2>3, <2>4, ExecuteIs DEF Done, polygon
    <2>6. Answer(What(r)) = copy.value[What(r)']
      BY <2>3 DEF Answer
    <2>7. ~Does(r, "flush")'
      BY <1>8 DEF Does
    <2>8. QED
      BY <2>4, <2>5, <2>6, <2>7
  <1>9. CASE Does(r, "flush")'
    <2>1. Route(r)[Taken(r) + 1].does = "load" /\ Route(r)[Taken(r) + 1].what = What(r)'
      BY <1>3, <1>7, <1>9
    <2>2. Does(r, "load") /\ What(r) = What(r)'
      BY <1>1, <2>1, TodoIs DEF Does, What
    <2>3. request'[r].answer = request[r].answer /\ request'[r].loaded = rows[What(r)]
      BY <1>1, <1>7, <2>2 DEF Advances
    <2>4. rows' = rows /\ copy' = copy /\ r \notin disturbed
      BY <1>1, <2>2, Only, OvertakesIs DEF Beyond, polygon
    <2>5. request[r].answer = copy.value[What(r)]
      BY <1>1, <2>2, <2>4 DEF AnswersAreFresh, Current
    <2>6. QED
      BY <2>2, <2>3, <2>4, <2>5
  <1>10. QED
    BY <1>8, <1>9

LEMMA OthersStayFresh ==
  ASSUME WorkspaceTypes, RowsAreFresh, AnswersAreFresh, NEW q \in Requests, request'[q] = request[q],
         NEW who, who # q, Overtakes(who), Current(q)'
  PROVE  /\ rows'.problem # Nil =>
              \A table \in Refreshed(Route(q)') \ Refreshed(request'[q].todo) : rows'[table] = copy'.value[table]
         /\ What(q)' # "problem" =>
              /\ Does(q, "load")' \/ Does(q, "flush")' => request'[q].answer = copy'.value[What(q)']
              /\ Does(q, "flush")' => request'[q].loaded = rows'[What(q)']
  <1>1. Running(q) /\ Route(q)' = Route(q) /\ What(q)' = What(q) /\ \A does : Does(q, does)' = Does(q, does)
    BY SameIs DEF Current
  <1>2. q \notin disturbed /\ copy'.value = copy.value /\ rows' = rows
    BY <1>1, OvertakesIs DEF Current
  <1>3. Current(q)
    BY <1>1, <1>2 DEF Current
  <1>4. QED
    BY <1>1, <1>2, <1>3 DEF RowsAreFresh, AnswersAreFresh

LEMMA TurnRows ==
  ASSUME WorkspaceTypes, OnRoute, SavedStays, RowsAreFresh, AnswersAreFresh, NEW r \in Requests, TakesTurn(r), Overtakes(r)
  PROVE  RowsAreFresh' /\ AnswersAreFresh' /\ RefreshIsFresh
  <1>1. /\ Running(r) /\ OneMoves(r) /\ Route(r)' = Route(r)
        /\ \A q \in Requests \ {r} : request'[q] = request[q]
    BY SameRouteIs DEF TakesTurn, OneMoves
  <1>2. Running(r)' => Stays(r) \/ Skips(r) \/ Advances(r)
    BY DEF TakesTurn, Stops, Early, Running, Endings
  <1>3. ASSUME NEW q \in Requests, Current(q)', rows'.problem # Nil,
               NEW table \in Refreshed(Route(q)') \ Refreshed(request'[q].todo)
        PROVE  rows'[table] = copy'.value[table]
    <2>1. CASE q = r
      <3>1. Running(r)' /\ r \notin disturbed' /\ table \in Refreshed(Route(r)) /\ table \notin Refreshed(request'[r].todo)
        BY <1>1, <1>3, <2>1 DEF Current
      <3>2. QED
        BY <1>2, <1>3, <3>1, TurnRefreshes
    <2>2. CASE q # r
      BY <1>1, <1>3, <2>2, OthersStayFresh
    <2>3. QED
      BY <2>1, <2>2
  <1>4. ASSUME NEW q \in Requests, Current(q)', What(q)' # "problem"
        PROVE  /\ Does(q, "load")' \/ Does(q, "flush")' => request'[q].answer = copy'.value[What(q)']
               /\ Does(q, "flush")' => request'[q].loaded = rows'[What(q)']
    <2>1. CASE q = r
      <3>1. Running(r)' /\ r \notin disturbed' /\ What(r)' # "problem"
        BY <1>4, <2>1 DEF Current
      <3>2. QED
        BY <2>1, <3>1, TurnAnswers
    <2>2. CASE q # r
      BY <1>1, <1>4, <2>2, OthersStayFresh
    <2>3. QED
      BY <2>1, <2>2
  <1>5. ASSUME NEW q \in Requests, Running(q), ~Does(q, "peek"), request'[q].end = "ok", q \notin disturbed',
               rows'.problem # Nil, NEW table \in Refreshed(Routes[request[q].route])
        PROVE  rows'[table] = copy'.value[table]
    <2>1. q = r
      BY <1>1, <1>5 DEF Running
    <2>2. Stays(r) \/ Skips(r) \/ Advances(r) \/ (Early(r) /\ Does(r, "find"))
      BY <1>5, <2>1 DEF TakesTurn, Stops, Early
    <2>3. QED
      BY <1>5, <2>1, <2>2, TurnRefreshes DEF Route
  <1>6. RowsAreFresh'
    BY <1>3 DEF RowsAreFresh
  <1>7. AnswersAreFresh'
    BY <1>4 DEF AnswersAreFresh
  <1>8. RefreshIsFresh
    BY <1>5 DEF RefreshIsFresh
  <1>9. QED
    BY <1>6, <1>7, <1>8

LEMMA ReceiveRows ==
  ASSUME WorkspaceTypes, OnRoute, RowsAreFresh, AnswersAreFresh, NEW r \in Requests, Receive(r), Overtakes(r)
  PROVE  RowsAreFresh' /\ AnswersAreFresh' /\ RefreshIsFresh
  <1>1. /\ ~Running(r) /\ request'[r].end = "running"
        /\ \A q \in Requests \ {r} : request'[q] = request[q]
    BY ReceiveIs DEF Running
  <1> DEFINE todo == request'[r].todo
  <1>2. request'[r].route \in DOMAIN Routes /\ todo = Routes[request'[r].route]
    BY ReceiveIs
  <1>3. Route(r)' = todo
    BY <1>2 DEF Route
  <1>4. ~Does(r, "load")' /\ ~Does(r, "flush")'
    <2>1. Shape(todo) /\ todo \in Seq(AnyStep) /\ Len(todo) \in Nat \ {0} /\ DOMAIN todo = 1..Len(todo)
      BY <1>2, RouteIs
    <2> HIDE DEF todo
    <2>2. Head(todo) = todo[1] /\ 1 \in DOMAIN todo
      BY <2>1
    <2>3. Head(todo).does \notin {"load", "flush"}
      BY <2>1, <2>2 DEF Shape
    <2>4. QED
      BY <2>3 DEF Does, todo
  <1>5. ASSUME NEW q \in Requests, Current(q)', rows'.problem # Nil,
               NEW table \in Refreshed(Route(q)') \ Refreshed(request'[q].todo)
        PROVE  rows'[table] = copy'.value[table]
    <2>1. CASE q = r
      BY <1>3, <1>5, <2>1
    <2>2. CASE q # r
      BY <1>1, <1>5, <2>2, OthersStayFresh
    <2>3. QED
      BY <2>1, <2>2
  <1>6. ASSUME NEW q \in Requests, Current(q)', What(q)' # "problem"
        PROVE  /\ Does(q, "load")' \/ Does(q, "flush")' => request'[q].answer = copy'.value[What(q)']
               /\ Does(q, "flush")' => request'[q].loaded = rows'[What(q)']
    <2>1. CASE q = r
      BY <1>4, <2>1
    <2>2. CASE q # r
      BY <1>1, <1>6, <2>2, OthersStayFresh
    <2>3. QED
      BY <2>1, <2>2
  <1>7. RowsAreFresh'
    BY <1>5 DEF RowsAreFresh
  <1>8. AnswersAreFresh'
    BY <1>6 DEF AnswersAreFresh
  <1>9. RefreshIsFresh
    BY <1>1 DEF RefreshIsFresh, Running
  <1>10. QED
    BY <1>7, <1>8, <1>9

LEMMA ElsewhereRows ==
  ASSUME WorkspaceTypes, OnRoute, RowsAreFresh, AnswersAreFresh, Elsewhere, Overtakes(Nil)
  PROVE  RowsAreFresh' /\ AnswersAreFresh' /\ RefreshIsFresh
  <1>1. request' = request /\ \A q \in Requests : q # Nil
    BY RequestsAssumption DEF Elsewhere
  <1>2. ASSUME NEW q \in Requests, Current(q)', rows'.problem # Nil,
               NEW table \in Refreshed(Route(q)') \ Refreshed(request'[q].todo)
        PROVE  rows'[table] = copy'.value[table]
    BY <1>1, <1>2, OthersStayFresh
  <1>3. ASSUME NEW q \in Requests, Current(q)', What(q)' # "problem"
        PROVE  /\ Does(q, "load")' \/ Does(q, "flush")' => request'[q].answer = copy'.value[What(q)']
               /\ Does(q, "flush")' => request'[q].loaded = rows'[What(q)']
    BY <1>1, <1>3, OthersStayFresh
  <1>4. RowsAreFresh'
    BY <1>2 DEF RowsAreFresh
  <1>5. AnswersAreFresh'
    BY <1>3 DEF AnswersAreFresh
  <1>6. RefreshIsFresh
    BY <1>1 DEF RefreshIsFresh, Running
  <1>7. QED
    BY <1>4, <1>5, <1>6

-----------------------------------------------------------------------------
(* All together. *)
LEMMA WorkspaceInitIs ==
  ASSUME WorkspaceInit
  PROVE  WorkspaceInv
  <1>1. /\ request = [r \in Requests |-> NoRequest]
        /\ copy = [value |-> [p \in Parts |-> Old], edits |-> {}] /\ revision = copy
        /\ packages = {} /\ dropped = {} /\ sessions = {} /\ late = {} /\ before = [r \in Requests |-> {}]
    BY DEF WorkspaceInit
  <1>2. \A r \in Requests : request[r] = NoRequest /\ request[r].end = "new" /\ request[r].route = Nil /\ before[r] = {}
    BY <1>1 DEF NoRequest
  <1>3. rows \in [RowNames -> Contents]
    BY DEF WorkspaceInit, RowNames, Contents
  <1>4. WorkspaceTypes
    <2>1. request \in [Requests -> RequestType]
      BY <1>1, NoRequestIs
    <2> DEFINE value == [p \in Parts |-> Old]
    <2>2. value \in [Parts -> Contents]
      BY DEF Contents
    <2> HIDE DEF value
    <2>3. CopyIs(copy) /\ CopyIs(revision)
      BY <1>1, <2>2 DEF CopyIs, value
    <2>4. QED
      BY <1>1, <1>3, <2>1, <2>3 DEF WorkspaceTypes
  <1>5. \A r \in Requests : ~Running(r) /\ request[r].end # "ok" /\ \A does : ~Does(r, does)
    BY <1>2 DEF Running, Does
  <1>6. revision.edits \subseteq copy.edits
    BY <1>1
  <1>7. OnRoute /\ SavedStays /\ AnsweredIsDone /\ EarlierAreOver
    BY <1>1, <1>2, <1>5, <1>6 DEF OnRoute, SavedStays, AnsweredIsDone, EarlierAreOver
  <1>8. BuildsCovered /\ BuiltHoldsTheSaved /\ AddersAreFirst
    BY <1>1, <1>2, <1>5 DEF BuildsCovered, BuiltHoldsTheSaved, AddersAreFirst, Covered
  <1>9. RowsAreFresh /\ AnswersAreFresh
    BY <1>5 DEF RowsAreFresh, AnswersAreFresh, Current
  <1>10. QED
    BY <1>4, <1>7, <1>8, <1>9 DEF WorkspaceInv

\* Every step keeps the invariant, and what it brings is right.
LEMMA WorkspaceStep ==
  ASSUME WorkspaceInv, WorkspaceNext
  PROVE  WorkspaceInv' /\ RefreshIsFresh /\ SessionIsFound
  <1> USE DEF WorkspaceInv
  <1>1. ASSUME NEW r \in Requests, TakesTurn(r), Overtakes(r)
        PROVE  WorkspaceInv' /\ RefreshIsFresh /\ SessionIsFound
    <2>1. WorkspaceTypes' /\ OnRoute'
      BY <1>1, TurnTypes, TurnOnRoute
    <2>2. SavedStays' /\ AnsweredIsDone'
      BY <1>1, TurnKeeps
    <2>3. EarlierAreOver' /\ BuildsCovered' /\ BuiltHoldsTheSaved'
      BY <1>1, TurnEarlier, TurnBuilds, TurnHolds
    <2>4. AddersAreFirst' /\ SessionIsFound
      BY <1>1, TurnSessions
    <2>5. RowsAreFresh' /\ AnswersAreFresh' /\ RefreshIsFresh
      BY <1>1, TurnRows
    <2>6. QED
      BY <2>1, <2>2, <2>3, <2>4, <2>5
  <1>2. ASSUME NEW r \in Requests, Receive(r), Overtakes(r)
        PROVE  WorkspaceInv' /\ RefreshIsFresh /\ SessionIsFound
    <2>1. WorkspaceTypes' /\ OnRoute' /\ SavedStays' /\ AnsweredIsDone'
      BY <1>2, ReceiveTypes, ReceiveKeeps
    <2>2. EarlierAreOver' /\ BuildsCovered' /\ BuiltHoldsTheSaved'
      BY <1>2, ReceiveBuilds
    <2>3. AddersAreFirst' /\ SessionIsFound
      BY <1>2, ReceiveSessions
    <2>4. RowsAreFresh' /\ AnswersAreFresh' /\ RefreshIsFresh
      BY <1>2, ReceiveRows
    <2>5. QED
      BY <2>1, <2>2, <2>3, <2>4
  <1>3. ASSUME Elsewhere, Overtakes(Nil)
        PROVE  WorkspaceInv' /\ RefreshIsFresh /\ SessionIsFound
    <2>1. WorkspaceTypes' /\ OnRoute' /\ SavedStays' /\ AnsweredIsDone'
      BY <1>3, ElsewhereTypes, ElsewhereKeeps
    <2>2. EarlierAreOver' /\ BuildsCovered' /\ BuiltHoldsTheSaved'
      BY <1>3, ElsewhereBuilds
    <2>3. AddersAreFirst' /\ SessionIsFound
      BY <1>3, ElsewhereSessions
    <2>4. RowsAreFresh' /\ AnswersAreFresh' /\ RefreshIsFresh
      BY <1>3, ElsewhereRows
    <2>5. QED
      BY <2>1, <2>2, <2>3, <2>4
  <1> USE DEF WorkspaceNext
  <1>4. CASE \E r \in Requests : RequestStep(r) /\ Overtakes(r)
    BY <1>1, <1>2, <1>4, TurnIs
  <1>5. CASE (RunLate \/ Outside) /\ Overtakes(Nil)
    BY <1>3, <1>5, ElsewhereIs
  <1>6. QED
    BY <1>4, <1>5

\* A request that does not move refreshes nothing and finds no session.
LEMMA NothingMoves ==
  ASSUME WorkspaceInv, UNCHANGED workspaceVars
  PROVE  WorkspaceInv' /\ RefreshIsFresh /\ SessionIsFound
  <1>1. /\ request' = request /\ copy' = copy /\ revision' = revision /\ packages' = packages /\ rows' = rows
        /\ sessions' = sessions /\ late' = late /\ dropped' = dropped /\ before' = before /\ disturbed' = disturbed
    BY DEF workspaceVars, polygon, local
  <1>2. \A q : /\ Running(q)' = Running(q) /\ Over(q)' = Over(q) /\ Route(q)' = Route(q) /\ Taken(q)' = Taken(q)
               /\ What(q)' = What(q) /\ KeptEdits(q)' = KeptEdits(q) /\ \A does : Does(q, does)' = Does(q, does)
    BY <1>1, SameIs
  <1>3. WorkspaceTypes' /\ OnRoute' /\ SavedStays' /\ AnsweredIsDone'
    BY <1>1, <1>2 DEF WorkspaceInv, WorkspaceTypes, OnRoute, SavedStays, AnsweredIsDone, Stored, CopyIs
  <1>4. EarlierAreOver' /\ BuildsCovered' /\ BuiltHoldsTheSaved'
    BY <1>1, <1>2 DEF WorkspaceInv, EarlierAreOver, BuildsCovered, BuiltHoldsTheSaved, Covered, Committed
  <1>5. AddersAreFirst' /\ SessionIsFound
    BY <1>1, <1>2 DEF WorkspaceInv, AddersAreFirst, SessionIsFound
  <1>6. RowsAreFresh' /\ AnswersAreFresh' /\ RefreshIsFresh
    BY <1>1, <1>2 DEF WorkspaceInv, RowsAreFresh, AnswersAreFresh, RefreshIsFresh, Current, Running
  <1>7. QED
    BY <1>3, <1>4, <1>5, <1>6 DEF WorkspaceInv

(* What the requests on a Polygon problem keep true, whatever the order in    *)
(* which they, the edits on Polygon itself and the calls given up move: each  *)
(* is on its route with what it was to save saved, a build under way covers   *)
(* what was answered before it, and rows refreshed and not overtaken show     *)
(* what Polygon has (polygon/methods, polygon/problems, cache.py).            *)
THEOREM WorkspaceInvariant == WorkspaceSpec => []WorkspaceInv
  <1>1. WorkspaceInit => WorkspaceInv
    BY WorkspaceInitIs
  <1>2. WorkspaceInv /\ [WorkspaceNext]_workspaceVars => WorkspaceInv'
    BY WorkspaceStep, NothingMoves
  <1>3. QED
    BY <1>1, <1>2, PTL DEF WorkspaceSpec

(* An edit answered with a 200 is on Polygon until it is discarded there, and *)
(* in every package ordered together with a commit by a request that came     *)
(* afterwards, for any number of requests, losses and edits from outside      *)
(* (working_copy.py, packages.py).                                            *)
THEOREM SavedEditsAreKept == WorkspaceSpec => []SavedIsKept
  <1>1. WorkspaceInv => SavedIsKept
    BY DEF WorkspaceInv, SavedIsKept
  <1>2. QED
    BY <1>1, WorkspaceInvariant, PTL

(* A route that saves or syncs leaves rows that show what Polygon has unless  *)
(* it was overtaken, and a session is added only where none was left          *)
(* (cache.py, info.py, statement.py, session.py).                             *)
THEOREM WorkspaceRowsAreRight == WorkspaceSpec => RowsAreRight
  <1>1. WorkspaceInv /\ [WorkspaceNext]_workspaceVars => RefreshIsFresh /\ SessionIsFound
    BY WorkspaceStep, NothingMoves
  <1>2. WorkspaceInv /\ [WorkspaceNext]_workspaceVars => [RefreshIsFresh /\ SessionIsFound]_workspaceVars
    BY <1>1
  <1>3. QED
    BY <1>2, WorkspaceInvariant, PTL DEF WorkspaceSpec, RowsAreRight
===============================================================================
