------------------------------ MODULE ChatSession ------------------------------
(* The chat of an AI session.  A request stores the user's message, has it    *)
(* routed and answers it, or spawns a generation that answers later; builds   *)
(* run in the background of both.  Every one of them reads the session's row  *)
(* once and writes whole columns from that copy (expire_on_commit is off).    *)
EXTENDS Integers, FiniteSets

CONSTANTS
    NTurns,         \* user messages, numbered as they come
    Editors,        \* requests that change the settings, each sent once
    MaxSamples,     \* samples the model makes at most
    OldSamples,     \* samples a session with a problem starts with
    MaxCalls,       \* bound: messages and changes of the settings in a run
    MaxFailures,    \* bound: failed calls and restarts in a run
    None

ASSUME ChatAssumption ==
    /\ MaxSamples \in Nat \ {0} /\ OldSamples \in Nat
    /\ MaxCalls \in Nat /\ MaxFailures \in Nat
    /\ NTurns \in Nat /\ Editors \cap Nat = {} /\ IsFiniteSet(Editors)
    /\ None \notin Editors \cup Nat

Turns == 1..NTurns

VARIABLES
    row,       \* the session: chat_log, settings, problem, examples
    status,    \* progress.status, only ever written alone (update_session)
    slots,     \* Polygon: the sample test at each index, by the message it is from
    problems,  \* problems this session created on Polygon
    task,      \* what each request, generation and build is doing
    failures,  \* failed calls so far
    kept,      \* history: entries ever written to the log
    crossed,   \* history: tasks of two messages have run at once
    restarted  \* history: the process has restarted

vars == <<row, status, slots, problems, task, failures, kept, crossed, restarted>>

(* A task is a request, the generation it spawned, or a build of either.      *)
Kinds == {"request", "generation", "build"}
Tasks == (Kinds \X Turns) \cup ({"settings"} \X Editors)
Before == 0                 \* who made the samples of an old problem
Kind(a) == a[1]
Turn(a) == a[2]

Entry(t, role) == <<t, role>>
Columns == {"log", "limits", "problem", "examples"}
(* view: the task's copy of the row, dirty the columns it assigned and has    *)
(* not committed; stale: samples it dropped; fresh: samples it made; saved:   *)
(* indices it wrote; told: indices its reply warns of.                        *)
Idle == [pc |-> "none", view |-> None, dirty |-> {}, stale |-> 0, fresh |-> 0,
         saved |-> {}, told |-> {}, action |-> None]
Ended == [Idle EXCEPT !.pc = "ended"]
At(a, pc) == task[a].pc = pc
Active(a) == ~At(a, "none") /\ ~At(a, "ended")
Go(a, pc) == task' = [task EXCEPT ![a].pc = pc]

(* A commit writes the columns the task assigned, as its copy has them.       *)
Flushed(a, view, columns) ==
    [c \in Columns |-> IF c \in columns \cup task[a].dirty THEN view[c] ELSE row[c]]
Commit(a, view, columns, pc) ==
    /\ row' = Flushed(a, view, columns)
    /\ task' = [task EXCEPT ![a] = IF pc = "ended" THEN Ended
                                   ELSE [@ EXCEPT !.view = view, !.dirty = {}, !.pc = pc]]
(* Within the bound.                                                          *)
MayCome ==
    Cardinality({a \in Tasks : Kind(a) \in {"request", "settings"} /\ ~At(a, "none")}) < MaxCalls
Loaded(a, pc) ==
    /\ task' = [task EXCEPT ![a] = [@ EXCEPT !.view = row, !.pc = pc]]
    /\ crossed' = (crossed \/ \E o \in Tasks : Turn(o) # Turn(a) /\ Active(o))

Failure == failures < MaxFailures /\ failures' = failures + 1
\* Mutant: the worker's exception is logged, nobody is told.
FailsSilently(a) == Failure /\ task' = [task EXCEPT ![a] = Ended]
(* A failing call ends the executor with an error for a reply.                *)
Fails(a) == Failure /\ task' = [task EXCEPT ![a].pc = "reply", ![a].told = {}]
Smooth == failures' = failures

AppendLog(a, role, pc) ==
    LET log == task[a].view.log \cup {Entry(Turn(a), role)}
    IN  /\ Commit(a, [task[a].view EXCEPT !.log = log], {"log"}, pc)
        /\ kept' = kept \cup {Entry(Turn(a), role)}

-----------------------------------------------------------------------------
(* The request.                                                               *)

(* Bound: two messages meet only where the build of one still runs.           *)
Arrive(t) ==
    /\ At(<<"request", t>>, "none") /\ MayCome
    /\ t > 1 => ~At(<<"request", t - 1>>, "none")
    /\ \A a \in Tasks : Active(a) => Kind(a) \in {"build", "settings"}
    /\ Loaded(<<"request", t>>, "persist")
    /\ UNCHANGED <<row, status, slots, problems, failures, kept, restarted>>

(* The message is in the log before anything is done about it.                *)
PersistMessage(a) ==
    /\ At(a, "persist") /\ Kind(a) = "request"
    /\ AppendLog(a, "user", "route")
    /\ UNCHANGED <<status, slots, problems, failures, crossed, restarted>>

(* Mutant: the background worker is handed what the request loaded first.     *)
SpawnWithView(a) ==
    /\ At(a, "route") /\ Kind(a) = "request"
    /\ \/ Go(a, "reply")
       \/ /\ task[a].view.problem # None
          /\ task' = [task EXCEPT ![a].pc = "mark", ![a].action = "build"]
       \/ task' = [task EXCEPT ![a].pc = "statement", ![a].action = "edit_statement"]
       \/ task' = [task EXCEPT ![a].pc = "files", ![a].action = "edit_file"]
       \/ task' = [task EXCEPT ![a] = Ended,
                     ![<<"generation", Turn(a)>>] =
                        [Idle EXCEPT !.pc = "progress", !.action = "regenerate",
                            !.view = [row EXCEPT !.log = @ \ {Entry(Turn(a), "user")}]]]
    /\ Smooth
    /\ UNCHANGED <<row, status, slots, problems, kept, crossed, restarted>>

(* The router picks one action; whatever fails there means an answer.  The    *)
(* heavy ones go to the background and the request ends.                      *)
ClassifyAction(a) ==
    /\ At(a, "route") /\ Kind(a) = "request"
    /\ \/ Go(a, "reply")
       \/ /\ task[a].view.problem # None
          /\ task' = [task EXCEPT ![a].pc = "mark", ![a].action = "build"]
       \/ task' = [task EXCEPT ![a].pc = "statement", ![a].action = "edit_statement"]
       \/ task' = [task EXCEPT ![a].pc = "files", ![a].action = "edit_file"]
       \/ task' = [task EXCEPT ![a] = Ended,
                               ![<<"generation", Turn(a)>>] = [Idle EXCEPT !.pc = "spawned"]]
    /\ Smooth
    /\ UNCHANGED <<row, status, slots, problems, kept, crossed, restarted>>

(* The worker reads the row anew.  A request to edit the task of a session    *)
(* without a problem is a generation; without files it makes the pack.        *)
GenerationLoads(t) ==
    LET a == <<"generation", t>> IN
    /\ At(a, "spawned")
    /\ \E action \in {"regenerate", "edit_task"} :
         \E next \in IF action = "regenerate" \/ row.problem = None THEN {"progress"}
                     ELSE {"files", IF row.examples = 0 THEN "samples" ELSE "pack"} :
            task' = [task EXCEPT ![a] = [@ EXCEPT !.view = row, !.action = action,
                                                  !.pc = next]]
    /\ crossed' = (crossed \/ \E o \in Tasks : Turn(o) # t /\ Active(o))
    /\ UNCHANGED <<row, status, slots, problems, failures, kept, restarted>>

GenProgress(a) ==
    /\ At(a, "progress")
    /\ status' = "generating"
    /\ Go(a, "statement")
    /\ UNCHANGED <<row, slots, problems, failures, kept, crossed, restarted>>

-----------------------------------------------------------------------------
(* The statement and what hangs on it.                                        *)

(* A new statement.  A redo drops the samples with it: they fit the old one.  *)
NewStatement(a) ==
    LET v == task[a].view IN
    /\ At(a, "statement")
    /\ \/ /\ IF Kind(a) = "generation"
             THEN /\ row' = Flushed(a, [v EXCEPT !.examples = 0], {"examples"})
                  /\ task' = [task EXCEPT ![a] = [@ EXCEPT !.view.examples = 0,
                                !.stale = v.examples, !.pc = "problem"]]
             ELSE row' = row /\ Go(a, "problem")
          /\ Smooth
       \/ Fails(a) /\ row' = row
    /\ UNCHANGED <<status, slots, problems, kept, crossed, restarted>>

AfterProblem(a) == IF task[a].action \in {"edit_file", "edit_task"} /\ task[a].view.problem # None
                   THEN "push" ELSE "sync"

(* Mutant: the new problem's id is kept by the task, not committed.           *)
EnsureProblemUnsaved(a) ==
    LET new  == Cardinality(problems) + 1
        next == AfterProblem(a)
    IN
    /\ At(a, "problem")
    /\ IF task[a].view.problem # None
       THEN /\ Go(a, next) /\ Smooth
            /\ UNCHANGED <<row, problems>>
       ELSE \/ /\ problems' = problems \cup {new} /\ Smooth
               /\ row' = row
               /\ task' = [task EXCEPT ![a].view.problem = new, ![a].pc = next]
            \/ problems' \in {problems, problems \cup {new}} /\ Fails(a) /\ row' = row
    /\ UNCHANGED <<status, slots, kept, crossed, restarted>>

(* The problem is created when the task's copy knows none.  The answer of the *)
(* creation may be lost; it is not asked for again.                           *)
EnsureProblem(a) ==
    LET new  == Cardinality(problems) + 1
        next == AfterProblem(a)
    IN
    /\ At(a, "problem")
    /\ IF task[a].view.problem # None
       THEN /\ Go(a, next) /\ Smooth
            /\ UNCHANGED <<row, problems>>
       ELSE \/ /\ problems' = problems \cup {new} /\ Smooth
               /\ Commit(a, [task[a].view EXCEPT !.problem = new], {"problem"}, next)
            \/ problems' \in {problems, problems \cup {new}} /\ Fails(a) /\ row' = row
    /\ UNCHANGED <<status, slots, kept, crossed, restarted>>

SyncStatement(a) ==
    /\ At(a, "sync")
    /\ \/ Go(a, "tags") /\ Smooth
       \/ Fails(a)
    /\ UNCHANGED <<row, status, slots, problems, kept, crossed, restarted>>

(* New tags go into the settings column, with the limits of the task's copy.  *)
(* Without tags, or when a call fails, the edit goes on.                      *)
RegenerateTags(a) ==
    LET next == IF Kind(a) = "generation" THEN "samples" ELSE "essence" IN
    /\ At(a, "tags")
    /\ \/ Go(a, next) /\ row' = row
       \/ Commit(a, task[a].view, {"limits"}, next)
    /\ Smooth
    /\ UNCHANGED <<status, slots, problems, kept, crossed, restarted>>

(* The edit changed the essence or not.  If it did, dependent files were      *)
(* pushed, each failure skipped, and the samples are dropped.                 *)
EssenceCheck(a) ==
    LET v == task[a].view IN
    /\ At(a, "essence")
    /\ \/ Go(a, "reply")
       \/ /\ v.examples > 0
          /\ task' = [task EXCEPT ![a] = [@ EXCEPT !.view.examples = 0, !.dirty = {"examples"},
                        !.stale = v.examples, !.pc = "samples"]]
    /\ Smooth
    /\ UNCHANGED <<row, status, slots, problems, kept, crossed, restarted>>

AfterSamples(a) == IF Kind(a) = "generation" THEN "pack" ELSE "reply"
(* The slots the warning names.                                               *)
StaleSamplesNote(stale, fresh) ==
    IF fresh >= stale THEN {} ELSE fresh + 1..stale

(* Between one and three samples, as many as the old ones if the model can.   *)
PrepareSamples(a) ==
    /\ At(a, "samples")
    /\ \/ \E n \in 1..MaxSamples :
            /\ row' = Flushed(a, [task[a].view EXCEPT !.examples = n], {"examples"})
            /\ task' = [task EXCEPT ![a] = [@ EXCEPT !.view.examples = n, !.dirty = {},
                                                     !.fresh = n, !.pc = "upload"]]
            /\ Smooth
       \/ /\ Failure
          /\ row' = row
          /\ task' = [task EXCEPT ![a] = [@ EXCEPT !.pc = AfterSamples(a),
                        !.told = StaleSamplesNote(task[a].stale, 0)]]
    /\ UNCHANGED <<status, slots, problems, kept, crossed, restarted>>

(* Each sample is saved at its index, a failure is logged.                    *)
UploadExamples(a) ==
    LET n == task[a].fresh IN
    /\ At(a, "upload")
    /\ \E saved \in SUBSET (1..n) :
         /\ IF saved = 1..n THEN Smooth
            ELSE Failure
         /\ slots' = [i \in DOMAIN slots |-> IF i \in saved THEN Turn(a) ELSE slots[i]]
         /\ task' = [task EXCEPT ![a] = [@ EXCEPT !.saved = saved, !.pc = "tail"]]
    /\ UNCHANGED <<row, status, problems, kept, crossed, restarted>>

(* Mutant: the tail is counted from what was saved, full upload or not.       *)
DeleteAfterSaved(a) ==
    LET stale == task[a].stale
        saved == Cardinality(task[a].saved)
        end(told) == task' = [task EXCEPT ![a] = [@ EXCEPT !.pc = AfterSamples(a),
                                !.told = told, !.stale = 0, !.fresh = 0, !.saved = {}]]
    IN
    /\ At(a, "tail")
    /\ slots' = [i \in DOMAIN slots |-> IF i \in saved + 1..stale THEN None ELSE slots[i]]
    /\ end({}) /\ Smooth
    /\ UNCHANGED <<row, status, problems, kept, crossed, restarted>>

(* The old samples past the new ones are deleted, after a full upload only.   *)
(* Polygon deletes all of them or none.                                       *)
DeleteStaleExamples(a) ==
    LET n     == task[a].fresh
        stale == task[a].stale
        saved == task[a].saved
        note  == StaleSamplesNote(stale, Cardinality(saved))
        end(told) == task' = [task EXCEPT ![a] = [@ EXCEPT !.pc = AfterSamples(a),
                                !.told = told, !.stale = 0, !.fresh = 0, !.saved = {}]]
    IN
    /\ At(a, "tail")
    /\ \/ /\ stale = 0 \/ (saved = 1..n /\ n >= stale)
          /\ slots' = slots /\ end({}) /\ Smooth
       \/ /\ stale > 0 /\ saved # 1..n
          /\ slots' = slots /\ end(note) /\ Smooth
       \/ /\ stale > n /\ saved = 1..n
          /\ \/ slots' = [i \in DOMAIN slots |-> IF i \in n + 1..stale THEN None ELSE slots[i]]
                /\ end({}) /\ Smooth
             \/ slots' = slots /\ end(note)
                /\ Failure
    /\ UNCHANGED <<row, status, problems, kept, crossed, restarted>>

(* One file is rewritten and pushed; or several, each failure skipped.  The   *)
(* model may find nothing to change.                                          *)
ModifyFiles(a) ==
    /\ At(a, "files")
    /\ \/ Go(a, "problem") /\ Smooth
       \/ Go(a, "reply") /\ Smooth
       \/ Fails(a)
    /\ UNCHANGED <<row, status, slots, problems, kept, crossed, restarted>>
PushFiles(a) ==
    /\ At(a, "push")
    /\ \/ Go(a, "reply") /\ Smooth
       \/ Fails(a)
    /\ UNCHANGED <<row, status, slots, problems, kept, crossed, restarted>>

(* The pack of files.  A build follows when any of them reached Polygon; when *)
(* the model made none, the reply forgets the samples' warning too.           *)
GeneratePack(a) ==
    /\ At(a, "pack")
    /\ \/ Go(a, "mark") /\ Smooth
       \/ Go(a, "reply") /\ Smooth
       \/ task' = [task EXCEPT ![a].pc = "reply", ![a].told = {}] /\ Smooth
       \/ Fails(a)
    /\ UNCHANGED <<row, status, slots, problems, kept, crossed, restarted>>

-----------------------------------------------------------------------------
(* The build, and the answer.                                                 *)

BuildOf(a) == <<"build", Turn(a)>>
(* Mutant: the task is spawned first and marked when it may have ended.       *)
SpawnThenMark(a) ==
    /\ At(a, "mark")
    /\ IF At(BuildOf(a), "none")
       THEN /\ task' = [task EXCEPT ![BuildOf(a)].pc = "spawned"]
            /\ status' = status
       ELSE Go(a, "reply") /\ status' = "building"
    /\ UNCHANGED <<row, slots, problems, failures, kept, crossed, restarted>>

(* The session says building before the task exists.                          *)
MarkBuildStarted(a) ==
    /\ At(a, "mark")
    /\ status' = "building"
    /\ Go(a, "spawn")
    /\ UNCHANGED <<row, slots, problems, failures, kept, crossed, restarted>>
SpawnBuild(a) ==
    /\ At(a, "spawn")
    /\ task' = [task EXCEPT ![a].pc = "reply", ![BuildOf(a)].pc = "spawned"]
    /\ UNCHANGED <<row, status, slots, problems, failures, kept, crossed, restarted>>

Reply(a) ==
    /\ At(a, "reply")
    /\ AppendLog(a, "assistant", "ended")
    /\ UNCHANGED <<status, slots, problems, failures, crossed, restarted>>

(* The build, but for the session: it loads the row, uploads the samples of   *)
(* its copy, and ends with a verdict and a message.                           *)
BuildLoads(b) ==
    /\ At(b, "spawned") /\ Kind(b) = "build"
    /\ Loaded(b, "samplesOfBuild")
    /\ status' = "building"
    /\ UNCHANGED <<row, slots, problems, failures, kept, restarted>>
BuildUploads(b) ==
    /\ At(b, "samplesOfBuild")
    /\ slots' = [i \in DOMAIN slots |-> IF i <= task[b].view.examples THEN Turn(b) ELSE slots[i]]
    /\ Go(b, "verdict")
    /\ UNCHANGED <<row, status, problems, failures, kept, crossed, restarted>>
BuildVerdict(b) ==
    /\ At(b, "verdict")
    /\ status' = "settled"
    /\ Go(b, "message")
    /\ UNCHANGED <<row, slots, problems, failures, kept, crossed, restarted>>
BuildMessage(b) ==
    /\ At(b, "message")
    /\ AppendLog(b, "system", "ended")
    /\ UNCHANGED <<status, slots, problems, failures, crossed, restarted>>

(* /problem-settings: the fields the client sent, over the column as loaded.  *)
LoadSettings(e) ==
    /\ At(<<"settings", e>>, "none") /\ MayCome
    /\ Loaded(<<"settings", e>>, "merge")
    /\ UNCHANGED <<row, status, slots, problems, failures, kept, restarted>>
UpdateProblemSettings(e) ==
    LET a == <<"settings", e>> IN
    /\ At(a, "merge")
    /\ Commit(a, [task[a].view EXCEPT !.limits = e], {"limits"}, "ended")
    /\ kept' = kept \cup {Entry(e, "limits")}
    /\ UNCHANGED <<status, slots, problems, failures, crossed, restarted>>

Restart ==
    /\ Failure /\ \E a \in Tasks : Active(a)
    /\ restarted' = TRUE
    /\ task' = [a \in Tasks |-> IF At(a, "none") THEN Idle ELSE Ended]
    /\ UNCHANGED <<row, status, slots, problems, kept, crossed>>

(* A session of an existing problem, or one that has none yet.                *)
MaxSlots == IF OldSamples > MaxSamples THEN OldSamples ELSE MaxSamples
Init ==
    /\ \E old \in BOOLEAN :
         /\ row = [log |-> {}, limits |-> None,
                   problem |-> IF old THEN 1 ELSE None, examples |-> IF old THEN OldSamples ELSE 0]
         /\ problems = IF old THEN {1} ELSE {}
         /\ slots = [i \in 1..MaxSlots |-> IF old /\ i <= OldSamples THEN Before ELSE None]
    /\ status = "idle"
    /\ task = [a \in Tasks |-> Idle]
    /\ failures = 0 /\ kept = {} /\ crossed = FALSE /\ restarted = FALSE

Step(a) ==
    \/ PersistMessage(a) \/ ClassifyAction(a) \/ GenProgress(a)
    \/ NewStatement(a) \/ EnsureProblem(a) \/ SyncStatement(a) \/ RegenerateTags(a)
    \/ EssenceCheck(a) \/ PrepareSamples(a) \/ UploadExamples(a) \/ DeleteStaleExamples(a)
    \/ ModifyFiles(a) \/ PushFiles(a) \/ GeneratePack(a) \/ MarkBuildStarted(a) \/ SpawnBuild(a) \/ Reply(a)
    \/ BuildLoads(a) \/ BuildUploads(a) \/ BuildVerdict(a) \/ BuildMessage(a)

Next ==
    \/ \E t \in Turns : Arrive(t) \/ GenerationLoads(t)
    \/ \E a \in Tasks : Step(a)
    \/ \E e \in Editors : LoadSettings(e) \/ UpdateProblemSettings(e)
    \/ Restart

(* The event loop takes up every task whose call has come back; every call    *)
(* ends, the model's and Polygon's by their time limits.                      *)
Fairness == /\ \A a \in Tasks : WF_vars(Step(a))
            /\ \A t \in Turns : WF_vars(GenerationLoads(t))
Spec == Init /\ [][Next]_vars /\ Fairness

-----------------------------------------------------------------------------
(* Properties.                                                                *)

TypeOK ==
    /\ row.log \subseteq (Turns \X {"user", "assistant", "system"})
    /\ row.limits \in Editors \cup {None}
    /\ row.problem \in problems \cup {None}
    /\ row.examples \in 0..MaxSlots
    /\ status \in {"idle", "generating", "building", "settled"}
    /\ \A i \in DOMAIN slots : slots[i] \in Turns \cup {Before, None}
    /\ \A a \in Tasks : task[a].saved \subseteq 1..task[a].fresh

(* A stored message of the user stays in the log, whatever its own request,   *)
(* generation and build write later, as long as no other message's tasks run  *)
(* at the same time (chat.py: it survives a crash).                           *)
UserMessageIsKept ==
    ~crossed => \A t \in Turns : Entry(t, "user") \in kept => Entry(t, "user") \in row.log

(* A limit the user set is not undone by the tags of a generation that did    *)
(* not run at the same time.                                                  *)
LimitsAreKept ==
    ~crossed => \A e \in Editors : Entry(e, "limits") \in kept /\ Cardinality(Editors) = 1
                                   => row.limits = e

(* What the user said and set stays: messages in the log, limits in the row.  *)
UserInputIsKept == UserMessageIsKept /\ LimitsAreKept

(* The session says building exactly while a build is asked for or running,   *)
(* unless tasks of two messages met or the process restarted                  *)
(* (mark_build_started comes before the spawn).                               *)
BuildIsShown ==
    ~crossed /\ ~restarted =>
        (status = "building" <=>
            \E a \in Tasks : \/ At(a, "spawn")
                             \/ Kind(a) = "build" /\ task[a].pc \in
                                    {"spawned", "samplesOfBuild", "verdict"})

(* A session makes one problem on Polygon, and knows it, unless an answer was *)
(* lost or two messages' tasks met (ensure_problem).                          *)
OneProblem ==
    ~crossed /\ failures = 0 /\ ~restarted =>
        /\ Cardinality(problems) <= 1
        /\ \A a \in Tasks : At(a, "sync") => row.problem \in problems

Leaves(a, pc) == At(a, pc) /\ task'[a].pc = AfterSamples(a)
(* Cleaning up after new samples never deletes one of them.                   *)
NewSamplesStay ==
    \A a \in Tasks : Leaves(a, "tail") =>
        \A i \in task[a].saved : slots'[i] = slots[i]

(* The reply warns of every old sample that is still a test on Polygon, when  *)
(* the uploads that failed were the last ones.                                *)
OldSamplesAreTold ==
    \A a \in Tasks :
        /\ ~crossed
        /\ \/ Leaves(a, "samples")
           \/ Leaves(a, "tail") /\ task[a].saved = 1..Cardinality(task[a].saved)
        => \A i \in 1..task[a].stale : slots'[i] \in {Turn(a), None} \/ i \in task'[a].told

(* New samples replace the old ones: none of the new is deleted, and the      *)
(* user is told of the old that stay (samples.py).                            *)
SamplesAreMerged == [][NewSamplesStay /\ OldSamplesAreTold]_vars

(* Every stored message is answered, with an error if need be, unless the     *)
(* process restarts.                                                          *)
RepliesCome ==
    \A t \in Turns : Entry(t, "user") \in kept ~> Entry(t, "assistant") \in kept \/ restarted
===============================================================================
