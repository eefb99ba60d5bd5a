---------------------------- MODULE ContestExport ----------------------------
(***************************************************************************)
(* Exports of Polygon problems into the contests of an ejudge host and     *)
(* their publication in NlogN (api/user/ejudge, api/user/nlogn).  An       *)
(* export writes the problem's directory and its section of the contest's  *)
(* serve.cfg over SSH; a publication first chooses the contest, creating a *)
(* new one when the newest block is full, and afterwards tells NlogN and   *)
(* remembers where the problem lives.  Jobs run side by side, lose their   *)
(* worker, fail at any command, and people edit serve.cfg by hand.         *)
(* Requests name no problem id, short name or internal name.               *)
(***************************************************************************)
EXTENDS Integers, Sequences, FiniteSets, FiniteSetsExt, Functions

CONSTANTS
    Unset,        \* no name, no owner, no contest
    Jobs,         \* the entries of the job queue
    Problems,     \* the problems on Polygon
    Wanted,       \* the internal name a problem's package asks for
    Requests,     \* the requests: [kind, problem, contest, mode]
    OldContests,  \* the contests people made
    BlockSize,    \* EJUDGE_AUTO_CONTEST_SIZE
    MaxTries,     \* how often the queue hands out a job
    MaxVersions,  \* the packages built of a problem
    MaxTroubles   \* failures, lost workers and edits by people

ASSUME ExportAssumption ==
    /\ BlockSize \in Nat \ {0}
    /\ OldContests \subseteq Nat \ {0} /\ OldContests # {} /\ IsFiniteSet(OldContests)
    /\ Unset \notin Problems \union Jobs \union Nat
    /\ Requests \subseteq [kind : {"export", "publish"}, problem : Problems,
                           contest : OldContests \union {Unset}, mode : {"push", "pull"}]
    /\ \A request \in Requests : request.kind = "export" => request.contest # Unset

VARIABLES
    contests,  \* the problems in the serve.cfg of each contest of the host
    dirs,      \* the problem directories of the contests
    staged,    \* directories being uploaded, by contest, name and second
    kept,      \* the backups of replaced directories
    blocks,    \* the contests made by this application, EjudgeAutoContest
    lock,      \* the holder of the advisory lock of the host
    published, \* the publications, NlognPublication, by problem and contest
    nlogn,     \* which problem NlogN takes an ejudge problem for
    version,   \* the latest package of each problem
    jobs,       \* every job: its request and how far it is
    clock,     \* the second of the latest upload
    left,      \* how much trouble may still come
    contested,     \* contests in which two writers met (history)
    torn       \* problems left between two packages (history)

host == <<contests, dirs, staged, kept>>
base == <<blocks, lock, published>>
exportVars ==
    <<contests, dirs, staged, kept, blocks, lock, published, nlogn, version, jobs, clock, left, contested, torn>>

Put(f, x, y) == [z \in DOMAIN f \union {x} |-> IF z = x THEN y ELSE f[z]]
Without(f, x) == Restrict(f, DOMAIN f \ {x})
Newest == blocks[Len(blocks)]

-----------------------------------------------------------------------------
(* serve.cfg *)
FindProblem(cfg, p, id) ==
    LET own == {i \in DOMAIN cfg : cfg[i].extid = p}
        same == {i \in DOMAIN cfg : cfg[i].id = id}
    IN  IF own # {} THEN Min(own) ELSE IF same # {} THEN Min(same) ELSE 0

Others(cfg, at) == {cfg[i] : i \in DOMAIN cfg \ {at}}
NextId(cfg) == 1 + Max({0} \union {cfg[i].id : i \in DOMAIN cfg})
FreeName(cfg, name, at) ==
    LET free == {i \in 1..(Len(cfg) + 1) : <<name, i>> \notin {s.name : s \in Others(cfg, at)}}
    IN  <<name, Min(free)>>
FreeShort(cfg, short, at) ==
    LET used == {s.short : s \in Others(cfg, at)}
    IN  IF short # Unset /\ short \notin used THEN short ELSE Min((1..(Len(cfg) + 1)) \ used)

Section(p, v, plan) == [id |-> plan.id, short |-> plan.short, name |-> plan.name, extid |-> p, version |-> v]

UpsertProblem(cfg, p, v, plan) ==
    LET at == FindProblem(cfg, p, plan.id)
    IN  IF at = 0 THEN Append(cfg, Section(p, v, plan)) ELSE [cfg EXCEPT ![at] = Section(p, v, plan)]

(* mutant: an exported problem gets a new id again *)
BuildPlanAnew(cfg, p) ==
    LET at == FindProblem(cfg, p, 0)
    IN  [id |-> NextId(cfg), short |-> FreeShort(cfg, Unset, at), name |-> FreeName(cfg, Wanted[p], at)]

(* where an export would put the problem in this serve.cfg *)
BuildPlan(cfg, p) ==
    LET at == FindProblem(cfg, p, 0)
        name == IF at = 0 THEN FreeName(cfg, Wanted[p], 0)
                ELSE IF cfg[at].name \in {s.name : s \in Others(cfg, at)} THEN FreeName(cfg, Wanted[p], at)
                ELSE cfg[at].name
    IN  [id |-> IF at = 0 THEN NextId(cfg) ELSE cfg[at].id,
         short |-> FreeShort(cfg, IF at = 0 THEN Unset ELSE cfg[at].short, at),
         name |-> name]

-----------------------------------------------------------------------------
NoPlan == [id |-> 0, short |-> 0, name |-> <<>>]
Idle(pc, req, tries) ==
    [pc |-> pc, req |-> req, tries |-> tries, contest |-> Unset, blind |-> FALSE,
     seen |-> <<>>, plan |-> NoPlan, stamp |-> 0, version |-> 0, ok |-> TRUE]

Is(j, pc) == jobs[j].pc = pc
Problem(j) == jobs[j].req.problem
Contest(j) == jobs[j].contest
Packed(j) == [problem |-> Problem(j), version |-> jobs[j].version]
Final(j) == <<Contest(j), jobs[j].plan.name>>
Stamped(j) == <<Contest(j), jobs[j].plan.name, jobs[j].stamp>>
Goes(j, pc) == jobs' = [jobs EXCEPT ![j].pc = pc]
Trouble == left > 0 /\ left' = left - 1
Writers(c) == {j \in Jobs : jobs[j].pc \in {"swap", "write"} /\ Contest(j) = c}

(* the handler returns the error: the job is done, and not retried *)
Ends(j, pc) == jobs' = [jobs EXCEPT ![j] = Idle(pc, @.req, @.tries)]

(***************************************************************************)
(* The contest of an export is named in the request.  A publication        *)
(* without one goes back to the contest of the problem's latest            *)
(* publication, else to the newest block if it has room, else into a new   *)
(* block; the advisory lock is held from the look at the blocks to the     *)
(* commit.  A block whose serve.cfg cannot be read counts as full.         *)
(***************************************************************************)
Previous(p) == {at \in DOMAIN published : at[1] = p}
Latest(p) == {at \in Previous(p) : \A other \in Previous(p) : published[other].turn <= published[at].turn}
(* mutant: no advisory lock *)
LockIsNotTaken == TRUE

LockIsFree == lock = Unset
HasRoom(b) == Len(contests[b]) < BlockSize

Chooses(j, c) == jobs' = [jobs EXCEPT ![j].pc = "fetch", ![j].contest = c] /\ UNCHANGED lock

Allocate(j) ==
    /\ LockIsFree
    /\ IF blocks # <<>> /\ HasRoom(Newest)
       THEN \/ Chooses(j, Newest) /\ UNCHANGED left
            \/ /\ Trouble
               /\ lock' = j
               /\ jobs' = [jobs EXCEPT ![j].pc = "create", ![j].blind = TRUE]
       ELSE /\ lock' = j
            /\ Goes(j, "create")
            /\ UNCHANGED left

ChooseContest(j) ==
    /\ Is(j, "queued")
    /\ IF jobs[j].req.contest # Unset
       THEN Chooses(j, jobs[j].req.contest) /\ UNCHANGED left
       ELSE IF Previous(Problem(j)) # {}
       THEN \E at \in Latest(Problem(j)) : Chooses(j, at[2]) /\ UNCHANGED left
       ELSE Allocate(j)
    /\ UNCHANGED <<host, blocks, published, nlogn, version, clock, contested, torn>>

NewContest == 1 + Max(DOMAIN contests)

(* mkdir refuses a contest that is there; its copy of the configuration is emptied before anyone uses it *)
MakeContest(j) ==
    /\ Is(j, "create")
    /\ contests' = Put(contests, NewContest, <<>>)
    /\ jobs' = [jobs EXCEPT ![j].pc = "commit", ![j].contest = NewContest]
    /\ UNCHANGED <<dirs, staged, kept, base, nlogn, version, clock, left, contested, torn>>

MakeFails(j) ==
    /\ Is(j, "create")
    /\ Trouble
    /\ lock' = Unset
    /\ Ends(j, "failed")
    /\ UNCHANGED <<host, blocks, published, nlogn, version, clock, contested, torn>>

CommitContest(j) ==
    /\ Is(j, "commit")
    /\ \/ /\ blocks' = Append(blocks, Contest(j))
          /\ Goes(j, "fetch")
          /\ UNCHANGED <<contests, left>>
       \/ /\ Trouble
          /\ contests' = Without(contests, Contest(j))
          /\ Ends(j, "failed")
          /\ UNCHANGED blocks
    /\ lock' = Unset
    /\ UNCHANGED <<dirs, staged, kept, published, nlogn, version, clock, contested, torn>>

-----------------------------------------------------------------------------
(* the package is downloaded, serve.cfg read and the export planned *)
PlanExport(j) ==
    /\ Is(j, "fetch")
    /\ jobs' = [jobs EXCEPT ![j].pc = "upload", ![j].version = version[Problem(j)],
                          ![j].seen = contests[Contest(j)], ![j].plan = BuildPlan(contests[Contest(j)], Problem(j))]
    /\ UNCHANGED <<host, base, nlogn, version, clock, left, contested, torn>>

(***************************************************************************)
(* The files go to a directory named after the problem and the second, so  *)
(* two exports of one problem begun in one second write to one directory.  *)
(***************************************************************************)
SameSecond(j) ==
    {i \in Jobs \ {j} : /\ jobs[i].pc \in {"reread", "swap", "write"}
                        /\ jobs[i].stamp = clock /\ Final(i) = Final(j)}

Upload(j) ==
    /\ Is(j, "upload")
    /\ \E s \in {clock + 1} \union (IF SameSecond(j) = {} THEN {} ELSE {clock}) :
        /\ clock' = s
        /\ staged' = Put(staged, <<Contest(j), jobs[j].plan.name, s>>, Packed(j))
        /\ contested' = IF s = clock THEN contested \union {Contest(j)} ELSE contested
        /\ jobs' = [jobs EXCEPT ![j].pc = "reread", ![j].stamp = s]
    /\ UNCHANGED <<contests, dirs, kept, base, nlogn, version, left, torn>>

(* a failed upload or compilation removes what was uploaded *)
UploadFails(j) ==
    /\ jobs[j].pc \in {"fetch", "upload", "reread"}
    /\ Trouble
    /\ staged' = Without(staged, Stamped(j))
    /\ Ends(j, "failed")
    /\ UNCHANGED <<contests, dirs, kept, base, nlogn, version, clock, contested, torn>>

(***************************************************************************)
(* Right before it changes anything the export reads serve.cfg again and,  *)
(* if it changed, plans again: another place for the problem is an error.  *)
(***************************************************************************)
StillHolds(j, cfg) == cfg = jobs[j].seen \/ BuildPlan(cfg, Problem(j)) = jobs[j].plan

Reread(j) ==
    /\ Is(j, "reread")
    /\ LET cfg == contests[Contest(j)]
       IN  IF StillHolds(j, cfg)
           THEN /\ jobs' = [jobs EXCEPT ![j].pc = "swap", ![j].seen = cfg]
                /\ contested' = IF Writers(Contest(j)) # {} THEN contested \union {Contest(j)} ELSE contested
                /\ UNCHANGED staged
           ELSE /\ staged' = Without(staged, Stamped(j))
                /\ Ends(j, "failed")
                /\ UNCHANGED contested
    /\ UNCHANGED <<contests, dirs, kept, base, nlogn, version, clock, left, torn>>

(* mv of the old directory to the backup: into it, if a backup of that second is there *)
Moved(j) ==
    IF Final(j) \notin DOMAIN dirs \/ Stamped(j) \in DOMAIN kept THEN kept
    ELSE Put(kept, Stamped(j), dirs[Final(j)])

Swap(j) ==
    /\ Is(j, "swap")
    /\ kept' = Moved(j)
    /\ IF Stamped(j) \in DOMAIN staged
       THEN /\ dirs' = Put(dirs, Final(j), staged[Stamped(j)])
            /\ staged' = Without(staged, Stamped(j))
            /\ \/ Goes(j, "write") /\ UNCHANGED <<left, torn>>
               \/ /\ Trouble  \* the answer of the command is lost
                  /\ torn' = torn \union {<<Contest(j), Problem(j)>>}
                  /\ Ends(j, "failed")
       ELSE /\ dirs' = Without(dirs, Final(j))
            /\ Ends(j, "failed")
            /\ UNCHANGED <<staged, left, torn>>
    /\ UNCHANGED <<contests, base, nlogn, version, clock, contested>>

(* the serve.cfg read before the swap, with the problem's section, replaces the file *)
WriteServeCfg(j) ==
    /\ Is(j, "write")
    /\ contests' = [contests EXCEPT ![Contest(j)] =
                      UpsertProblem(jobs[j].seen, Problem(j), jobs[j].version, jobs[j].plan)]
    /\ torn' = torn \ {<<Contest(j), Problem(j)>>}
    /\ IF jobs[j].req.kind = "publish" THEN Goes(j, "tell") ELSE Ends(j, "done")
    /\ UNCHANGED <<dirs, staged, kept, base, nlogn, version, clock, left, contested>>

(* a failed write puts the old directory back *)
(* mutant: a failed write leaves the new directory *)
LeftInPlace(j) == dirs

Restored(j) ==
    IF Stamped(j) \in DOMAIN kept THEN Put(dirs, Final(j), kept[Stamped(j)]) ELSE Without(dirs, Final(j))

WriteFails(j) ==
    /\ Is(j, "write")
    /\ Trouble
    /\ dirs' = Restored(j)
    /\ kept' = Without(kept, Stamped(j))
    /\ Ends(j, "failed")
    /\ UNCHANGED <<contests, staged, base, nlogn, version, clock, contested, torn>>

-----------------------------------------------------------------------------
(* a publication asked for in this application tells NlogN; one NlogN asked for does not *)
Tell(j) ==
    /\ Is(j, "tell")
    /\ \/ /\ nlogn' = IF jobs[j].req.mode = "push"
                      THEN Put(nlogn, <<Contest(j), jobs[j].plan.id>>, Problem(j)) ELSE nlogn
          /\ Goes(j, "save")
          /\ UNCHANGED left
       \/ /\ jobs[j].req.mode = "push"
          /\ Trouble
          /\ jobs' = [jobs EXCEPT ![j].pc = "save", ![j].ok = FALSE]
          /\ UNCHANGED nlogn
    /\ UNCHANGED <<host, base, version, clock, contested, torn>>

SavePublication(j) ==
    /\ Is(j, "save")
    /\ LET at == <<Problem(j), Contest(j)>>
           turn == 1 + Max({0} \union {published[other].turn : other \in DOMAIN published})
           row == [id |-> jobs[j].plan.id, version |-> jobs[j].version, turn |-> turn]
       IN  published' = IF at \in DOMAIN published /\ [published[at] EXCEPT !.turn = turn] = row
                        THEN published ELSE Put(published, at, row)
    /\ Ends(j, IF jobs[j].ok THEN "done" ELSE "failed")
    /\ UNCHANGED <<host, blocks, lock, nlogn, version, clock, left, contested, torn>>

-----------------------------------------------------------------------------
(* the worker dies; its transaction is rolled back, and the queue hands the job out again *)
Crash(j) ==
    /\ jobs[j].pc \notin {"queued", "done", "failed"}
    /\ Trouble
    /\ lock' = IF lock = j THEN Unset ELSE lock
    /\ torn' = IF Is(j, "write") THEN torn \union {<<Contest(j), Problem(j)>>} ELSE torn
    /\ jobs' = [jobs EXCEPT ![j] = IF @.tries + 1 < MaxTries THEN Idle("queued", @.req, @.tries + 1)
                                                             ELSE Idle("failed", @.req, @.tries)]
    /\ clock' = clock + 1
    /\ UNCHANGED <<host, blocks, published, nlogn, version, contested>>

BuildPackage(p) ==
    /\ version[p] < MaxVersions
    /\ version' = [version EXCEPT ![p] = @ + 1]
    /\ UNCHANGED <<host, base, nlogn, jobs, clock, left, contested, torn>>

(* a person adds a problem of their own, under a name a package may want *)
PersonAdds(c, name) ==
    /\ Trouble
    /\ LET cfg == contests[c]
           own == [id |-> NextId(cfg), short |-> FreeShort(cfg, Unset, 0), name |-> FreeName(cfg, name, 0)]
       IN  /\ contests' = [contests EXCEPT ![c] = Append(@, Section(Unset, 0, own))]
           /\ dirs' = Put(dirs, <<c, own.name>>, [problem |-> Unset, version |-> 0])
    /\ contested' = IF Writers(c) # {} THEN contested \union {c} ELSE contested
    /\ UNCHANGED <<staged, kept, base, nlogn, version, jobs, clock, torn>>

ExportInit ==
    /\ contests = [c \in OldContests |-> <<>>]
    /\ dirs = <<>> /\ staged = <<>> /\ kept = <<>>
    /\ blocks = <<>> /\ lock = Unset /\ published = <<>> /\ nlogn = <<>>
    /\ version = [p \in Problems |-> 1]
    /\ \E asked \in [Jobs -> Requests] : jobs = [j \in Jobs |-> Idle("queued", asked[j], 0)]
    /\ clock = 0
    /\ left = MaxTroubles
    /\ contested = {} /\ torn = {}

ExportNext ==
    \/ \E j \in Jobs :
        \/ ChooseContest(j) \/ MakeContest(j) \/ MakeFails(j) \/ CommitContest(j)
        \/ PlanExport(j) \/ Upload(j) \/ UploadFails(j) \/ Reread(j)
        \/ Swap(j) \/ WriteServeCfg(j) \/ WriteFails(j)
        \/ Tell(j) \/ SavePublication(j) \/ Crash(j)
    \/ \E p \in Problems : BuildPackage(p)
    \/ \E c \in OldContests, p \in Problems : PersonAdds(c, Wanted[p])

ExportSpec == ExportInit /\ [][ExportNext]_exportVars

-----------------------------------------------------------------------------
Own(c) == {contests[c][i] : i \in {k \in DOMAIN contests[c] : contests[c][k].extid # Unset}}

(***************************************************************************)
(* In a contest where no two writers met, no two problems share an id, a   *)
(* short name or a directory, and every exported problem has a directory   *)
(* with its own tests, of the package its section was made from: whatever  *)
(* fails on the way and whoever was planning beside (export.py:212-255).   *)
(* Between two packages it is left only by a swap whose answer or whose    *)
(* worker is lost.                                                         *)
(***************************************************************************)
ServedIsOwn ==
    \A c \in DOMAIN contests \ contested :
        /\ \A i, k \in DOMAIN contests[c] : i # k =>
            /\ contests[c][i].id # contests[c][k].id
            /\ contests[c][i].short # contests[c][k].short
            /\ contests[c][i].name # contests[c][k].name
        /\ \A s \in Own(c) :
            /\ <<c, s.name>> \in DOMAIN dirs
            /\ dirs[<<c, s.name>>].problem = s.extid
            /\ \/ dirs[<<c, s.name>>].version = s.version
               \/ <<c, s.extid>> \in torn
               \/ \E j \in Writers(c) : Is(j, "write") /\ Problem(j) = s.extid

(***************************************************************************)
(* Where a publication says a problem lives, and what NlogN takes an       *)
(* ejudge problem for, is what the contest serves under that id: a later   *)
(* export, with or without a publication, does not move it                 *)
(* (publish.py:67-89, convert.py:286-300).                                 *)
(***************************************************************************)
PublishedIsServed ==
    /\ \A at \in DOMAIN published : at[2] \notin contested =>
        \E s \in Own(at[2]) : s.id = published[at].id /\ s.extid = at[1]
    /\ \A at \in DOMAIN nlogn : at[1] \notin contested =>
        \E s \in Own(at[1]) : s.id = at[2] /\ s.extid = nlogn[at]

(***************************************************************************)
(* Contestants find every exported problem, under the id a publication     *)
(* gives, with its own tests.                                              *)
(***************************************************************************)
ProblemsAreServed == ServedIsOwn /\ PublishedIsServed

(***************************************************************************)
(* Publications that start together agree on one new block: a block is     *)
(* added only when the newest one was full or could not be read            *)
(* (autocontest.py:185-189).                                               *)
(***************************************************************************)
BlocksAreFilled ==
    [][blocks' # blocks /\ blocks # <<>> =>
        \/ ~HasRoom(Newest)
        \/ \E j \in Jobs : Is(j, "commit") /\ jobs[j].blind
        \/ Newest \in contested]_exportVars
=============================================================================
