--------------------------- MODULE ContestResults ---------------------------
(* Imported contests of one user: standings and submissions fetched from    *)
(* Codeforces or Yandex.Contest, the plagiarism checks run over them, and   *)
(* the bans a juror or a finished check puts on results.                    *)
(*                                                                          *)
(* Every request is one database transaction under READ COMMITTED.  What it *)
(* loads is kept in the session's identity map (txn[a].view); the commit    *)
(* writes the ATTRIBUTES that differ from what was loaded, as absolute      *)
(* values, and leaves the other columns as they are in the database.        *)
EXTENDS Integers, Sequences, FiniteSets, FiniteSetsExt

CONSTANTS
    History,      \* what participants send to the platform, in order of time:
                  \* a sequence of [who, task, part, score, ok, lang]
    Name,         \* the display name of a participant
    LangPatterns, \* _LANG_PATTERNS: a sequence of [langs, name]
    Percent,      \* similarity of two sources, as the C++ engine computes it
    Threshold, BanThreshold,
    Held,         \* where the contest may be held: pairs <<platform, scored>>
    Requests,     \* requests of the user that may be in flight together
    Reports,      \* plagiarism reports that may be made
    CheckOptions, \* the filters a check is run with
    MaxEpoch      \* bound: how often the contest may be deleted

Subs == 1..Len(History)
Who(s) == History[s].who
TaskOf(s) == History[s].task
Participants == {Who(s) : s \in Subs}
Tasks == {TaskOf(s) : s \in Subs}
ResultOf(s) == <<Who(s), TaskOf(s)>>
Results == Participants \X Tasks

ASSUME HistoryAssumption ==
    /\ Len(History) \in Nat
    /\ \A s \in Subs : History[s].score \in Nat /\ History[s].ok \in BOOLEAN
ASSUME ConstantsAssumption ==
    /\ Threshold \in 0..100 /\ BanThreshold \in 0..100
    /\ Percent \in [Subs \X Subs -> 0..100]
    /\ \A p, q \in Participants : Name[p] = Name[q] => p = q
    /\ Requests \cap Reports = {}
    /\ CheckOptions \subseteq [onlyOk : BOOLEAN, tasks : SUBSET Tasks, langs : SUBSET STRING]
    /\ Held \subseteq {"cf", "yandex"} \X BOOLEAN
    /\ MaxEpoch \in Nat

VARIABLES
    platform,     \* "cf" or "yandex": where the contest is held
    scored,       \* it is judged by points (else by accepted tasks)
    sent,         \* the platform has received History[1..sent]
    exists, epoch,\* the contest is stored; how often it was deleted
    rows,         \* participants with a contest_participants row
    score, banned,\* task_results, by <<participant, task>>
    total,        \* contest_participants.score
    stored,       \* submissions stored
    marked,       \* submissions with banned = true
    report,       \* plagiarism_reports.status, "none" before there is a row
    pairs,        \* pair_of_banned_submissions, by report
    check,        \* the background task of a report
    txn,          \* what each request or check has loaded and not committed
    overlapped,   \* history: participants written from an outdated view
    lost          \* history: reports whose task died with the process

contest  == <<exists, epoch>>
data     == <<rows, score, banned, total, overlapped>>
outside  == <<platform, scored, sent>>
subsdata == <<stored, marked>>
checks   == <<report, pairs, check, lost>>
vars == <<outside, contest, data, subsdata, checks, txn>>

Idle == [kind |-> "idle"]
Actors == Requests \cup Reports
Total(S, Val(_)) == FoldSet(LAMBDA x, acc : Val(x) + acc, 0, S)
Monus(a, b) == IF a > b THEN a - b ELSE 0

-----------------------------------------------------------------------------
(* The platform: every participant has a row for each part (contest,        *)
(* practice) he took part in, with a cell for each task.                    *)
NoScore == -1
PlatformRows == {<<Who(s), History[s].part>> : s \in 1..sent}
Cell(row, t) ==
    LET mine == {s \in 1..sent : /\ Who(s) = row[1] /\ TaskOf(s) = t
                                 /\ History[s].part = row[2]}
    IN  [score    |-> IF scored THEN Max({0} \cup {History[s].score : s \in mine})
                      ELSE NoScore,
         accepted |-> \E s \in mine : History[s].ok]

Send == /\ sent < Len(History)
        /\ sent' = sent + 1
        /\ UNCHANGED <<platform, scored, contest, data, subsdata, checks, txn>>

-----------------------------------------------------------------------------
(* What a request loads: the rows of the participants P it touches.         *)
View(P) == [at     |-> contest,
            rows   |-> rows \cap P,
            score  |-> [r \in P \X Tasks |-> score[r]],
            banned |-> [r \in P \X Tasks |-> banned[r]],
            total  |-> [p \in P |-> total[p]]]

\* Mutant: every column is written, as an UPDATE of the whole row does.
WriteAll(v, n, P) ==
    /\ score' = [r \in Results |-> IF r[1] \in P THEN n.score[r] ELSE score[r]]
    /\ banned' = [r \in Results |-> IF r[1] \in P THEN n.banned[r] ELSE banned[r]]
    /\ total' = [p \in Participants |-> IF p \in P THEN n.total[p] ELSE total[p]]
    /\ overlapped' = overlapped

(* The commit of P's rows: new values n of what the view v holds.  An       *)
(* attribute equal to the one loaded is not part of the UPDATE.             *)
Write(v, n, P) ==
    LET Wrote(p) == \/ n.total[p] # v.total[p]
                    \/ \E t \in Tasks : \/ n.score[p, t] # v.score[p, t]
                                        \/ n.banned[p, t] # v.banned[p, t]
        Outdated(p) == \/ total[p] # v.total[p]
                       \/ \E t \in Tasks : \/ score[p, t] # v.score[p, t]
                                           \/ banned[p, t] # v.banned[p, t]
        Set(old, loaded, new) == IF new # loaded THEN new ELSE old
    IN  /\ score' = [r \in Results |-> IF r[1] \in P
                      THEN Set(score[r], v.score[r], n.score[r]) ELSE score[r]]
        /\ banned' = [r \in Results |-> IF r[1] \in P
                      THEN Set(banned[r], v.banned[r], n.banned[r]) ELSE banned[r]]
        /\ total' = [p \in Participants |-> IF p \in P
                      THEN Set(total[p], v.total[p], n.total[p]) ELSE total[p]]
        /\ overlapped' = overlapped \cup {p \in P : Wrote(p) /\ Outdated(p)}
                                    \cup {p \in DOMAIN n.total : p \notin P}

Done(a) == txn' = [txn EXCEPT ![a] = Idle]

-----------------------------------------------------------------------------
(* Import of standings.  The rows of a participant are merged into his best *)
(* points per task, not banned.  Codeforces gives points in every contest,  *)
(* Yandex an empty score where only acceptance counts.                      *)
CodeforcesPoints(cell) == IF cell.score = NoScore THEN (IF cell.accepted THEN 1 ELSE 0)
                          ELSE cell.score
Merged(page, points) ==
    [score  |-> points,
     banned |-> [r \in page \X Tasks |-> FALSE],
     total  |-> [p \in page |-> Total({p} \X Tasks, LAMBDA r : points[r])]]
RowsOf(p) == {row \in PlatformRows : row[1] = p}
FormatCodeforces(page) ==
    Merged(page, [r \in page \X Tasks |->
        Max({CodeforcesPoints(Cell(row, r[2])) : row \in RowsOf(r[1])})])
FormatYandex(page) ==
    Merged(page, [r \in page \X Tasks |->
        Max({IF Cell(row, r[2]).score # NoScore THEN Cell(row, r[2]).score
             ELSE IF Cell(row, r[2]).accepted THEN 1 ELSE 0 : row \in RowsOf(r[1])})])

Pages == SUBSET {row[1] : row \in PlatformRows} \ {{}}
Fetched(r, new) ==
    /\ txn[r] = Idle
    /\ txn' = [txn EXCEPT ![r] = [kind |-> "fetched", new |-> new]]
    /\ UNCHANGED <<outside, contest, data, subsdata, checks>>

(* A page is fetched and formatted ...                                      *)
CodeforcesStandings(r) == /\ platform = "cf"
                          /\ \E page \in Pages : Fetched(r, FormatCodeforces(page))
YandexStandings(r) == /\ platform = "yandex"
                      /\ \E page \in Pages : Fetched(r, FormatYandex(page))

(* ... merge_table finds the rows it has already ...                        *)
LookUpRows(r) ==
    /\ txn[r].kind = "fetched"
    /\ txn' = [txn EXCEPT ![r] = [kind |-> "merge", new |-> txn[r].new,
                                  view |-> View(DOMAIN txn[r].new.total)]]
    /\ UNCHANGED <<outside, contest, data, subsdata, checks>>

(* ... and commits.  A contest inserted twice fails on the primary keys of  *)
(* its tasks, one deleted meanwhile on the rows that are gone.  A           *)
(* participant inserted twice has two rows: nothing makes him unique.       *)
MergeTable(r) ==
    /\ txn[r].kind = "merge"
    /\ Done(r)
    /\ LET v == txn[r].view
           P == DOMAIN v.total
           same == v.at[1] = exists /\ (exists => v.at[2] = epoch)
       IN  IF ~same
           THEN UNCHANGED <<contest, data>>
           ELSE /\ exists' = TRUE
                /\ rows' = rows \cup P
                /\ Write(v, txn[r].new, P \ (rows \ v.rows))
    /\ UNCHANGED <<outside, epoch, subsdata, checks>>

(* Import of submissions: those whose participant has a row are stored, one *)
(* stored before keeps its mark.  Nothing it writes is written by another   *)
(* request, so the request is one step.  Codeforces names a participant by  *)
(* his login, Yandex by his display name.  A page starts at the newest.     *)
Store(found) == /\ exists
                /\ stored' = stored \cup found
                /\ UNCHANGED <<outside, contest, data, marked, checks, txn>>

SubmissionPages == {i..sent : i \in 1..sent}
CodeforcesSubmissions ==
    /\ platform = "cf"
    /\ \E page \in SubmissionPages : Store({s \in page : Who(s) \in rows})
YandexSubmissions ==
    /\ platform = "yandex"
    /\ \E page \in SubmissionPages :
         Store({s \in page : \E p \in rows : Name[p] = Name[Who(s)]})

(* The score stored with a submission.  Without points Yandex's formatter   *)
(* looks for the verdict ACCEPTED where the verdict list says OK.           *)
SubmissionScore(s) == IF scored THEN History[s].score ELSE 0

(* delete_contest: nothing cascades to submissions, so that a contest that  *)
(* has some is refused by the database and stays as it is.                  *)
DeleteContest ==
    /\ exists /\ stored = {} /\ epoch < MaxEpoch
    /\ exists' = FALSE /\ epoch' = epoch + 1
    /\ rows' = {}
    /\ score' = [r \in Results |-> 0]
    /\ banned' = [r \in Results |-> FALSE]
    /\ total' = [p \in Participants |-> 0]
    /\ overlapped' = {}
    /\ report' = [c \in Reports |-> IF report[c] = "none" THEN "none" ELSE "deleted"]
    /\ UNCHANGED <<outside, subsdata, pairs, check, lost, txn>>

-----------------------------------------------------------------------------
(* Bans.  _ban_task_result_for_submission for each of S, in one             *)
(* transaction: a result already banned is left alone.                      *)
Ban(S) ==
    LET P == {Who(s) : s \in S}
        v == View(P)
        R == {ResultOf(s) : s \in S} \ {r \in Results : banned[r]}
        taken(p) == Total({r \in R : r[1] = p}, LAMBDA r : v.score[r])
    IN  [kind |-> "ban", results |-> R, view |-> v,
         new |-> [score  |-> [r \in P \X Tasks |-> IF r \in R THEN 0 ELSE v.score[r]],
                  banned |-> [r \in P \X Tasks |-> r \in R \/ v.banned[r]],
                  total  |-> [p \in P |-> Monus(v.total[p], taken(p))]]]

\* Mutant: results that are not banned are restored too.
UnbanEach(S) ==
    LET P == {Who(s) : s \in S}
        v == View(P)
        R == {ResultOf(s) : s \in S}
        restored == [r \in R |->
            Max({0} \cup {SubmissionScore(s) : s \in {u \in stored : ResultOf(u) = r}})]
        given(p) == Total({r \in R : r[1] = p}, LAMBDA r : restored[r])
    IN  [kind |-> "unban", results |-> R, view |-> v,
         new |-> [score  |-> [r \in P \X Tasks |-> IF r \in R THEN restored[r] ELSE v.score[r]],
                  banned |-> [r \in P \X Tasks |-> r \notin R /\ v.banned[r]],
                  total  |-> [p \in P |-> v.total[p] + given(p)]]]

(* _unban_task_result_for_submission: the best of the result's submissions  *)
(* is its score again.                                                      *)
Unban(S) ==
    LET P == {Who(s) : s \in S}
        v == View(P)
        R == {ResultOf(s) : s \in S} \cap {r \in Results : banned[r]}
        restored == [r \in R |->
            Max({0} \cup {SubmissionScore(s) : s \in {u \in stored : ResultOf(u) = r}})]
        given(p) == Total({r \in R : r[1] = p}, LAMBDA r : restored[r])
    IN  [kind |-> "unban", results |-> R, view |-> v,
         new |-> [score  |-> [r \in P \X Tasks |-> IF r \in R THEN restored[r] ELSE v.score[r]],
                  banned |-> [r \in P \X Tasks |-> r \notin R /\ v.banned[r]],
                  total  |-> [p \in P |-> v.total[p] + given(p)]]]

(* The submissions a juror names: one side of a pair, or every side of the  *)
(* pairs of a report, of one task or of all.                                *)
Sides(prs) == {pr[1] : pr \in prs} \cup {pr[2] : pr \in prs}
Named == {{pr[i]} : pr \in UNION {pairs[c] : c \in Reports}, i \in 1..2}
         \cup {Sides(pairs[c]) : c \in Reports}
         \cup {Sides({pr \in pairs[c] : TaskOf(pr[1]) = t}) : c \in Reports, t \in Tasks}

BeginBan(r) ==
    /\ txn[r] = Idle
    /\ \E S \in Named \ {{}} : \/ txn' = [txn EXCEPT ![r] = Ban(S)]
                              \/ txn' = [txn EXCEPT ![r] = Unban(S)]
    /\ UNCHANGED <<outside, contest, data, subsdata, checks>>

(* The commit; the marks of all the submissions of the results are set by   *)
(* one UPDATE, which sees what is stored by then.                           *)
CommitBan(a) ==
    LET ofResults == {s \in stored : ResultOf(s) \in txn[a].results}
    IN  /\ txn[a].kind \in {"ban", "unban"}
        /\ Done(a)
        /\ Write(txn[a].view, txn[a].new, DOMAIN txn[a].view.total)
        /\ marked' = IF txn[a].kind = "ban" THEN marked \cup ofResults
                     ELSE marked \ ofResults
        /\ UNCHANGED <<outside, contest, rows, stored, report, pairs, lost>>

(* A request may fail before its commit (a deadlock, a lost connection):    *)
(* nothing of it is stored.                                                 *)
Abort(r) == /\ txn[r] # Idle
            /\ Done(r)
            /\ UNCHANGED <<outside, contest, data, subsdata, checks>>

-----------------------------------------------------------------------------
(* Plagiarism checks.                                                       *)
NormalizeLanguage(lang) ==
    LET m == {i \in 1..Len(LangPatterns) : lang \in LangPatterns[i].langs}
    IN  IF m = {} THEN lang ELSE LangPatterns[Min(m)].name

(* The submissions a check compares: of those the filters let through, the  *)
(* last of each participant on each task.                                   *)
Compared(opt) ==
    LET matching == {s \in stored :
            /\ opt.onlyOk => History[s].ok
            /\ opt.langs # {} => NormalizeLanguage(History[s].lang) \in opt.langs
            /\ opt.tasks # {} => TaskOf(s) \in opt.tasks}
    IN  {s \in matching : \A u \in matching : ResultOf(u) = ResultOf(s) => u <= s}

(* The engine compares within a task; a pair is reported from Threshold on. *)
SimilarPairs(S) ==
    {pr \in S \X S : /\ pr[1] < pr[2] /\ TaskOf(pr[1]) = TaskOf(pr[2])
                    /\ Percent[pr] >= Threshold}

(* The report is committed, then its task is left to the event loop.        *)
RunPlagiarismCheck(c) ==
    /\ exists /\ report[c] = "none"
    /\ report' = [report EXCEPT ![c] = "processing"]
    /\ \E opt \in CheckOptions : check' = [check EXCEPT ![c] = [kind |-> "asked", opt |-> opt]]
    /\ UNCHANGED <<outside, contest, data, subsdata, pairs, lost, txn>>

LoadSubmissions(c) ==
    /\ check[c].kind = "asked"
    /\ check' = [check EXCEPT ![c] =
                   [kind |-> "found", pairs |-> SimilarPairs(Compared(check[c].opt))]]
    /\ UNCHANGED <<outside, contest, data, subsdata, report, pairs, lost, txn>>

\* Mutant: a report without pairs is not completed.
PersistSomePairs(c) ==
    /\ check[c].kind = "found"
    /\ pairs' = [pairs EXCEPT ![c] = check[c].pairs]
    /\ report' = [report EXCEPT ![c] = IF check[c].pairs = {} THEN @ ELSE "completed"]
    /\ check' = [check EXCEPT ![c] = [kind |-> "persisted", ban |->
                   {pr \in check[c].pairs : Percent[pr] >= BanThreshold}]]
    /\ UNCHANGED <<outside, contest, data, subsdata, lost, txn>>

(* The pairs and the status are one transaction.                            *)
PersistPairs(c) ==
    /\ check[c].kind = "found"
    /\ report[c] # "deleted" \/ check[c].pairs = {}
    /\ pairs' = [pairs EXCEPT ![c] = check[c].pairs]
    /\ report' = [report EXCEPT ![c] = IF @ = "deleted" THEN @ ELSE "completed"]
    /\ check' = [check EXCEPT ![c] = [kind |-> "persisted", ban |->
                   {pr \in check[c].pairs : Percent[pr] >= BanThreshold}]]
    /\ UNCHANGED <<outside, contest, data, subsdata, lost, txn>>

(* The automatic bans are another: CommitBan(c) ends it.                    *)
AutoBan(c) ==
    /\ check[c].kind = "persisted" /\ check[c].ban # {} /\ txn[c] = Idle
    /\ txn' = [txn EXCEPT ![c] = Ban(Sides(check[c].ban))]
    /\ UNCHANGED <<outside, contest, data, subsdata, checks>>

CommitAutoBan(c) ==
    /\ CommitBan(c)
    /\ check' = [check EXCEPT ![c] = Idle]

NothingToBan(c) ==
    /\ check[c].kind = "persisted" /\ check[c].ban = {}
    /\ check' = [check EXCEPT ![c] = Idle]
    /\ UNCHANGED <<outside, contest, data, subsdata, report, pairs, lost, txn>>

(* Whatever fails, the report becomes failed, a completed one too.          *)
CheckFails(c) ==
    /\ check[c] # Idle
    /\ check' = [check EXCEPT ![c] = Idle]
    /\ report' = [report EXCEPT ![c] = IF @ = "deleted" THEN @ ELSE "failed"]
    /\ Done(c)
    /\ UNCHANGED <<outside, contest, data, subsdata, pairs, lost>>

(* The API process restarts: transactions roll back, tasks are gone.        *)
Restart ==
    /\ \E a \in Actors : txn[a] # Idle \/ (a \in Reports /\ check[a] # Idle)
    /\ txn' = [a \in Actors |-> Idle]
    /\ check' = [c \in Reports |-> Idle]
    /\ lost' = lost \cup {c \in Reports : check[c] # Idle}
    /\ UNCHANGED <<outside, contest, data, subsdata, report, pairs>>

-----------------------------------------------------------------------------
Init ==
    /\ \E h \in Held : platform = h[1] /\ scored = h[2]
    /\ sent = 0
    /\ exists = FALSE /\ epoch = 0
    /\ rows = {} /\ overlapped = {}
    /\ score = [r \in Results |-> 0]
    /\ banned = [r \in Results |-> FALSE]
    /\ total = [p \in Participants |-> 0]
    /\ stored = {} /\ marked = {}
    /\ report = [c \in Reports |-> "none"]
    /\ pairs = [c \in Reports |-> {}]
    /\ check = [c \in Reports |-> Idle]
    /\ lost = {}
    /\ txn = [a \in Actors |-> Idle]

Juror(r) == CodeforcesStandings(r) \/ YandexStandings(r) \/ LookUpRows(r) \/ MergeTable(r) \/ BeginBan(r)
            \/ (CommitBan(r) /\ UNCHANGED check) \/ Abort(r)

Task(c) == LoadSubmissions(c) \/ PersistPairs(c) \/ AutoBan(c)
           \/ CommitAutoBan(c) \/ NothingToBan(c)

Next == \/ Send
        \/ CodeforcesSubmissions \/ YandexSubmissions \/ DeleteContest \/ Restart
        \/ \E r \in Requests : Juror(r)
        \/ \E c \in Reports : RunPlagiarismCheck(c) \/ Task(c) \/ CheckFails(c)

(* The event loop runs a task that can go on.                               *)
Spec == Init /\ [][Next]_vars /\ \A c \in Reports : WF_vars(Task(c))

-----------------------------------------------------------------------------
TypeOK ==
    /\ sent \in 0..Len(History)
    /\ exists \in BOOLEAN /\ epoch \in 0..MaxEpoch
    /\ rows \subseteq Participants /\ overlapped \subseteq Participants
    /\ score \in [Results -> Nat] /\ banned \in [Results -> BOOLEAN]
    /\ total \in [Participants -> Nat]
    /\ stored \subseteq 1..sent /\ marked \subseteq stored
    /\ report \in [Reports -> {"none", "processing", "completed", "failed", "deleted"}]
    /\ pairs \in [Reports -> SUBSET (Subs \X Subs)]
    /\ \A a \in Actors : txn[a].kind \in {"idle", "fetched", "merge", "ban", "unban"}
    /\ \A c \in Reports : check[c].kind \in {"idle", "asked", "found", "persisted"}

(* get_contest_table sums the results that are not banned.                  *)
EffectiveTotal(p) == Total({r \in Results : r[1] = p /\ ~banned[r]}, LAMBDA r : score[r])

(* The total stored with a participant, which imports set and bans adjust,  *)
(* is the total the standings table computes, unless two requests wrote the *)
(* participant on top of each other.                                        *)
TotalsAgree == \A p \in Participants \ overlapped : total[p] = EffectiveTotal(p)

(* No sequence of imports, bans and unbans gives a result more than the     *)
(* platform awarded, whoever overlaps with whom.                            *)
ScoresAreEarned ==
    \A r \in Results : score[r] <=
        Max({0} \cup {IF scored THEN History[s].score ELSE 1 :
                         s \in {u \in 1..sent : ResultOf(u) = r}})

(* Only a result that a report shows in a pair is ever banned, and within a *)
(* report two participants meet at most once on a task.                     *)
OnlyReportedAreBanned ==
    /\ \A r \in Results : banned[r] =>
         \E c \in Reports : \E s \in Sides(pairs[c]) : ResultOf(s) = r
    /\ \A c \in Reports : \A x, y \in pairs[c] :
         {ResultOf(x[1]), ResultOf(x[2])} = {ResultOf(y[1]), ResultOf(y[2])} => x = y

(* A ban is lifted only by a request that had seen it: an import that was   *)
(* looking at the rows when the ban was committed leaves it in place.       *)
BanSurvivesStaleRequest ==
    \A r \in Results : banned[r] /\ ~banned'[r] /\ exists' =>
        \E a \in Actors : /\ txn[a].kind \in {"merge", "unban"} /\ txn'[a] = Idle
                         /\ r \in DOMAIN txn[a].view.banned /\ txn[a].view.banned[r]

(* Once a report is shown its pairs stay.  The automatic bans leave no      *)
(* result of a pair from BanThreshold on counting, but one that was banned  *)
(* when they looked and whose ban a juror lifts at the same time.           *)
ReportsAreKept ==
    \A c \in Reports :
        /\ report[c] = "completed" => /\ pairs'[c] = pairs[c]
                                      /\ report'[c] \in {"completed", "failed", "deleted"}
        /\ check[c].kind = "persisted" /\ check'[c] = Idle
             /\ report'[c] = "completed" /\ c \notin lost' =>
             \A pr \in pairs[c] : Percent[pr] >= BanThreshold =>
                \A i \in 1..2 : \/ banned'[ResultOf(pr[i])]
                                \/ /\ txn[c].kind = "ban"
                                   /\ txn[c].view.banned[ResultOf(pr[i])]

(* The points of a contest are those its platform awarded, less the bans of  *)
(* its reports, and a total is the sum of its results (base_plagiarism.py).  *)
PointsAreSound == TotalsAgree /\ ScoresAreEarned /\ OnlyReportedAreBanned

(* No request and no check undoes a ban or a report it has not seen.         *)
BansAreKept == [][BanSurvivesStaleRequest /\ ReportsAreKept]_vars

(* Every check ends, unless the process that ran it died.                   *)
ChecksEnd ==
    \A c \in Reports : report[c] = "processing" ~> (report[c] # "processing" \/ c \in lost)
=============================================================================
