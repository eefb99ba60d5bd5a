-------------------------- MODULE PolygonWorkspace --------------------------
(***************************************************************************)
(* One user's requests, side by side, over one Polygon problem and the     *)
(* rows that cache it.  A request works through the steps of its route;    *)
(* between two of them any other request may move, the user may edit on    *)
(* Polygon itself, somebody else may commit there, and a call whose answer *)
(* was lost may still run.                                                 *)
(***************************************************************************)
EXTENDS PolygonRoutes, Naturals, FiniteSets

CONSTANTS
    Requests,     \* requests; also what they leave in a part they edit
    Offered,      \* the routes they may take
    SharedParts,  \* the parts edited on Polygon itself
    MaxAttempts,  \* client.py
    MaxLosses,    \* bound: answers lost, calls put off, requests that die
    MaxOutside    \* bound: edits and commits made on Polygon itself

Old == "old"
Person == "person"
Nil == "none"

ASSUME RequestsAssumption == IsFiniteSet(Requests) /\ {Old, Person, Nil} \cap Requests = {}
ASSUME RoutesAssumption == Offered \subseteq DOMAIN Routes /\ SharedParts \subseteq Parts \ Beside
ASSUME BoundsAssumption == MaxAttempts \in Nat \ {0} /\ MaxLosses \in Nat /\ MaxOutside \in Nat

VARIABLES
    request,     \* where each request is
    copy,        \* working copy on Polygon: its parts, and the edits in it
    revision,    \* the same of the revision the copy is based on
    theirs,      \* parts somebody else committed since
    packages,    \* packages ordered: by whom, holding which edits
    rows,        \* the cached rows of the problem
    sessions,    \* ai_sessions of the problem, by the request that added it
    linked,      \* the user has Polygon keys
    listed,      \* problems.list names the problem
    late,        \* calls given up or repeated that may still run
    counts,
    dropped,     \* ghost: edits discarded on Polygon
    before,      \* ghost: the requests over when a request arrived
    disturbed    \* ghost: who was overtaken since Polygon last answered it

polygon == <<copy, revision, theirs, packages, dropped>>
local   == <<rows, sessions, linked>>
workspaceVars == <<request, polygon, local, listed, late, counts, before, disturbed>>

NoRequest == [route |-> Nil, todo |-> <<>>, end |-> "new", tries |-> 0, answer |-> Nil, loaded |-> Nil]

WorkspaceInit ==
    /\ request = [r \in Requests |-> NoRequest]
    /\ copy = [value |-> [p \in Parts |-> Old], edits |-> {}]
    /\ revision = copy
    /\ theirs = {} /\ packages = {} /\ dropped = {}
    /\ rows \in {[problem |-> p, info |-> Nil, statements |-> Nil, solutions |-> Nil] : p \in {Nil, Old}}
    /\ sessions = {} /\ linked = TRUE
    /\ listed \in BOOLEAN
    /\ late = {} /\ counts = [losses |-> 0, outside |-> 0]
    /\ before = [r \in Requests |-> {}] /\ disturbed = {}

-----------------------------------------------------------------------------
(* A request and its steps.                                                *)
Running(r) == request[r].end = "running"
Over(r) == request[r].end \notin {"new", "running"}
Does(r, does) == Running(r) /\ Head(request[r].todo).does = does
What(r) == Head(request[r].todo).what

Ends(r, end) == request' = [request EXCEPT ![r] = [NoRequest EXCEPT !.route = request[r].route, !.end = end]]

\* On to the step after the next n; past the last one the answer is a 200.
Passed(q, n) ==
    LET todo == SubSeq(q.todo, n + 1, Len(q.todo))
    IN  IF todo = <<>> THEN [NoRequest EXCEPT !.route = q.route, !.end = "ok"]
                       ELSE [q EXCEPT !.todo = todo, !.tries = 0]
Passes(r, n) == request' = [request EXCEPT ![r] = Passed(@, n)]

Receive(r) ==
    /\ request[r].end = "new"
    /\ \E route \in Offered :
        request' = [request EXCEPT ![r].route = route, ![r].todo = Routes[route], ![r].end = "running"]
    /\ before' = [before EXCEPT ![r] = {q \in Requests : Over(q)}]
    /\ UNCHANGED <<polygon, local, listed, late, counts>>

-----------------------------------------------------------------------------
(* Polygon.                                                                *)
Uncommitted == copy.edits \ revision.edits
Conflicts == {p \in theirs : \E e \in Uncommitted : e[2] = p}
Merged(value) == [p \in Parts |-> IF p \in theirs \ Conflicts THEN Person ELSE value[p]]

Edit(who, part) ==
    copy' = [value |-> [copy.value EXCEPT ![part] = who],
             edits |-> copy.edits \cup (IF part \in Beside THEN {} ELSE {<<who, part>>})]

\* What Polygon does with a call.
Write(r, method) ==
    /\ Methods[method].does = "write" /\ Edit(r, Methods[method].part)
    /\ UNCHANGED <<revision, theirs, packages, dropped>>

CommitCopy(method) ==
    /\ Methods[method].does = "commit"
    /\ IF Conflicts = {}
         THEN /\ copy' = [copy EXCEPT !.value = Merged(@)]
              /\ revision' = copy' /\ theirs' = {}
         ELSE UNCHANGED <<copy, revision, theirs>>
    /\ UNCHANGED <<packages, dropped>>

UpdateCopy(method) ==
    /\ Methods[method].does = "update"
    /\ copy' = [copy EXCEPT !.value = Merged(@)]
    /\ revision' = [revision EXCEPT !.value = Merged(@)]
    /\ theirs' = Conflicts
    /\ UNCHANGED <<packages, dropped>>

DiscardCopy(method) ==
    /\ Methods[method].does = "discard"
    /\ copy' = [revision EXCEPT !.value = [p \in Parts |-> IF p \in Beside THEN copy.value[p] ELSE @[p]]]
    /\ dropped' = dropped \cup Uncommitted
    /\ UNCHANGED <<revision, theirs, packages>>

BuildPackage(r, method) ==
    /\ Methods[method].does = "build"
    /\ packages' = packages \cup {[by |-> r, edits |-> revision.edits]}
    /\ UNCHANGED <<copy, revision, theirs, dropped>>

Look(method) == Methods[method].does \in {"read", "list", "create"} /\ UNCHANGED polygon

Execute(r, method) ==
    \/ Write(r, method) \/ CommitCopy(method) \/ UpdateCopy(method)
    \/ DiscardCopy(method) \/ BuildPackage(r, method) \/ Look(method)

Answer(method) ==
    CASE Methods[method].does = "read" /\ Methods[method].part \in Parts -> copy.value[Methods[method].part]
      [] Methods[method].does = "list" /\ listed -> Old
      [] OTHER -> Nil

-----------------------------------------------------------------------------
(* A call of Polygon.                                                      *)
Calls(r) == Does(r, "call") /\ (linked \/ request[r].tries > 0)
\* problem.* methods know the problem only while it is there.
Known(method) == listed \/ method \in {"list_problems", "create_problem", "get_contest_problems"}

\* A wrong parameter is told at once.
RefuseParameter(r) ==
    /\ Does(r, "call") /\ Head(request[r].todo).checked /\ request[r].tries = 0
    /\ Ends(r, "invalid")
    /\ UNCHANGED <<polygon, late, counts>>

\* Every call looks the keys up again.
LackKeys(r) ==
    /\ Does(r, "call") /\ ~linked /\ request[r].tries = 0
    /\ Ends(r, "unauthorized")
    /\ UNCHANGED <<polygon, late, counts>>

\* Mutant: the envelope says OK.
CommitPasses(method) == FALSE

\* A commit that met a conflict is an error, whatever the envelope says.
CommitFails(method) == Methods[method].does = "commit" /\ Conflicts # {}

Answered(r) ==
    LET method == What(r)
    IN  /\ Calls(r) /\ Known(method) /\ Execute(r, method)
        /\ IF CommitFails(method)
             THEN Ends(r, "conflict")
             ELSE request' = [request EXCEPT ![r] = Passed([@ EXCEPT !.answer = Answer(method)], 1)]
        /\ UNCHANGED <<late, counts>>

\* status=FAILED: raised at once, nothing was done.
Refused(r) == Calls(r) /\ Ends(r, "refused") /\ UNCHANGED <<polygon, late, counts>>

\* No answer, or none that can be read: "busy" was refused for the moment
\* (rate limit, stale time), the others may have run, now or later.
Fates == {"busy", "never", "ran", "late", "garbled"}
Repeats(method, fate) ==
    \/ fate = "busy"
    \/ fate # "garbled" /\ method \notin NotRepeatable

Lost(r) ==
    LET method == What(r)
    IN  /\ Calls(r) /\ counts.losses < MaxLosses
        /\ counts' = [counts EXCEPT !.losses = @ + 1]
        /\ \E fate \in Fates :
             /\ IF fate \in {"ran", "garbled"} /\ Known(method) THEN Execute(r, method) ELSE UNCHANGED polygon
             /\ late' = IF fate = "late" THEN late \cup {<<r, method>>} ELSE late
             /\ IF Repeats(method, fate) /\ request[r].tries + 1 < MaxAttempts
                  THEN request' = [request EXCEPT ![r].tries = @ + 1]
                  ELSE Ends(r, "failed")

CallStep(r) ==
    /\ RefuseParameter(r) \/ LackKeys(r) \/ Answered(r) \/ Refused(r) \/ Lost(r)
    /\ UNCHANGED <<local, listed, before>>

-----------------------------------------------------------------------------
(* The rows.                                                               *)
HasRow(row) == rows.problem # Nil /\ rows[row] # Nil

Peek(r) ==
    /\ Does(r, "peek")
    /\ IF HasRow(What(r)) THEN Ends(r, "ok") ELSE Passes(r, 1)
    /\ UNCHANGED rows

\* Nothing to store, or no problem to store it for: the flush is passed over.
Nothing(r) == Nil = IF What(r) = "problem" THEN request[r].answer ELSE rows.problem

Load(r) ==
    /\ Does(r, "load")
    /\ IF Nothing(r)
         THEN Passes(r, 2)
         ELSE request' = [request EXCEPT ![r] = Passed([@ EXCEPT !.loaded = rows[What(r)]], 1)]
    /\ UNCHANGED rows

\* One commit: a row that was missing is inserted, and fails if another
\* request was first; of one that was there the columns that differ from the
\* loaded ones are written.
Missing(row, value) == row # "info" /\ value = Nil

Flush(r) ==
    LET row == What(r)
        q == request[r]
    IN  /\ Does(r, "flush")
        /\ IF Missing(row, q.loaded) /\ HasRow(row)
             THEN Ends(r, "failed") /\ UNCHANGED rows
             ELSE /\ Passes(r, 1)
                  /\ rows' = IF q.answer = q.loaded THEN rows ELSE [rows EXCEPT ![row] = q.answer]

Show(r) ==
    \/ /\ Does(r, "show") /\ Passes(r, 1) /\ UNCHANGED rows
    \/ /\ Does(r, "found") /\ UNCHANGED rows
       /\ IF rows.problem # Nil THEN Passes(r, 1) ELSE Ends(r, "notFound")

RowStep(r) ==
    /\ Peek(r) \/ Load(r) \/ Flush(r) \/ Show(r)
    /\ UNCHANGED <<polygon, sessions, linked, listed, late, counts, before>>

\* A session is added by whoever finds none.
FindSession(r) ==
    /\ Does(r, "find")
    /\ IF sessions # {} THEN Ends(r, "ok") ELSE Passes(r, 1)
    /\ UNCHANGED sessions
AddSession(r) == Does(r, "add") /\ sessions' = sessions \cup {r} /\ Passes(r, 1)

SessionStep(r) ==
    /\ FindSession(r) \/ AddSession(r)
    /\ UNCHANGED <<polygon, rows, linked, listed, late, counts, before>>

\* The user's row is read, the keys are tried on Polygon, then written - if
\* they are not those that were read.
LoadUser(r) ==
    /\ Does(r, "user") /\ UNCHANGED linked
    /\ request' = [request EXCEPT ![r] = Passed([@ EXCEPT !.loaded = IF linked THEN Old ELSE Nil], 1)]
Probe(r) ==
    /\ Does(r, "probe") /\ UNCHANGED linked
    /\ \/ Passes(r, 1)
       \/ \E end \in {"refused", "failed"} : Ends(r, end)
KeepKeys(r) ==
    /\ Does(r, "keep") /\ Passes(r, 1)
    /\ \/ linked' = TRUE
       \/ request[r].loaded # Nil /\ UNCHANGED linked
DropKeys(r) ==
    /\ Does(r, "drop") /\ Passes(r, 1)
    /\ linked' = (linked /\ request[r].loaded = Nil)

AccountStep(r) ==
    /\ LoadUser(r) \/ Probe(r) \/ KeepKeys(r) \/ DropKeys(r)
    /\ UNCHANGED <<polygon, rows, sessions, listed, late, counts, before>>

\* The database fails, the process dies: what was not committed is gone.
Die(r) ==
    /\ Running(r) /\ counts.losses < MaxLosses
    /\ counts' = [counts EXCEPT !.losses = @ + 1]
    /\ Ends(r, "failed")
    /\ UNCHANGED <<polygon, local, listed, late, before>>

-----------------------------------------------------------------------------
(* Around the requests.                                                    *)
RunLate ==
    /\ \E call \in late :
        /\ late' = late \ {call}
        /\ IF Known(call[2]) THEN Execute(call[1], call[2]) ELSE UNCHANGED polygon
    /\ UNCHANGED <<request, local, listed, counts, before>>

Outside ==
    /\ counts.outside < MaxOutside
    /\ counts' = [counts EXCEPT !.outside = @ + 1]
    /\ \E part \in SharedParts :
        \/ /\ Edit(Person, part) /\ UNCHANGED <<revision, theirs, packages, dropped>>
        \/ /\ theirs' = theirs \cup {part} /\ UNCHANGED <<copy, revision, packages, dropped>>
    /\ UNCHANGED <<request, local, listed, late, before>>

Members(steps) == {steps[i] : i \in DOMAIN steps}
Refreshed(steps) == {s.what : s \in {t \in Members(steps) : t.does = "flush" /\ t.what # "problem"}}

\* Who moves a part or a row overtakes the other running requests; one that
\* asks Polygon and has refreshed nothing yet is up to date again.
Overtakes(who) ==
    LET moved == copy'.value # copy.value \/ rows' # rows
        asks == {r \in Requests : /\ r = who /\ Does(r, "call")
                                  /\ Refreshed(request[r].todo) = Refreshed(Routes[request[r].route])}
    IN  disturbed' = {r \in Requests : /\ r \in disturbed \/ (moved /\ r # who /\ Running(r))
                                       /\ r \notin asks}

RequestStep(r) == Receive(r) \/ CallStep(r) \/ RowStep(r) \/ SessionStep(r) \/ AccountStep(r) \/ Die(r)

WorkspaceNext ==
    \/ \E r \in Requests : RequestStep(r) /\ Overtakes(r)
    \/ (RunLate \/ Outside) /\ Overtakes(Nil)

\* Requests may all be over, or wait for nobody.
WorkspaceSpec == WorkspaceInit /\ [][WorkspaceNext]_workspaceVars

-----------------------------------------------------------------------------
(* What the routes promise.                                                *)
StepsFor(r) == Members(Routes[request[r].route])
Edited(r) ==
    {<<r, Methods[s.what].part>> : s \in {t \in StepsFor(r) : t.does = "call" /\ Methods[t.what].does = "write"}}
KeptEdits(r) == {e \in Edited(r) : e[2] \notin Beside}

AnsweredIsDone ==
    \A r \in Requests : request[r].end = "ok" => KeptEdits(r) \subseteq copy.edits \cup dropped

BuiltHoldsTheSaved ==
    \A package \in packages : request[package.by].route = "build" =>
        \A r \in before[package.by] :
            request[r].end = "ok" => KeptEdits(r) \subseteq package.edits \cup dropped

(* An edit answered with a 200 is on Polygon until it is discarded there, and *)
(* in every package ordered together with a commit afterwards: a conflict or *)
(* a lost answer never passes for a commit (working_copy.py, packages.py).   *)
SavedIsKept == AnsweredIsDone /\ BuiltHoldsTheSaved

RefreshIsFresh ==
    \A r \in Requests :
        Running(r) /\ ~Does(r, "peek") /\ request'[r].end = "ok" /\ r \notin disturbed' /\ rows'.problem # Nil =>
            \A row \in Refreshed(Routes[request[r].route]) : rows'[row] = copy'.value[row]

SessionIsFound == \A r \in sessions' \ sessions : before[r] \cap sessions = {}

(* A route that saves or syncs leaves rows that show what Polygon has, unless *)
(* another request or an edit on Polygon overtook it after its first refresh  *)
(* asked (info.py, statement.py: save, then refresh); and a request adds a    *)
(* session only if none answered before it had added one (session.py).        *)
RowsAreRight == [][RefreshIsFresh /\ SessionIsFound]_workspaceVars
=============================================================================
