---------------------------- MODULE ContestBoard ----------------------------
(***************************************************************************)
(* The board of one contest (backend/api/judge/contests.py and cache.py):  *)
(* readers that recompute and cache it, administrators that change the     *)
(* contest and drop the cached board, and the grading worker that stores   *)
(* verdicts.                                                               *)
(*                                                                         *)
(* The API process has wired its cache to Redis at startup.  The worker is *)
(* another process: nothing wires the cache module it imports.             *)
(***************************************************************************)
EXTENDS Scoreboard

CONSTANTS
  Facts,        \* the submissions of the contest, as the judge will see them
  Readers,      \* GET .../scoreboard requests in flight
  MaxEdits      \* bound: PUT, DELETE and registration requests

ASSUME FactsAssumption == Facts \subseteq Fact /\ IsFiniteSet(Facts) /\ MaxEdits \in Nat

VARIABLES
  contest,     \* the row and its problem slots
  people,      \* judge_contest_participants
  judged,      \* the submissions whose row says judged
  hooked,      \* those whose grader also went through on_submission_judged()
  dropping,    \* edits committed whose invalidate() is still to come
  edits,
  cache,       \* the Redis key
  pc, seen, crowd, rows, \* a reader: where it is, its contest, people and rows
  payload      \* the board it computed from them

db     == <<contest, people, judged>>
reader == <<pc, seen, crowd, rows, payload>>
vars   == <<contest, people, judged, hooked, dropping, edits, cache,
            pc, seen, crowd, rows, payload>>

Labels == {"idle", "contest", "people", "rows", "write"}
Contest == [exists : BOOLEAN, scoring : Scorings, problems : SUBSET Problems]
Miss == [hit |-> FALSE]
Row == [cells : [Problems -> Cell], solved : 0..Cardinality(Problems),
        penalty : Nat, score : Nat]
IsBoard(board) ==
  /\ board.hit /\ board.scoring \in Scorings /\ board.problems \subseteq Problems
  /\ DOMAIN board.rows = DOMAIN board.place /\ DOMAIN board.rows \subseteq Users
  /\ \A u \in DOMAIN board.rows :
       board.rows[u] \in Row /\ board.place[u] \in 0..Cardinality(Officials)

TypeOK ==
  /\ contest \in Contest
  /\ people \subseteq Users
  /\ judged \subseteq Facts
  /\ hooked \subseteq judged
  /\ edits \in 0..MaxEdits
  /\ dropping \in 0..edits
  /\ cache = Miss \/ IsBoard(cache)
  /\ pc \in [Readers -> Labels]
  /\ seen \in [Readers -> Contest]
  /\ crowd \in [Readers -> SUBSET Users]
  /\ rows \in [Readers -> Seq(Fact)]
  /\ \A r \in Readers : payload[r] = Miss \/ IsBoard(payload[r])

\* What a request holds before it has read anything.
Nothing == [exists |-> FALSE, scoring |-> "icpc", problems |-> {}]

Init ==
  /\ contest \in [exists : {TRUE}, scoring : Scorings, problems : {Problems}]
  /\ people = Officials
  /\ judged = {} /\ hooked = {}
  /\ dropping = 0 /\ edits = 0
  /\ cache = Miss
  /\ pc = [r \in Readers |-> "idle"]
  /\ seen = [r \in Readers |-> Nothing]
  /\ crowd = [r \in Readers |-> {}]
  /\ rows = [r \in Readers |-> <<>>]
  /\ payload = [r \in Readers |-> Miss]

Goto(r, label) == pc' = [pc EXCEPT ![r] = label]

-----------------------------------------------------------------------------
\* The grading worker

Judge(f) ==
  /\ f \notin judged
  /\ judged' = judged \cup {f}
  /\ UNCHANGED <<contest, people, hooked, dropping, edits, cache, reader>>

\* set_cache_backend() is called by the API server only.
WorkerHasCache == FALSE

\* on_submission_judged(), in the worker process
Hook(f) ==
  /\ f \in judged \ hooked
  /\ hooked' = hooked \cup {f}
  /\ cache' = IF WorkerHasCache THEN Miss ELSE cache
  /\ UNCHANGED <<db, dropping, edits, reader>>

-----------------------------------------------------------------------------
\* The administrator's requests: commit first, then drop the cached board

Edit ==
  /\ contest.exists /\ edits < MaxEdits
  /\ edits' = edits + 1
  /\ dropping' = dropping + 1
  /\ UNCHANGED <<judged, hooked, cache, reader>>

Update ==
  /\ Edit
  /\ \E s \in Scorings, slots \in SUBSET Problems :
       contest' = [contest EXCEPT !.scoring = s, !.problems = slots]
  /\ UNCHANGED people

Delete ==
  /\ Edit
  /\ contest' = [contest EXCEPT !.exists = FALSE]
  /\ people' = {}

\* The unique constraint of the table refuses to register someone twice.
Register(u) ==
  /\ u \notin people
  /\ Edit
  /\ people' = people \cup {u}
  /\ UNCHANGED contest

Invalidate ==
  /\ dropping > 0
  /\ dropping' = dropping - 1
  /\ cache' = Miss
  /\ UNCHANGED <<db, hooked, edits, reader>>

-----------------------------------------------------------------------------
\* scoreboard(): every await lets the others in

\* A hit is answered at once and changes nothing.
Read(r) ==
  /\ pc[r] = "idle" /\ cache = Miss
  /\ Goto(r, "contest")
  /\ UNCHANGED <<db, hooked, dropping, edits, cache, seen, crowd, rows, payload>>

\* A contest that is gone is a 404.
ReadContest(r) ==
  /\ pc[r] = "contest"
  /\ seen' = [seen EXCEPT ![r] = contest]
  /\ Goto(r, IF contest.exists THEN "people" ELSE "idle")
  /\ UNCHANGED <<db, hooked, dropping, edits, cache, crowd, rows, payload>>

ReadPeople(r) ==
  /\ pc[r] = "people"
  /\ crowd' = [crowd EXCEPT ![r] = people]
  /\ Goto(r, "rows")
  /\ UNCHANGED <<db, hooked, dropping, edits, cache, seen, rows, payload>>

Payload(c, crew, facts) ==
  LET built  == BuildRows(facts, crew, c.scoring)
      ranked == Rank(built, c.scoring)
      places == Places(built, ranked, c.scoring)
  IN [hit |-> TRUE, scoring |-> c.scoring, problems |-> c.problems, rows |-> built,
      place |-> [u \in crew |-> places[CHOOSE i \in DOMAIN ranked : ranked[i] = u]]]

\* The rows arrive and the board is computed without another await.
Compute(r, facts) ==
  /\ rows' = [rows EXCEPT ![r] = facts]
  /\ payload' = [payload EXCEPT ![r] = Payload(seen[r], crowd[r], facts)]
  /\ Goto(r, "write")
  /\ UNCHANGED <<db, hooked, dropping, edits, cache, seen, crowd>>

\* No ORDER BY: the rows come in any order, and build_rows() sorts them.
ReadRows(r) ==
  /\ pc[r] = "rows"
  /\ IF seen[r].problems = {} \/ crowd[r] = {}
       THEN Compute(r, <<>>)
       ELSE \E facts \in {ByMinute(order) : order \in SetToSeqs(judged)} : Compute(r, facts)

Write(r) ==
  /\ pc[r] = "write"
  /\ cache' = payload[r]
  /\ Goto(r, "idle")
  /\ seen' = [seen EXCEPT ![r] = Nothing]
  /\ crowd' = [crowd EXCEPT ![r] = {}]
  /\ rows' = [rows EXCEPT ![r] = <<>>]
  /\ payload' = [payload EXCEPT ![r] = Miss]
  /\ UNCHANGED <<db, hooked, dropping, edits>>

\* Mutant: the key is written without its time to live.
NeverExpire == FALSE /\ UNCHANGED vars

\* The key's time to live runs out.
Expire ==
  /\ cache # Miss
  /\ cache' = Miss
  /\ UNCHANGED <<db, hooked, dropping, edits, reader>>

-----------------------------------------------------------------------------
Serve(r) == Read(r) \/ ReadContest(r) \/ ReadPeople(r) \/ ReadRows(r) \/ Write(r)

Next ==
  \/ \E f \in Facts : Judge(f) \/ Hook(f)
  \/ Update \/ Delete \/ (\E u \in Users : Register(u)) \/ Invalidate
  \/ \E r \in Readers : Serve(r)
  \/ Expire

Spec == Init /\ [][Next]_vars

\* A request that is being served goes on: Serve(r) is enabled as long as the
\* request is not over, and every step of it moves pc[r].
GoesOn(r) ==
  /\ pc[r] # "idle"
  /\ \E l \in Labels \ {pc[r]} : Goto(r, l)

\* Redis expires the key.
FairSpec ==
  /\ Spec
  /\ \A r \in Readers : WF_pc(GoesOn(r))
  /\ WF_vars(Expire)

-----------------------------------------------------------------------------
\* Whatever rows a reader gets, in whatever order, the cells count what the
\* rule book says and the places are competition places.
\* (scoreboard.py:58-128: one pass with a flag, one loop with a previous key)
StandingsAreRight ==
  \A r \in Readers : pc[r] = "write" =>
    LET board == payload[r]
    IN \A u \in crowd[r] :
         /\ PlaceIsRight(board.place[u], board.rows, u, board.scoring)
         /\ \A p \in Problems :
              CellIsRight(board.rows[u].cells[p], rows[r], u, p, board.scoring)

\* A cached board never runs ahead of the judge: what it counts was judged.
\* (contests.py:218-223: only judged rows are read.)
ShownWasJudged ==
  cache # Miss =>
    \A u \in DOMAIN cache.rows, p \in Problems :
      LET cell  == cache.rows[u].cells[p]
          known == {f \in judged : f.user = u /\ f.problem = p}
      IN /\ cell.solved => \E f \in known : f.verdict = "OK"
         /\ cell.attempts <= Cardinality(known)

\* What a reader computes and what a cache holds is right: the places and cells
\* of the rules over the rows it read, and only of what was judged.
\* (standings.py, contests.py:218-223)
ShownIsRight == StandingsAreRight /\ ShownWasJudged

\* The cached board is one of the contest as it stands.
IsFresh(board) ==
  LET counted == IF contest.problems = {} THEN <<>> ELSE SetToSeq(judged)
  IN /\ contest.exists
     /\ board.scoring = contest.scoring /\ board.problems = contest.problems
     /\ DOMAIN board.rows = people
     /\ \A u \in people, p \in Problems :
          CellIsRight(board.rows[u].cells[p], counted, u, p, board.scoring)

\* A stale board does not outlive its time to live for ever: once the database
\* stands still, the cache ends up empty or up to date, although a slow reader
\* may write an old board after everything was invalidated.  (cache.py:37-42)
EventuallyFresh == <>[](cache = Miss \/ IsFresh(cache))

=============================================================================
