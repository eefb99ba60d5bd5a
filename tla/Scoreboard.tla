----------------------------- MODULE Scoreboard -----------------------------
(***************************************************************************)
(* The standings maths of backend/api/judge/scoreboard.py: submissions are *)
(* folded, in the order of their minutes, into one cell per contestant and *)
(* problem, the rows are ranked and get their places.                      *)
(***************************************************************************)
EXTENDS Integers, FiniteSets, SequencesExt, FiniteSetsExt

CONSTANTS
  Users, Problems,
  Name,         \* display_name.lower() of a user, as its alphabetical rank
  Officials     \* the users registered with is_official

ASSUME UsersAssumption ==
  IsFiniteSet(Users) /\ Officials \subseteq Users /\ Name \in [Users -> Nat]

PenaltyMinutes == 20
Scorings == {"icpc", "ioi"}

\* SubmissionFact
Fact == [user : Users, problem : Problems, minute : Nat, score : Nat,
         verdict : {"OK", "WA", "CE", "XX", "none"}]

Cell == [solved : BOOLEAN, attempts : Nat, score : Nat, solvedAt : Nat]
NewCell == [solved |-> FALSE, attempts |-> 0, score |-> 0, solvedAt |-> 0]

-----------------------------------------------------------------------------
\* build_rows()

\* sorted() by the minute alone: submissions of one minute stay as they came.
ByMinute(facts) ==
  LET Earlier(i, j) ==
        facts[i].minute < facts[j].minute \/ (facts[i].minute = facts[j].minute /\ i < j)
      order == SetToSortSeq(DOMAIN facts, Earlier)
  IN [i \in DOMAIN facts |-> facts[order[i]]]

Ioi(cell, fact) ==
  [solved   |-> cell.solved \/ fact.verdict = "OK",
   attempts |-> cell.attempts + 1,
   score    |-> Max({cell.score, fact.score}),
   solvedAt |-> IF fact.verdict = "OK" /\ ~cell.solved THEN fact.minute ELSE cell.solvedAt]

\* Mutant: attempts after the solve are counted too.
IcpcOpen(cell, fact) ==
  CASE fact.verdict = "OK"   -> [cell EXCEPT !.solved = TRUE, !.solvedAt = fact.minute,
                                             !.score = 1]
    [] fact.verdict = "CE"   -> cell
    [] OTHER                 -> [cell EXCEPT !.attempts = @ + 1]

Icpc(cell, fact) ==
  CASE cell.solved           -> cell
    [] fact.verdict = "OK"   -> [cell EXCEPT !.solved = TRUE, !.solvedAt = fact.minute,
                                             !.score = 1]
    [] fact.verdict = "CE"   -> cell
    [] OTHER                 -> [cell EXCEPT !.attempts = @ + 1]

\* The facts come sorted.
CellOf(facts, u, p, scoring) ==
  LET Here(f) == f.user = u /\ f.problem = p
      Step(cell, f) == IF scoring = "ioi" THEN Ioi(cell, f) ELSE Icpc(cell, f)
  IN FoldLeft(Step, NewCell, SelectSeq(facts, Here))

CellPenalty(cell) ==
  IF cell.solved THEN cell.solvedAt + PenaltyMinutes * cell.attempts ELSE 0

RowOf(facts, u, scoring) ==
  LET cells == [p \in Problems |-> CellOf(facts, u, p, scoring)]
  IN [cells   |-> cells,
      solved  |-> Cardinality({p \in Problems : cells[p].solved}),
      penalty |-> MapThenSumSet(LAMBDA p : CellPenalty(cells[p]), Problems),
      score   |-> MapThenSumSet(LAMBDA p : cells[p].score, Problems)]

BuildRows(facts, people, scoring) == [u \in people |-> RowOf(facts, u, scoring)]

-----------------------------------------------------------------------------
\* rank() and places()

\* What the order and the ties of the places depend on.
Key(row, scoring) == IF scoring = "ioi" THEN <<row.score>> ELSE <<row.solved, -row.penalty>>

Above(k, l) == \E i \in DOMAIN k : k[i] > l[i] /\ \A h \in 1..(i - 1) : k[h] = l[h]

Rank(rows, scoring) ==
  LET Ahead(u, v) ==
        LET k == Key(rows[u], scoring)
            l == Key(rows[v], scoring)
        IN Above(k, l) \/ (k = l /\ Name[u] < Name[v])
  IN SetToSortSeq(DOMAIN rows, Ahead)

\* One turn of the loop over the ranked rows.
NextPlace(acc, u, key) ==
  IF u \notin Officials
    THEN [acc EXCEPT !.out = Append(@, 0)]
    ELSE LET place == IF key = acc.key THEN acc.place ELSE acc.seen + 1
         IN [seen |-> acc.seen + 1, key |-> key, place |-> place,
             out |-> Append(acc.out, place)]

Places(rows, ranked, scoring) ==
  FoldLeft(LAMBDA acc, u : NextPlace(acc, u, Key(rows[u], scoring)),
           [seen |-> 0, key |-> <<>>, place |-> 0, out |-> <<>>], ranked).out

-----------------------------------------------------------------------------
\* The standings as an ICPC or IOI rule book words them, for comparison.

FactsAt(facts, u, p) ==
  {i \in DOMAIN facts : facts[i].user = u /\ facts[i].problem = p}

\* The cell of a contestant who solved the problem counts what went wrong
\* before the minute of the solve, never after it; whatever shares that minute
\* may count.
CellIsRight(cell, facts, u, p, scoring) ==
  LET here   == FactsAt(facts, u, p)
      oks    == {i \in here : facts[i].verdict = "OK"}
      solve  == Min({facts[i].minute : i \in oks})
      wrongs == {i \in here \ oks : facts[i].verdict # "CE"}
      before == {i \in wrongs : facts[i].minute < solve}
      until  == {i \in wrongs : facts[i].minute <= solve}
  IN /\ cell.solved = (oks # {})
     /\ oks # {} => cell.solvedAt = solve
     /\ IF scoring = "ioi"
          THEN /\ cell.attempts = Cardinality(here)
               /\ here # {} => cell.score = Max({facts[i].score : i \in here})
          ELSE IF oks = {} THEN cell.attempts = Cardinality(wrongs)
               ELSE Cardinality(before) <= cell.attempts /\ cell.attempts <= Cardinality(until)

\* Official contestants are placed one after the number of officials ahead.
PlaceIsRight(place, rows, u, scoring) ==
  place = IF u \notin Officials THEN 0
          ELSE 1 + Cardinality({v \in DOMAIN rows \cap Officials :
                                  Above(Key(rows[v], scoring), Key(rows[u], scoring))})
=============================================================================
