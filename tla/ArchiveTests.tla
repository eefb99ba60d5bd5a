---------------------------- MODULE ArchiveTests ----------------------------
(***************************************************************************)
(* How the archive of an olympiad is read (polygon/archive/parser.py): the *)
(* common PDF is split into statements, the files of a problem become      *)
(* numbered tests, duplicates left out, samples first, and the rows of the *)
(* scoring table become groups.  A text is [text, lead, trail]: lead and   *)
(* trail stand for white space before and after its lines.                 *)
(***************************************************************************)
EXTENDS Naturals, Sequences, FiniteSets, SequencesExt, FiniteSetsExt

CONSTANTS
    Folders,     \* the folders of tests, by the number in their name, then by name
    Documents,   \* the documents examined, sequences of items
    RawTests,    \* the tests examined, sequences of files
    None

NoStatement == [letter |-> "", sections |-> <<>>, examples |-> <<>>, limits |-> {}]
SamplesFolder == "samples"
DefaultFolders == {"", "tests"}

(***************************************************************************)
(* split_statements: a fold over the items of the pages.  A heading opens  *)
(* a statement, a section heading turns to a section, a label sets a limit *)
(* now or with the next line, and the rest goes to the section at hand; a  *)
(* table of examples goes to the examples wherever it stands.              *)
(***************************************************************************)
NoLabel == ""
NoValue == 0
Unread == [sts |-> <<>>, section |-> "legend", label |-> NoLabel]

Opened(s, item) ==
    [s EXCEPT !.sts = Append(@, [letter |-> item.letter, sections |-> <<>>, examples |-> <<>>, limits |-> {}]),
              !.section = "legend", !.label = NoLabel]

OnLast(s, Change(_)) == [s EXCEPT !.sts[Len(s.sts)] = Change(@)]

\* The section of examples is the list of examples itself.
Put(s, section, item) ==
    OnLast(s, LAMBDA st : IF section = "examples" THEN [st EXCEPT !.examples = Append(@, item)]
                          ELSE [st EXCEPT !.sections = Append(@, <<section, item>>)])

SetsLimit(s, label, value) == OnLast(s, LAMBDA st : [st EXCEPT !.limits = @ \union {<<label, value>>}])

ReadLine(s, item) ==
    CASE item.kind = "heading" -> Opened(s, item)
      [] s.sts = <<>> -> s
      [] s.label # NoLabel -> [SetsLimit(s, s.label, item.text) EXCEPT !.label = NoLabel]
      [] item.kind = "label" -> IF item.value = NoValue THEN [s EXCEPT !.label = item.label]
                                ELSE SetsLimit(s, item.label, item.value)
      [] item.kind = "section" -> [s EXCEPT !.section = item.to]
      [] OTHER -> Put(s, s.section, item)

ReadItem(s, item) ==
    CASE item.kind = "furniture" -> s      \* running headers, footers, logos
      [] item.kind \notin {"image", "table", "examples"} -> ReadLine(s, item)
      [] s.sts = <<>> -> s
      [] item.kind = "image" -> Put(s, s.section, item)
      [] item.kind = "examples" -> OnLast(s, LAMBDA st : [st EXCEPT !.examples = @ \o item.pairs])
      [] OTHER -> Put(s, IF s.section = "legend" THEN "scoring" ELSE s.section, item)

SplitStatements(items) == FoldLeft(ReadItem, Unread, items).sts

\* What of the scoring section is no line: the first of it is to be a table.
Scoring(st) == SelectSeq(st.sections, LAMBDA x : x[1] = "scoring" /\ x[2].kind \in {"image", "table"})

\* Whatever stands among the examples and is no pair breaks the reading of the
\* archive, and so does an image before the scoring table.
Readable(st) ==
    /\ \A i \in DOMAIN st.examples : st.examples[i].kind \in {"pair", "image"}
    /\ Scoring(st) # <<>> => Scoring(st)[1][2].kind = "table"

\* The rows of the scoring table, without the header.
ScoringRows(st) == IF Scoring(st) = <<>> THEN <<>> ELSE Tail(Scoring(st)[1][2].rows)

(***************************************************************************)
(* parse_archive: the statement of a problem is the one with its letter,   *)
(* else the one at its place.                                              *)
(***************************************************************************)
StatementOf(sts, names, i) ==
    LET own == {k \in DOMAIN sts : sts[k].letter = names[i]}
    IN  IF own # {} THEN sts[Max(own)]
        ELSE IF i \in DOMAIN sts THEN sts[i] ELSE NoStatement

(***************************************************************************)
(* read_raw_tests and the two ways texts are compared: with the examples   *)
(* of the statement, and among themselves as Polygon compares them.        *)
(***************************************************************************)
ReadRawTests(files) == SelectSeq(files, LAMBDA f : ~f.answer)
NormalizeText(d) == d.text
PolygonTestNorm(d) == <<d.text, d.lead>>

InFolder(raw, folder) ==
    LET at == {i \in DOMAIN raw : raw[i].folder = folder}
        by(i, j) == raw[i].name < raw[j].name \/ (raw[i].name = raw[j].name /\ i < j)
        order == SetToSortSeq(at, by)
    IN  [k \in DOMAIN order |-> raw[order[k]]]

Examples(st) == {NormalizeText(st.examples[i].input) : i \in DOMAIN st.examples}

IsSampleFolder(raw, st, folder) ==
    \/ folder = SamplesFolder
    \/ /\ folder \in DefaultFolders
       /\ Examples(st) # {}
       /\ \A i \in DOMAIN InFolder(raw, folder) : NormalizeText(InFolder(raw, folder)[i].data) \in Examples(st)

UsedFolders(raw) == SelectSeq(Folders, LAMBDA f : \E i \in DOMAIN raw : raw[i].folder = f)
SampleFolders(raw, st) == SelectSeq(UsedFolders(raw), LAMBDA f : IsSampleFolder(raw, st, f))
RegularFolders(raw, st) == SelectSeq(UsedFolders(raw), LAMBDA f : ~IsSampleFolder(raw, st, f))

\* The files as they are numbered, and those of them that repeat an earlier one.
Ordered(raw, st) ==
    LET fs == SampleFolders(raw, st) \o RegularFolders(raw, st)
    IN  FlattenSeq([k \in DOMAIN fs |-> InFolder(raw, fs[k])])

\* mutant: a test is compared with those of its own folder
RepeatsInFolder(files, i) ==
    \E j \in 1..i - 1 : /\ PolygonTestNorm(files[j].data) = PolygonTestNorm(files[i].data)
                        /\ files[j].folder = files[i].folder

Repeats(files, i) == \E j \in 1..i - 1 : PolygonTestNorm(files[j].data) = PolygonTestNorm(files[i].data)

Kept(files) == LET at == SetToSortSeq({i \in DOMAIN files : ~Repeats(files, i)}, <)
               IN  [k \in DOMAIN at |-> files[at[k]]]

(***************************************************************************)
(* The groups: as many rows as folders, or none at all.  A row may lack    *)
(* its points or its dependencies; a range of dependencies is spelled out. *)
(***************************************************************************)
ParseDependencies(cell) == UNION {part.from .. part.to : part \in cell}

UseGroups(raw, st) == ScoringRows(st) # <<>> /\ Len(ScoringRows(st)) = Len(RegularFolders(raw, st))

SampleGroup == [number |-> 0, points |-> 0, deps |-> {}]
NoGroup == [number |-> None, points |-> None, deps |-> {}]
Groups(raw, st) ==
    IF ~UseGroups(raw, st) THEN <<>>
    ELSE (IF SampleFolders(raw, st) = <<>> THEN <<>> ELSE <<SampleGroup>>) \o
         [i \in DOMAIN ScoringRows(st) |->
             [number |-> i, points |-> ScoringRows(st)[i].points, deps |-> ParseDependencies(ScoringRows(st)[i].deps)]]

GroupOf(raw, st, folder) ==
    IF ~UseGroups(raw, st) THEN NoGroup
    ELSE IF IsSampleFolder(raw, st, folder) THEN SampleGroup
    ELSE LET at == CHOOSE i \in DOMAIN RegularFolders(raw, st) : RegularFolders(raw, st)[i] = folder
             gs == Groups(raw, st)
         IN  gs[CHOOSE k \in DOMAIN gs : gs[k].number = at]

\* The points of a folder's group are on its last test, the others are worth 0.
TestPoints(files, i, g) ==
    CASE g.points = None -> None
      [] \E j \in i + 1 .. Len(files) : files[j].folder = files[i].folder -> 0
      [] OTHER -> g.points

BuildTests(raw, st) ==
    LET files == Kept(Ordered(raw, st))
    IN  [i \in DOMAIN files |->
            LET g == GroupOf(raw, st, files[i].folder)
            IN  [data      |-> files[i].data,
                 group     |-> g.number,
                 points    |-> TestPoints(files, i, g),
                 is_sample |-> IsSampleFolder(raw, st, files[i].folder)]]

(***************************************************************************)
(* upload_task: the sources among the solutions, one of them the main one. *)
(***************************************************************************)
Uploadable(sols) == SelectSeq(sols, LAMBDA s : s.source)
WithMain(sols) ==
    IF sols = <<>> \/ \E i \in DOMAIN sols : sols[i].tag = "MA" THEN sols
    ELSE LET ok == {i \in DOMAIN sols : sols[i].tag = "OK"}
         IN  [sols EXCEPT ![IF ok = {} THEN 1 ELSE Min(ok)].tag = "MA"]

EmptySolution == [name |-> "empty.py", tag |-> "MA", source |-> TRUE]
Solutions(sols) == IF Uploadable(sols) = <<>> THEN <<EmptySolution>> ELSE WithMain(Uploadable(sols))

\* A task as parse_archive returns it; images are those of its statement.
TaskData(raw, st, solutions, images) ==
    [tests |-> BuildTests(ReadRawTests(raw), st), groups |-> Groups(ReadRawTests(raw), st),
     statement |-> st, solutions |-> solutions, images |-> images]

(***************************************************************************)
(* What the reading promises.                                              *)
(***************************************************************************)
Before(items, i, Is(_)) == Max({0} \union {j \in 1..i - 1 : Is(items[j])})

\* What gives the label before it its value is no text, and no label either.
Values(items) ==
    LET value[i \in DOMAIN items] ==
            LET j == Before(items, i, LAMBDA x : x.kind \in {"heading", "section", "line", "label"})
            IN  /\ Before(items, i, LAMBDA x : x.kind = "heading") \notin {0, j}
                /\ items[j].kind = "label" /\ items[j].value = NoValue
                /\ ~value[j]
    IN  {i \in DOMAIN items : value[i]}

LinesUnder(items, h) ==
    {i \in h + 1 .. Len(items) : /\ items[i].kind = "line"
                                 /\ Before(items, i, LAMBDA x : x.kind = "heading") = h
                                 /\ i \notin Values(items)}

LinesOf(st) ==
    LET lines == SelectSeq(st.sections, LAMBDA x : x[2].kind = "line")
    IN  [k \in DOMAIN lines |-> lines[k][2]] \o SelectSeq(st.examples, LAMBDA x : x.kind = "line")

\* Whatever a page holds between, the text under the heading of a problem is its
\* own, whole and in order (split_statements); lines among the examples come last.
TextGoesToItsProblem ==
    \A d \in Documents :
        LET sts == SplitStatements(d)
            heads == SelectSeq([i \in DOMAIN d |-> i], LAMBDA i : d[i].kind = "heading")
        IN  /\ Len(sts) = Len(heads)
            /\ \A k \in DOMAIN heads :
                  LET lines == LinesOf(sts[k])
                      at == LinesUnder(d, heads[k])
                  IN  /\ sts[k].letter = d[heads[k]].letter
                      /\ ToSet(lines) = {d[i] : i \in at}
                      /\ Len(lines) = Cardinality(at)

GroupPoints(tests, g) ==
    MapThenSumSet(LAMBDA i : tests[i].points, {i \in DOMAIN tests : tests[i].group = g})

\* What build_tests takes from a statement: the examples and the scoring tables.
ForTests(st) == [st EXCEPT !.letter = "", !.limits = {}, !.sections = Scoring(st)]

\* The tests of a problem (build_tests): no two that Polygon would call equal, the
\* samples first, no file left out but for an equal test, and every group that kept
\* a test worth what its row of the scoring table says.
TestsAreTheArchive ==
    \A st \in {ForTests(s) : s \in UNION {ToSet(SplitStatements(d)) : d \in Documents}} \union {NoStatement} :
        Readable(st) => \A r \in RawTests :
            LET raw == ReadRawTests(r)
                tests == BuildTests(raw, st)
                norm(i) == PolygonTestNorm(tests[i].data)
            IN  /\ \A i, j \in DOMAIN tests : norm(i) = norm(j) => i = j
                /\ \A i, j \in DOMAIN tests : i < j /\ tests[j].is_sample => tests[i].is_sample
                /\ {norm(i) : i \in DOMAIN tests} = {PolygonTestNorm(raw[i].data) : i \in DOMAIN raw}
                /\ \A g \in ToSet(Groups(raw, st)) :
                      (g.points # None /\ \E i \in DOMAIN tests : tests[i].group = g.number)
                        => GroupPoints(tests, g.number) = g.points
=============================================================================
