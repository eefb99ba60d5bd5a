-------------------------- MODULE MCArchiveImport --------------------------
(* Two archives with one prefix: a day of two problems, and the second of     *)
(* them again; and small documents and archives for the reading of both.           *)
EXTENDS ArchiveImport

CONSTANTS a, b, i1, i2

Text(n, lead, trail) == [text |-> n, lead |-> lead, trail |-> trail]
File(folder, name, data, answer) == [folder |-> folder, name |-> name, data |-> data, answer |-> answer]
Plain(n) == Text(n, FALSE, FALSE)

(* the documents: one problem with a table of examples and a scoring table, a  *)
(* second one begun on the way, in every order of what a page may hold         *)
Line(n) == [kind |-> "line", text |-> n]
Heading(l) == [kind |-> "heading", letter |-> l, text |-> 0]
Section(s) == [kind |-> "section", to |-> s, text |-> 0]
Label(v) == [kind |-> "label", label |-> "time limit", value |-> v, text |-> 0]
Pair(n) == [kind |-> "pair", input |-> Plain(n)]
ExamplesTable == [kind |-> "examples", pairs |-> <<Pair(1)>>]
Cell(f, t) == [from |-> f, to |-> t]
Row(points, deps) == [points |-> points, deps |-> deps]
ScoringTable(n) ==
    [kind |-> "table", rows |-> <<Row(None, {})>> \o SubSeq(<<Row(3, {}), Row(None, {Cell(1, 1)})>>, 1, n)]
Items ==
    {Line(1), Heading("B"), Section("scoring"), Section("examples"), Label(5), Label(NoValue),
     ExamplesTable, ScoringTable(1), [kind |-> "image", input |-> Plain(9)], [kind |-> "furniture"]}
MCDocuments ==
    {<<Heading("A"), x, y, z>> : x \in Items, y \in Items, z \in {Line(1), Heading("B"), ExamplesTable, ScoringTable(1)}} \union
    {<<Line(1), Heading("A"), ExamplesTable, ScoringTable(2)>>}

MCFolders == <<"", "samples", "1", "2">>
MCFiles == {File(f, 1, d, FALSE) : f \in ToSet(MCFolders), d \in {Plain(1), Text(1, TRUE, FALSE), Text(2, FALSE, TRUE)}}
MCRawTests ==
    {<<x, y, File("1", 2, Plain(2), FALSE), File("1", 2, Plain(7), TRUE), File("2", 1, Plain(3), FALSE)>> :
        x \in MCFiles, y \in {File("samples", 2, Plain(1), FALSE), File("1", 1, Plain(1), FALSE)}}

(* the archive of the imports: a with samples and two groups, b with open tests *)
Names == <<"A", "B">>
Statements == SplitStatements(<<Heading("A"), ExamplesTable, Section("scoring"), ScoringTable(1)>>)
Source(tag) == [name |-> tag, tag |-> tag, source |-> TRUE]
Test(n, g, points, sample) == [data |-> Plain(n), group |-> g, points |-> points, is_sample |-> sample]
MCArchive ==
    a :> [tests |-> <<Test(1, 0, 0, TRUE), Test(2, 1, 3, FALSE)>>,
          groups |-> <<SampleGroup, [number |-> 1, points |-> 3, deps |-> {}]>>,
          statement |-> [letter |-> "A"], solutions |-> <<Source("OK")>>, images |-> 0] @@
    b :> [tests |-> <<Test(1, None, None, FALSE)>>, groups |-> <<>>,
          statement |-> NoStatement, solutions |-> <<>>, images |-> 0]
ParsedArchive ==
    a :> TaskData(<<File("samples", 1, Plain(1), FALSE), File("1", 1, Plain(2), FALSE)>>,
                  StatementOf(Statements, Names, 1), <<Source("OK")>>, 0) @@
    b :> TaskData(<<File("1", 1, Plain(1), FALSE)>>, StatementOf(Statements, Names, 2), <<>>, 0)
SameTask(t, u) == [t EXCEPT !.statement = @.letter] = [u EXCEPT !.statement = @.letter]
ArchiveIsAsParsed == \A p \in Problems : SameTask(Archive[p], ParsedArchive[p])

MCAsked ==
    i1 :> [problems |-> {a, b}, ai |-> TRUE, build |-> TRUE, parses |-> TRUE] @@
    i2 :> [problems |-> {b}, ai |-> FALSE, build |-> FALSE, parses |-> TRUE]

(* What is uploaded is what the archive holds, and all of it; looked at once, *)
(* before the first import.                                                   *)
ArchiveIsRead == ImportInit /\ present = {} => TextGoesToItsProblem /\ TestsAreTheArchive /\ ArchiveIsAsParsed
=============================================================================
