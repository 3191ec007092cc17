---------------------------- MODULE MCAlgorithms ----------------------------
(***************************************************************************)
(* The functions without state, over bounded inputs, for TLC.              *)
(***************************************************************************)
EXTENDS QueryPlan, Retrieval, Splitting, Sections, Materialize, ParseRoute, Templates,
        Evaluation, MinerUArchive, Config

\* Sequences over S of at most n elements.
UpTo(S, n) == UNION {[1..k -> S] : k \in 0..n}

\* QueryPlan: two words and their variants.
MCQueries ==
  {q \in [word : 0..3, capital : BOOLEAN, padded : BOOLEAN, long : BOOLEAN] :
     q.word # 1 => ~q.capital /\ ~q.padded /\ (q.long = (q.word = 3))}

\* Retrieval: up to two queries over three chunks, and one over five.
Lists(ids, n) == {l \in UpTo(ids, n) : \A i, j \in DOMAIN l : l[i] = l[j] => i = j}
Full(ids, n) == {l \in Lists(ids, n) : Len(l) = n}
Scores(l, scale) == [i \in DOMAIN l |-> [id |-> l[i], score |-> scale * (5 - i)]]
QueriesOver(ids, n, scales, fails) ==
  {[vector |-> Scores(v, 2), text |-> Scores(t, scale), textFails |-> tf, vectorFails |-> vf] :
     v \in Lists(ids, n), t \in Lists(ids, n), scale \in scales, tf \in fails, vf \in {FALSE}}
Failing == [vector |-> <<>>, text |-> <<>>, textFails |-> FALSE, vectorFails |-> TRUE]
MCSearchInputs ==
  [queries : {<<>>, <<Failing>>}, topK : {7}, minScore : {0}]
  \cup [queries : {<<[vector |-> Scores(v, 2), text |-> Scores(t, 2), textFails |-> FALSE,
                      vectorFails |-> FALSE]>> : v \in Full(1..5, 4), t \in Full(2..5, 4)},
        topK : {7}, minScore : {0}]
  \cup [queries : {<<q>> : q \in QueriesOver(1..3, 3, {3}, BOOLEAN)}, topK : {0, 2, 3}, minScore : {0, 6}]
  \cup [queries : {<<p, q>> : p \in QueriesOver(1..3, 2, {1}, {FALSE}),
                               q \in QueriesOver(1..3, 2, {1}, {FALSE})},
        topK : {2}, minScore : {0}]

\* Splitting: texts of up to seven runes.
MCTexts == UpTo({"newline", "stop", "letter"}, 7)
MCSeparators == <<"break", "newline", "stop">>

\* Sections: an abstract-like paper in one atom, and three atoms of a book.
Rows(n, parser) ==
  [lines : UpTo({1, 2, 0}, n), structured : {TRUE}, title : {FALSE}, parser : {parser}]
FewRows(parser) ==
  Rows(2, parser)
  \cup [lines : {<<0>>, <<2>>}, structured : {TRUE}, title : {TRUE}, parser : {parser}]
  \cup [lines : {<<0>>}, structured : {FALSE}, title : {FALSE}, parser : {parser}]
Pictured == [lines : {<<0>>}, structured : {FALSE}, title : {FALSE}, parser : {TRUE}]
MCSectionInputs ==
  [atoms : {<<[lines |-> l, structured |-> TRUE, title |-> FALSE, parser |-> FALSE]>> :
              l \in UpTo({1, 2, 3, 8, 0, 9}, 4)}, paper : {TRUE}]
  \cup [atoms : [1..3 -> FewRows(TRUE)] \cup [1..3 -> FewRows(FALSE) \cup Pictured], paper : {FALSE}]

\* Tables: lines with and without a header, under a title as in a workbook,
\* and HTML of rows, tags and text in any order.
Letters(n) == [i \in 1..n |-> "letter"]
OnLines(lines) ==
  FlattenSeq([i \in DOMAIN lines |-> IF i = 1 THEN lines[i] ELSE <<"newline">> \o lines[i]])
RowSizes(sizes, n) == {[i \in DOMAIN r |-> Letters(r[i])] : r \in UpTo(sizes, n)}
PipeTable(rows) == OnLines(<<<<"letter">>, <<"dash">>>> \o rows)
Tags == {<<"caption">>, <<"letter">>, <<"<table>">>, <<"</table>">>, <<"<tr>">>, <<"</tr>">>,
         <<"<tr>", "<th>", "</tr>">>, <<"<tr>", "letter", "</tr>">>,
         <<"<tr>", "letter", "newline", "letter", "</tr>">>}
TitledTables ==
  [text : {<<"letter", "break">> \o PipeTable(r) : r \in RowSizes({1, 2, 4}, 3)}, target : {6, 8}]
MCTableInputs ==
  TitledTables
  \cup [text : {PipeTable(r) : r \in RowSizes({1, 2, 4}, 4)} \cup {OnLines(r) : r \in RowSizes({1, 2, 4}, 4)}
                \cup {FlattenSeq(<<<<"letter">>, <<"<table>">>>> \o t \o <<<<"</table>">>>>) : t \in UpTo(Tags, 4)}
                \cup {FlattenSeq(<<<<"<table>">>>> \o t) : t \in UpTo(Tags, 3)},
         target : {6, 8}]

\* Materialize: up to three atoms of text, tables, pictures and scans, laid
\* out one after the other.
Laying(atoms) ==
  LET before == [n \in DOMAIN atoms |->
                   FoldLeft(LAMBDA t, m : t + Len(atoms[m].runes) + 1, 0, [m \in 1..(n - 1) |-> m])]
  IN  [text |-> FlattenSeq([n \in DOMAIN atoms |->
                   IF n = 1 THEN atoms[n].runes ELSE <<"break">> \o atoms[n].runes]),
       atoms |-> [n \in DOMAIN atoms |->
                   [first |-> before[n] + 1, last |-> before[n] + Len(atoms[n].runes),
                    image |-> atoms[n].image, scanned |-> atoms[n].scanned,
                    parser |-> atoms[n].parser, kind |-> atoms[n].kind]]]
WithText(texts, parsers, kinds) ==
  [runes : texts, image : {FALSE}, scanned : {FALSE}, parser : parsers, kind : kinds]
AnyAtom ==
  WithText({<<>>, Letters(1), <<"letter", "stop", "letter", "letter", "newline", "letter", "letter", "letter">>},
           BOOLEAN, {"text", "section", "whole", "picture"})
  \cup WithText({PipeTable(<<Letters(1), Letters(1)>>),
                 <<"letter", "<table>", "<tr>", "letter", "</tr>", "letter", "<tr>", "letter", "</tr>",
                   "</table>", "letter">>}, BOOLEAN, {"table"})
  \cup {p \in [runes : {<<>>, Letters(1)}, image : {TRUE}, scanned : BOOLEAN, parser : BOOLEAN,
               kind : {"text", "formula"}] :
          (p.scanned => ~p.parser /\ p.runes = <<>>) /\ (p.kind = "formula" => p.parser)}
Around(middle) ==
  {<<x, y, z>> : x \in WithText({Letters(3)}, BOOLEAN, {"text"}), y \in middle,
                 z \in WithText({Letters(1), <<"letter", "letter", "newline", "letter", "letter", "letter">>},
                                {FALSE}, {"text"})}
MCMaterializeInputs ==
  {[text |-> Laying(atoms).text, atoms |-> Laying(atoms).atoms, target |-> 5, overlap |-> overlap,
    vision |-> v[1], visionFails |-> v[2], putFails |-> fails] :
     atoms \in UpTo(AnyAtom, 2) \cup Around(AnyAtom), overlap \in {0, 2}, fails \in BOOLEAN,
     v \in {<<FALSE, FALSE>>, <<TRUE, FALSE>>, <<TRUE, TRUE>>}}

\* Resume: any four lines with a model that selects nothing, and three lines
\* with any selection.
Line(h, s) == [head |-> h, says |-> s, numbered |-> FALSE, dated |-> FALSE]
AnyLine == {Line("basic", 9), Line("work", 9), Line("", 1), Line("", 2),
            [Line("", 2) EXCEPT !.dated = TRUE], [Line("", 1) EXCEPT !.numbered = TRUE]}
Picks == UpTo({1, 2, 3, 7}, 2)
Reply(n, picks) == [tries |-> n, picks |-> picks]
MCResumeInputs ==
  [lines : UpTo(AnyLine, 4), said : {""}, found : {"in text"},
   replies : {[basic |-> Reply(1, <<<<>>, <<>>, <<>>>>), education |-> Reply(1, <<>>),
               work |-> Reply(3, <<>>), project |-> Reply(1, <<>>)]}]
  \cup [lines : {<<Line("", 1), Line("work", 9), Line("", 2)>>}, said : {"", "invented"},
        found : {"in text"},
        replies : {[basic |-> Reply(1, <<a, <<>>, <<3, 1>>>>), education |-> Reply(1, <<b>>),
                    work |-> Reply(1, <<c>>), project |-> Reply(2, <<>>)] :
                     a \in Picks, b \in Picks, c \in Picks}]

\* QAPairs: up to five lines of each format.
MCQAInputs ==
  [from : {"md", "docx"}, items : UpTo({"h1", "h2", "line", "blank", "fence", "row"}, 5)]
  \cup [from : {"docx"}, items : UpTo({"h1", "t1", "t2", "line", "fence", "row", "short"}, 5)]
  \cup [from : {"md", "docx"}, items : UpTo({"h1", "h2", "h3", "line", "image"}, 5)]
  \cup [from : {"pdf"}, items : UpTo({"question", "line", "label", "blank", "row"}, 5)]
  \cup [from : {"csv"}, items : UpTo({"pair", "half", "line", "blank"}, 5)]

\* Markdown: up to five lines.
MCMarkdownInputs ==
  UpTo({"text", "blank", "row", "separator", "tick", "tickinfo", "tilde"}, 5)
  \cup UpTo({"row", "separator", "open", "close", "oneline", "tick"}, 4)

\* Evaluation: two pieces of evidence at any of the places that matter, twelve
\* pieces one to a place, and up to three attempts at three cases.
MCEvidenceInputs ==
  UNION {{[hits |-> [p \in 1..12 |-> {e \in 1..n : p \in places[e]}], wanted |-> n] :
            places \in [1..n -> {{}, {1}, {2}, {3, 5}, {4}, {6, 11}, {10}, {11}, {1, 12}}]} :
         n \in 1..2}
  \cup {[hits |-> [p \in 1..12 |-> {p + d} \cap 1..12], wanted |-> 12] : d \in 0..2}
MCCases == {[id |-> 1, expected |-> "direct", wanted |-> 2, negative |-> FALSE],
            [id |-> 2, expected |-> "rewrite", wanted |-> 0, negative |-> TRUE],
            [id |-> 3, expected |-> "none", wanted |-> 0, negative |-> FALSE]}
MCAttempts ==
  [case : MCCases, plan : {"error", "none", "direct", "rewrite"}, search : {"finds"},
   hits : {<<{1}>>, <<{}, {2, 1}>>, <<>>}]
  \cup [case : MCCases, plan : {"error", "none", "direct"}, search : {"fails"}, hits : {<<>>}]
MCAttemptInputs ==
  UpTo(MCAttempts, 2) \cup [1..3 -> {a \in MCAttempts : a.hits # <<>> /\ a.plan \in {"none", "direct"}}]
MCDurationInputs ==
  UpTo(1..3, 5) \cup {[i \in 1..n |-> n - i] : n \in {19, 20, 21, 39, 40, 41}}

\* MinerUArchive: pictures of one name in two directories, and broken entries.
InArchive(d, b) == [dir |-> d, base |-> b]
Stored(d, b, r) == [dir |-> d, base |-> b, safe |-> TRUE, readable |-> r]
MCArchiveInputs ==
  [entries : {<<Stored(1, "list", l), Stored(1, "md", m), Stored(1, "a.png", TRUE),
                Stored(2, "a.png", TRUE)>> : l \in BOOLEAN, m \in BOOLEAN}
             \cup {<<Stored(1, "md", TRUE), Stored(2, "a.png", a), Stored(1, "list", TRUE)>> : a \in BOOLEAN}
             \cup {<<[Stored(2, "list", TRUE) EXCEPT !.safe = FALSE], Stored(1, "md", TRUE)>>,
                   <<Stored(1, "list", TRUE), [Stored(2, "a.png", TRUE) EXCEPT !.safe = FALSE]>>, <<>>},
   items : UpTo([type : {"text"}, text : BOOLEAN, image : {InArchive(1, "")}]
                \cup [type : {"image"}, text : BOOLEAN,
                      image : {InArchive(1, "a.png"), InArchive(2, "a.png"), InArchive(3, "a.png"), InArchive(1, "")}]
                \cup [type : {"table", "footer"}, text : {TRUE}, image : {InArchive(1, "a.png")}], 2),
   wellformed : BOOLEAN, markdown : BOOLEAN]

\* Config: two settings given at a time, and files in a small tree.
NothingGiven == [s \in Settings |-> Unset]
GivenPairs(values) ==
  {[NothingGiven EXCEPT ![pair[1]] = v, ![pair[2]] = w] :
     pair \in {<<"port", "timeout">>, <<"subqueries", "prefetch">>, <<"concurrency", "prefetch">>},
     v \in values, w \in values}
MCConfigInputs ==
  [file : GivenPairs({Unset, -1, 0, 1, 3, 7}), readable : {TRUE}, env : GivenPairs({Unset, NotANumber, 0, 2}),
   present : {{}, {<<"app">>}}, configFile : {<<>>}, cwd : {<<"app">>}, exe : {<<>>}]
  \cup [file : {NothingGiven}, readable : BOOLEAN, env : {NothingGiven},
        present : SUBSET {<<>>, <<"a">>, <<"a", "b">>, <<"x">>},
        configFile : {<<>>, <<<<"x">>>>}, cwd : {<<"a", "b">>, <<"a">>, <<"y">>},
        exe : {<<"x", "bin">>, <<"a">>}]

MCInit ==
  /\ CallInit
  /\ \/ Called("Plan", PlanInputs)
     \/ Called("SearchQueries", SearchInputs)
     \/ Called("splitRecursive", SplitInputs)
     \/ Called("prepareStructuredAtoms", SectionInputs)
     \/ Called("materializeChunks", MaterializeInputs)
     \/ Called("fetchAndParse", RouteInputs)
     \/ Called("materializeResumeChunks", ResumeInputs)
     \/ Called("materializeQAChunks", QAInputs)
     \/ Called("extractMarkdownAtoms", MarkdownInputs)
     \/ Called("splitTableKeepHeader", TableInputs)
     \/ Called("evaluateEvidence", EvidenceInputs)
     \/ Called("Summarize", AttemptInputs)
     \/ Called("durationStats", DurationInputs)
     \/ Called("parseMinerUArchive", ArchiveInputs)
     \/ Called("Load", ConfigInputs)

MCNext ==
  \/ PlanStep \/ SearchStep \/ SplitStep \/ TableStep \/ SectionStep \/ MaterializeStep \/ RouteStep
  \/ ResumeStep \/ QAStep \/ MarkdownStep \/ EvaluationStep \/ ArchiveStep \/ ConfigStep

MCSpec == MCInit /\ [][MCNext]_callVars
=============================================================================
