------------------------------ MODULE QAPairs ------------------------------
(***************************************************************************)
(* The question-and-answer template: pairs are found under the headings of *)
(* Markdown and DOCX, after question lines in the text of a PDF, or in the *)
(* two columns of a table of records.  The document is a sequence of       *)
(* items; a pair names the items its question and its answer consist of.   *)
(***************************************************************************)
EXTENDS Calls, FiniteSets, FiniteSetsExt, SequencesExt

CONSTANT QAInputs            \* [from, items, pages] as they occur

\* Items of a text with headings: "h1", "h2" and "h3", lines with the mark of
\* a heading, "t1", "t2" and "t3", titles that a DOCX has by their style,
\* "line", "blank", "fence", "image", and the rows of a table: "row", whose
\* first two cells with text are a question and an answer, and "short".
\* Items of a linear text: "question" (marked, numbered or ending with a
\* question mark), "line" (an answer's label is taken off), "label" (nothing
\* but the label) and "blank".
\* Records: "pair" (two columns), "half" (two columns, nothing but a label in
\* the second), "line" and "blank".
ItemKinds(from) ==
  CASE from = "md" -> {"h1", "h2", "h3", "line", "blank", "fence", "row", "short", "image"}
    [] from = "docx" -> {"h1", "h2", "h3", "t1", "t2", "t3", "line", "blank", "fence", "row", "short", "image"}
    [] from = "pdf" -> {"question", "line", "label", "blank", "row", "short", "image"}
    [] OTHER -> {"pair", "half", "line", "blank"}

ASSUME QAAssumption ==
  \A in \in QAInputs : in.from \in {"md", "docx", "pdf", "csv"} /\ in.items \in Seq(ItemKinds(in.from))

Item(k) == call.in.items[k]
Items == DOMAIN call.in.items

HeadLevel(k) ==
  CASE Item(k) \in {"h1", "t1"} -> 1 [] Item(k) \in {"h2", "t2"} -> 2
    [] Item(k) \in {"h3", "t3"} -> 3 [] OTHER -> 0
IsTitle(k) == Item(k) \in {"t1", "t2", "t3"}
InTable(k) == Item(k) \in {"row", "short"}

\* A text of blank lines and labels says nothing.
Says(items) == \E i \in DOMAIN items : Item(items[i]) \notin {"blank", "label", "half"}

QABegin == [pairs |-> <<>>, question |-> <<>>, answer |-> <<>>, fence |-> FALSE]

QAFlush(s) ==
  [s EXCEPT !.answer = <<>>,
     !.pairs = IF s.question # <<>> /\ Says(s.answer)
               THEN Append(@, [question |-> s.question, answer |-> s.answer]) ELSE @]

\* Mutated: a heading is put under the one before it.
PushDeeper(s, k) == [QAFlush(s) EXCEPT !.question = Append(@, k)]
\* A heading is taken off the path until the last one left is above it.
Enclosing(path, k) ==
  SubSeq(path, 1, Max({0} \cup {i \in DOMAIN path : HeadLevel(path[i]) < HeadLevel(k)}))
pushHeading(s, k) == [QAFlush(s) EXCEPT !.question = Append(Enclosing(@, k), k)]

Answered(s, k) == IF s.question = <<>> THEN s ELSE [s EXCEPT !.answer = Append(@, k)]

\* Mutated: a heading is a heading in a code block, too.
NoFences(s, k) ==
  IF HeadLevel(k) > 0 THEN pushHeading(s, k) ELSE Answered(s, k)
\* A title is one wherever it stands, the mark of a heading only outside code.
TextItem(s, k) ==
  LET t == IF Item(k) = "fence" THEN [s EXCEPT !.fence = ~@] ELSE s
  IN  IF HeadLevel(k) > 0 /\ (IsTitle(k) \/ ~t.fence) THEN pushHeading(t, k) ELSE Answered(t, k)

\* Mutated: the answer before a table goes on after it.
RowOnly(s, k) ==
  IF Item(k) = "row" THEN [s EXCEPT !.pairs = Append(@, [question |-> <<k>>, answer |-> <<k>>])] ELSE s
\* A row of a DOCX is a pair of its own; one that is short is given up, but it
\* ends the answer before it, too.
TableItem(s, k) ==
  IF call.in.from # "docx" THEN Answered(s, k)
  ELSE IF Item(k) = "row"
  THEN [QAFlush(s) EXCEPT !.pairs = Append(@, [question |-> <<k>>, answer |-> <<k>>])]
  ELSE QAFlush(s)

\* What each reader does with an item.
qaPairsFromHeadingAtoms(s, k) ==
  CASE Item(k) = "image" -> s
    [] InTable(k) -> TableItem(s, k)
    [] OTHER -> TextItem(s, k)

\* Pictures and tables are not looked at.
qaPairsFromQuestionLines(s, k) ==
  CASE Item(k) \in {"image", "row", "short", "blank", "label"} -> s
    [] Item(k) = "question" -> [QAFlush(s) EXCEPT !.question = <<k>>]
    [] OTHER -> Answered(s, k)

\* A record of two columns starts a pair, any other goes on with the answer.
parseQADelimited(s, k) ==
  CASE Item(k) \in {"pair", "half"} -> [QAFlush(s) EXCEPT !.question = <<k>>, !.answer = <<k>>]
    [] Item(k) = "blank" -> s
    [] OTHER -> Answered(s, k)

ReadItem(s, k) ==
  CASE call.in.from \in {"md", "docx"} -> qaPairsFromHeadingAtoms(s, k)
    [] call.in.from = "pdf" -> qaPairsFromQuestionLines(s, k)
    [] OTHER -> parseQADelimited(s, k)

\* No pair at all is a permanent error.
materializeQAChunks(in) == QAFlush(FoldLeft(ReadItem, QABegin, [k \in DOMAIN in.items |-> k])).pairs

QAStep == Return("materializeQAChunks", materializeQAChunks(call.in))

-----------------------------------------------------------------------------
(* Properties.                                                             *)

Paired == Returned("materializeQAChunks")
Fenced(k) == Cardinality({j \in 1..k : Item(j) = "fence"}) % 2 = 1

\* What starts a question in each kind of document.
Starts(k) ==
  CASE call.in.from \in {"md", "docx"} -> HeadLevel(k) > 0 /\ (IsTitle(k) \/ ~Fenced(k))
    [] call.in.from = "pdf" -> Item(k) = "question"
    [] OTHER -> Item(k) \in {"pair", "half"}

\* The question that item k answers, and with it the headings above it.
QuestionOf(k) == Max({j \in 1..k : Starts(j)})
Above(k) ==
  IF call.in.from \notin {"md", "docx"} THEN {QuestionOf(k)}
  ELSE {h \in 1..k : /\ Starts(h)
                     /\ \A g \in (h + 1)..k : Starts(g) => HeadLevel(g) > HeadLevel(h)}

Tabular(p) == call.in.from = "docx" /\ Item(p.question[1]) = "row"

\* An answer stands under its question: its lines come after the question
\* and before any other, and the question is the path of the headings that
\* enclose them; heading marks in a code block belong to the answer.
AnswersStandUnder ==
  Paired => \A i \in DOMAIN Result : ~Tabular(Result[i]) =>
    \A k \in ToSet(Result[i].answer) : ToSet(Result[i].question) = Above(k)

\* No answer is lost or used twice: every line that says something after the
\* first question is in exactly one answer, in the order of the document, but
\* for the tables of a PDF and the short rows of a DOCX, which are given up.
AnswersAreComplete ==
  Paired =>
    LET all == FlattenSeq([i \in DOMAIN Result |-> Result[i].answer])
    IN  /\ IsSorted(all, <)
        /\ \A k \in Items :
             /\ \E j \in 1..k : Starts(j)
             /\ ~Starts(k) \/ Item(k) = "pair"
             /\ Item(k) \notin {"blank", "label", "image"}
             /\ InTable(k) => call.in.from # "pdf"
             /\ Item(k) = "short" => call.in.from # "docx"
             => k \in ToSet(all)

\* Pairs hold what the document says, each answer under its question.
PairsAreWhole == AnswersStandUnder /\ AnswersAreComplete
=============================================================================
