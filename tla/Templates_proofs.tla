-------------------------- MODULE Templates_proofs --------------------------
(***************************************************************************)
(* Theorems about the templates of a dataset: what cutting a Markdown      *)
(* text, pairing questions with answers and grouping the lines of a resume *)
(* return for every input.                                                 *)
(***************************************************************************)
EXTENDS Templates, DataLemmas, SequenceTheorems

TemplateCalls ==
  \/ Called("extractMarkdownAtoms", MarkdownInputs)
  \/ Called("materializeQAChunks", QAInputs)
  \/ Called("materializeResumeChunks", ResumeInputs)

TemplatesInit == CallInit /\ TemplateCalls
TemplatesNext == MarkdownStep \/ QAStep \/ ResumeStep
TemplatesSpec == TemplatesInit /\ [][TemplatesNext]_callVars

\* A call has one of the inputs, and its answer is what the code computes
\* from that input.
TemplateAnswered ==
  /\ TemplateCalls
  /\ answer # <<>> =>
       /\ call.of = "extractMarkdownAtoms" => Result = extractMarkdownAtoms(call.in)
       /\ call.of = "materializeQAChunks" => Result = materializeQAChunks(call.in)
       /\ call.of = "materializeResumeChunks" => Result = materializeResumeChunks(call.in)

-----------------------------------------------------------------------------
(* A step leaves the input alone, and with it all that is read from it.    *)

LEMMA MarkdownSame ==
  ASSUME call' = call, NEW in
  PROVE  extractMarkdownAtoms(in)' = extractMarkdownAtoms(in)
<1>1. Numbers' = Numbers /\ \A k : Kind(k)' = Kind(k)
  BY DEF Numbers, Kind
<1>2. \A k : /\ OpensFence(k)' = OpensFence(k) /\ Marker(k)' = Marker(k)
             /\ isMarkdownTableRow(k)' = isMarkdownTableRow(k)
  BY <1>1 DEF OpensFence, Marker, isMarkdownTableRow
<1>3. \A k, m : isClosingFence(k, m)' = isClosingFence(k, m)
  BY <1>1, <1>2 DEF isClosingFence
<1>4. \A k : isMarkdownTableStart(k)' = isMarkdownTableStart(k)
  BY <1>1, <1>2 DEF isMarkdownTableStart
<1>5. \A k : markdownTableEnd(k)' = markdownTableEnd(k)
  BY <1>1, <1>2 DEF markdownTableEnd
<1>6. \A k : htmlTableEnd(k)' = htmlTableEnd(k)
  BY <1>1 DEF htmlTableEnd
<1>7. \A s : FlushLines(s)' = FlushLines(s)
  BY <1>1 DEF FlushLines
<1>8. \A s, k, end : TakeTable(s, k, end)' = TakeTable(s, k, end)
  BY <1>7 DEF TakeTable
<1>9. \A s, k : InFence(s, k)' = InFence(s, k)
  BY <1>3 DEF InFence
<1>10. \A s, k : ReadLine(s, k)' = ReadLine(s, k)
  BY <1>1, <1>2, <1>4, <1>5, <1>6, <1>8, <1>9 DEF ReadLine
<1> QED
  BY <1>7, <1>10 DEF extractMarkdownAtoms, FoldLeft, MapThenFoldSet

LEMMA PairsSame ==
  ASSUME call' = call, NEW in
  PROVE  materializeQAChunks(in)' = materializeQAChunks(in)
<1>1. \A k : Item(k)' = Item(k)
  BY DEF Item
<1>2. \A k : HeadLevel(k)' = HeadLevel(k)
  BY <1>1 DEF HeadLevel
<1>3. \A q : Says(q)' = Says(q)
  BY <1>1 DEF Says
<1>4. \A s : QAFlush(s)' = QAFlush(s)
  BY <1>3 DEF QAFlush
<1>5. \A path, k : Enclosing(path, k)' = Enclosing(path, k)
  BY <1>2 DEF Enclosing
<1>6. \A s, k : pushHeading(s, k)' = pushHeading(s, k)
  BY <1>4, <1>5 DEF pushHeading
<1>7. \A s, k : TextItem(s, k)' = TextItem(s, k)
  BY <1>1, <1>2, <1>6 DEF TextItem, Answered, IsTitle
<1>8. \A s, k : TableItem(s, k)' = TableItem(s, k)
  BY <1>1, <1>4 DEF TableItem, Answered
<1>9. \A s, k : qaPairsFromHeadingAtoms(s, k)' = qaPairsFromHeadingAtoms(s, k)
  BY <1>1, <1>7, <1>8 DEF qaPairsFromHeadingAtoms, InTable
<1>10. \A s, k : qaPairsFromQuestionLines(s, k)' = qaPairsFromQuestionLines(s, k)
  BY <1>1, <1>4 DEF qaPairsFromQuestionLines
<1>11. \A s, k : parseQADelimited(s, k)' = parseQADelimited(s, k)
  BY <1>1, <1>4 DEF parseQADelimited
<1>12. \A s, k : ReadItem(s, k)' = ReadItem(s, k)
  BY <1>9, <1>10, <1>11 DEF ReadItem
<1> QED
  BY <1>4, <1>12 DEF materializeQAChunks, FoldLeft, MapThenFoldSet

LEMMA ResumeSame ==
  ASSUME call' = call, NEW in
  PROVE  materializeResumeChunks(in)' = materializeResumeChunks(in)
<1>1. Lines' = Lines /\ N' = N /\ \A k : Head0(k)' = Head0(k)
  BY DEF Lines, N, Head0
<1>2. \A picks, used : resumeLinesAt(picks, used)' = resumeLinesAt(picks, used)
  BY <1>1 DEF resumeLinesAt
<1>3. \A s, g : AppendGroup(s, g)' = AppendGroup(s, g)
  BY <1>2 DEF AppendGroup
<1>4. \A used : Unassigned(used)' = Unassigned(used)
  BY <1>1 DEF Unassigned
<1>5. \A r : selectionsToResumeGroups(r)' = selectionsToResumeGroups(r)
  BY <1>3, <1>4 DEF selectionsToResumeGroups, FoldLeft, MapThenFoldSet
<1>6. \A i : extractResumeGroups(i)' = extractResumeGroups(i)
  BY <1>1, <1>5 DEF extractResumeGroups
<1>7. \A k : SectionAt(k)' = SectionAt(k)
  BY <1>1 DEF SectionAt
<1>8. Order' = Order
  <2>1. \A order, k : ensureSection(order, k)' = ensureSection(order, k)
    BY <1>7 DEF ensureSection
  <2>2. ASSUME NEW q
        PROVE  FoldLeft(ensureSection, <<Basic>>, q)' = FoldLeft(ensureSection, <<Basic>>, q)
    BY <2>1 DEF FoldLeft, MapThenFoldSet
  <2>3. [k \in 1..N |-> k]' = [k \in 1..N |-> k]
    BY <1>1
  <2> QED
    BY <2>2, <2>3 DEF Order
<1>9. \A lines : compactResumeLines(lines)' = compactResumeLines(lines)
  <2>1. \A out, k : Compacted(out, k)' = Compacted(out, k)
    BY <1>1 DEF Compacted
  <2> QED
    BY <2>1 DEF compactResumeLines, FoldLeft, MapThenFoldSet
<1>10. \A lines : splitResumeEntries(lines)' = splitResumeEntries(lines)
  <2>1. \A es, k : AddToEntries(es, k)' = AddToEntries(es, k)
    BY <1>1 DEF AddToEntries
  <2> QED
    BY <2>1 DEF splitResumeEntries, FoldLeft, MapThenFoldSet
<1>11. \A section : SectionLines(section)' = SectionLines(section)
  BY <1>1, <1>7, <1>9 DEF SectionLines
<1>12. \A section : SectionGroups(section)' = SectionGroups(section)
  BY <1>10, <1>11 DEF SectionGroups
<1>13. groupResumeAtoms' = groupResumeAtoms
  BY <1>8, <1>12 DEF groupResumeAtoms
<1> QED
  BY <1>6, <1>13 DEF materializeResumeChunks
-----------------------------------------------------------------------------
(* The calls and their answers.                                            *)

LEMMA TemplateAnsweredInit == TemplatesInit => TemplateAnswered
  BY DEF TemplatesInit, TemplateAnswered, CallInit

LEMMA TemplateAnsweredNext ==
  TemplateAnswered /\ [TemplatesNext]_callVars => TemplateAnswered'
<1> SUFFICES ASSUME TemplateAnswered, [TemplatesNext]_callVars
             PROVE  TemplateAnswered'
  OBVIOUS
<1>1. call' = call
  BY DEF TemplatesNext, MarkdownStep, QAStep, ResumeStep, Return, callVars
<1>2. TemplateCalls'
  BY <1>1 DEF TemplateAnswered, TemplateCalls, Called
<1>3. \A in : /\ extractMarkdownAtoms(in)' = extractMarkdownAtoms(in)
              /\ materializeQAChunks(in)' = materializeQAChunks(in)
              /\ materializeResumeChunks(in)' = materializeResumeChunks(in)
  BY <1>1, MarkdownSame, PairsSame, ResumeSame
<1>4. CASE UNCHANGED callVars
  BY <1>2, <1>3, <1>4 DEF TemplateAnswered, callVars, Result
<1>5. CASE Return("extractMarkdownAtoms", extractMarkdownAtoms(call.in))
  BY <1>2, <1>3, <1>5 DEF TemplateAnswered, Return, Result
<1>7. CASE QAStep
  BY <1>2, <1>3, <1>7 DEF TemplateAnswered, QAStep, Return, Result
<1>8. CASE ResumeStep
  BY <1>2, <1>3, <1>8 DEF TemplateAnswered, ResumeStep, Return, Result
<1> QED
  BY <1>4, <1>5, <1>7, <1>8 DEF TemplatesNext, MarkdownStep

\* The input of a call is one of those of its function.
LEMMA TemplateInputOf ==
  ASSUME TemplateAnswered
  PROVE  /\ call.of = "extractMarkdownAtoms" => call.in \in MarkdownInputs
         /\ call.of = "materializeQAChunks" => call.in \in QAInputs
         /\ call.of = "materializeResumeChunks" => call.in \in ResumeInputs
<1>1. ASSUME NEW f, NEW inputs, Called(f, inputs)
      PROVE  call.of = f /\ call.in \in inputs
  BY <1>1 DEF Called
<1>2. CASE Called("extractMarkdownAtoms", MarkdownInputs)
  BY <1>1, <1>2
<1>4. CASE Called("materializeQAChunks", QAInputs)
  BY <1>1, <1>4
<1>5. CASE Called("materializeResumeChunks", ResumeInputs)
  BY <1>1, <1>5
<1> QED
  BY <1>2, <1>4, <1>5 DEF TemplateAnswered, TemplateCalls

LEMMA TemplateAnsweredAlways == TemplatesSpec => []TemplateAnswered
  BY TemplateAnsweredInit, TemplateAnsweredNext, PTL DEF TemplatesSpec

-----------------------------------------------------------------------------
(* Markdown cut into texts and tables.                                     *)

Count == Len(call.in)

LineNumbers == [k \in DOMAIN call.in |-> k]

Fences == {"none", "tick", "tilde"}

AtomsRead == [table : BOOLEAN, lines : Seq(Numbers)]

ReaderState == [atoms : Seq(AtomsRead), buf : Seq(Numbers), fence : Fences, next : 1..(Count + 1)]

LEMMA LinesCounted ==
  ASSUME call.in \in MarkdownInputs
  PROVE  /\ Count \in Nat /\ Numbers = 1..Count
         /\ LineNumbers \in Seq(Numbers) /\ Len(LineNumbers) = Count /\ DOMAIN LineNumbers = 1..Count
         /\ \A k \in 1..Count : LineNumbers[k] = k
<1>1. call.in \in Seq(LineKinds)
  BY MarkdownAssumption
<1>2. Count \in Nat /\ Numbers = 1..Count
  BY <1>1, LenProperties DEF Count, Numbers
<1>3. LineNumbers = [k \in 1..Count |-> k]
  BY <1>2 DEF LineNumbers, Numbers
<1> QED
  BY <1>2, <1>3, ListUpTo

\* A table ends after its first line, and within the text.
LEMMA HtmlEnds ==
  ASSUME call.in \in MarkdownInputs, NEW k \in Numbers
  PROVE  htmlTableEnd(k) \in (k + 1)..(Count + 1)
<1> DEFINE closing == {j \in Numbers : j >= k /\ Kind(j) \in {"close", "oneline"}}
<1>1. Count \in Nat /\ Numbers = 1..Count /\ k \in 1..Count
  BY LinesCounted
<1>2. htmlTableEnd(k) = IF closing = {} THEN Count + 1 ELSE Min(closing) + 1
  BY DEF htmlTableEnd, Count
<1>3. CASE closing = {}
  BY <1>1, <1>2, <1>3
<1>4. CASE closing # {}
  <2>1. closing \subseteq Nat /\ \A j \in closing : j >= k /\ j \in 1..Count
    BY <1>1
  <2> HIDE DEF closing
  <2>2. Min(closing) \in closing
    BY <1>4, <2>1, NatLeast
  <2> DEFINE least == Min(closing)
  <2>3. least >= k /\ least \in 1..Count /\ htmlTableEnd(k) = least + 1
    BY <1>2, <1>4, <2>1, <2>2
  <2> HIDE DEF least
  <2> QED
    BY <1>1, <2>3
<1> QED
  BY <1>3, <1>4

\* A pipe table goes on to the last row of the run it starts.
LEMMA PipesEnd ==
  ASSUME call.in \in MarkdownInputs, NEW k \in Numbers, isMarkdownTableStart(k)
  PROVE  /\ markdownTableEnd(k) \in (k + 2)..(Count + 1)
         /\ \A j \in k..(markdownTableEnd(k) - 1) : isMarkdownTableRow(j)
         /\ markdownTableEnd(k) \notin Numbers \/ ~isMarkdownTableRow(markdownTableEnd(k))
<1> DEFINE ends == {j \in (k + 2)..(Count + 1) : j \notin Numbers \/ ~isMarkdownTableRow(j)}
           end == markdownTableEnd(k)
<1>1. Count \in Nat /\ Numbers = 1..Count /\ k \in 1..Count /\ k + 1 \in 1..Count
  BY LinesCounted DEF isMarkdownTableStart
<1>2. end = Min(ends)
  BY DEF markdownTableEnd, Count
<1>3. ends \subseteq Nat /\ Count + 1 \in ends
  BY <1>1
<1>4. end \in ends /\ \A j \in ends : end <= j
  <2> HIDE DEF ends
  <2> QED
    BY <1>2, <1>3, NatLeast
<1> HIDE DEF end
<1>5. isMarkdownTableRow(k) /\ isMarkdownTableRow(k + 1)
  BY DEF isMarkdownTableStart, isMarkdownTableRow
<1>6. ASSUME NEW j \in k..(end - 1)
      PROVE  isMarkdownTableRow(j)
  <2>1. CASE j \in {k, k + 1}
    BY <1>5, <2>1
  <2>2. CASE j \notin {k, k + 1}
    <3>1. j \in (k + 2)..(Count + 1) /\ j < end
      BY <1>1, <1>4, <2>2
    <3>2. j \notin ends
      BY <1>1, <1>4, <3>1
    <3> QED
      BY <3>1, <3>2
  <2> QED
    BY <2>1, <2>2
<1> QED
  BY <1>4, <1>6 DEF end

\* The lines of a table from k up to the one before end.
TableLines(k, end) == [i \in 1..(end - k) |-> k + i - 1]

LEMMA TableLinesAre ==
  ASSUME NEW n \in Nat, NEW k \in 1..n, NEW end \in (k + 1)..(n + 1)
  PROVE  /\ TableLines(k, end) \in Seq(1..n) /\ Rising(TableLines(k, end), Less)
         /\ \A x : x \in ToSet(TableLines(k, end)) <=> x \in k..(end - 1)
<1> DEFINE q == TableLines(k, end)
           m == end - k
<1>1. m \in Nat /\ q = [i \in 1..m |-> k + i - 1]
  BY DEF TableLines
<1>2. \A i \in 1..m : k + i - 1 \in 1..n /\ k + i - 1 \in k..(end - 1)
  OBVIOUS
<1>3. q \in [1..m -> 1..n]
  BY <1>1, <1>2
<1>4. q \in Seq(1..n) /\ Len(q) = m /\ \A i \in 1..m : q[i] = k + i - 1
  <2> HIDE DEF m
  <2>1. \A i \in 1..m : q[i] = k + i - 1
    BY <1>1
  <2> HIDE DEF q
  <2> QED
    BY <1>1, <1>3, <2>1, ListOf
<1>5. Rising(q, Less)
  <2>1. ASSUME NEW i \in 1..m, NEW j \in 1..m, i < j
        PROVE  <<q[i], q[j]>> \in Less
    <3>1. q[i] \in Nat /\ q[j] \in Nat /\ q[i] < q[j]
      <4> HIDE DEF q
      <4> QED
        BY <1>1, <1>4, <2>1
    <3> HIDE DEF q
    <3> QED
      BY <3>1, LessIs
  <2> HIDE DEF q
  <2> QED
    BY <1>4, <2>1 DEF Rising
<1>6. ASSUME NEW x
      PROVE  x \in ToSet(q) <=> x \in k..(end - 1)
  <2>1. x \in ToSet(q) <=> \E i \in 1..m : k + i - 1 = x
    <3> HIDE DEF q, m
    <3>1. x \in ToSet(q) <=> \E i \in 1..m : q[i] = x
      BY <1>4, ToSetOf
    <3> QED
      BY <1>4, <3>1
  <2>2. ASSUME x \in k..(end - 1)
        PROVE  \E i \in 1..m : k + i - 1 = x
    <3>1. x - k + 1 \in 1..m /\ k + (x - k + 1) - 1 = x
      BY <2>2
    <3> QED
      BY <3>1
  <2> QED
    BY <1>2, <2>1, <2>2
<1> QED
  BY <1>4, <1>5, <1>6

LEMMA FlushTyped ==
  ASSUME call.in \in MarkdownInputs, NEW s \in ReaderState
  PROVE  /\ FlushLines(s) \in ReaderState /\ FlushLines(s).buf = <<>>
         /\ FlushLines(s).fence = s.fence /\ FlushLines(s).next = s.next
         /\ \/ FlushLines(s).atoms = Append(s.atoms, [table |-> FALSE, lines |-> s.buf])
            \/ FlushLines(s).atoms = s.atoms /\ \A b \in ToSet(s.buf) : Kind(b) = "blank"
<1>1. s.atoms \in Seq(AtomsRead) /\ s.buf \in Seq(Numbers)
  BY DEF ReaderState
<1>2. [table |-> FALSE, lines |-> s.buf] \in AtomsRead
  BY <1>1 DEF AtomsRead
<1>3. Append(s.atoms, [table |-> FALSE, lines |-> s.buf]) \in Seq(AtomsRead)
  BY <1>1, <1>2, AppendProperties
<1>4. \/ FlushLines(s).atoms = Append(s.atoms, [table |-> FALSE, lines |-> s.buf])
      \/ FlushLines(s).atoms = s.atoms /\ \A b \in ToSet(s.buf) : Kind(b) = "blank"
  <2>1. CASE \E i \in DOMAIN s.buf : Kind(s.buf[i]) # "blank"
    BY <2>1 DEF FlushLines, ReaderState
  <2>2. CASE ~\E i \in DOMAIN s.buf : Kind(s.buf[i]) # "blank"
    <3>1. FlushLines(s).atoms = s.atoms
      BY <2>2 DEF FlushLines, ReaderState
    <3>2. \A b \in ToSet(s.buf) : Kind(b) = "blank"
      BY <2>2 DEF ToSet
    <3> QED
      BY <3>1, <3>2
  <2> QED
    BY <2>1, <2>2
<1>5. <<>> \in Seq(Numbers)
  OBVIOUS
<1>6. FlushLines(s) = [s EXCEPT !.buf = <<>>, !.atoms = FlushLines(s).atoms]
  BY DEF FlushLines, ReaderState
<1>7. FlushLines(s).atoms \in Seq(AtomsRead)
  BY <1>1, <1>3, <1>4
<1> QED
  BY <1>4, <1>5, <1>6, <1>7 DEF ReaderState

\* What a table adds.
LEMMA TakeTyped ==
  ASSUME call.in \in MarkdownInputs, NEW s \in ReaderState, NEW k \in Numbers,
         NEW end \in (k + 1)..(Count + 1)
  PROVE  /\ TakeTable(s, k, end) \in ReaderState
         /\ TakeTable(s, k, end).buf = <<>> /\ TakeTable(s, k, end).fence = s.fence
         /\ TakeTable(s, k, end).next = end
         /\ TakeTable(s, k, end).atoms =
              Append(FlushLines(s).atoms, [table |-> TRUE, lines |-> TableLines(k, end)])
<1> DEFINE t == FlushLines(s)
           a == [table |-> TRUE, lines |-> TableLines(k, end)]
<1>1. Count \in Nat /\ Numbers = 1..Count
  BY LinesCounted
<1>2. t \in ReaderState /\ t.buf = <<>> /\ t.fence = s.fence
  BY FlushTyped
<1>3. a \in AtomsRead
  BY <1>1, TableLinesAre DEF AtomsRead
<1>4. TakeTable(s, k, end) = [t EXCEPT !.next = end, !.atoms = Append(t.atoms, a)]
  BY <1>2 DEF TakeTable, TableLines, ReaderState
<1> HIDE DEF t, a
<1>5. Append(t.atoms, a) \in Seq(AtomsRead)
  BY <1>2, <1>3, AppendProperties DEF ReaderState
<1>6. end \in 1..(Count + 1)
  BY <1>1
<1> DEFINE u == TakeTable(s, k, end)
<1>7. u \in ReaderState /\ u.buf = <<>> /\ u.fence = s.fence /\ u.next = end /\ u.atoms = Append(t.atoms, a)
  BY <1>2, <1>4, <1>5, <1>6 DEF ReaderState
<1> QED
  BY <1>7 DEF t, a

LEMMA BufferTyped ==
  ASSUME call.in \in MarkdownInputs, NEW s \in ReaderState, NEW k \in Numbers
  PROVE  /\ Buffer(s, k) \in ReaderState /\ Buffer(s, k).atoms = s.atoms
         /\ Buffer(s, k).fence = s.fence /\ Buffer(s, k).next = k + 1
         /\ Buffer(s, k).buf = Append(s.buf, k)
<1>1. Count \in Nat /\ k \in 1..Count
  BY LinesCounted
<1>2. Append(s.buf, k) \in Seq(Numbers)
  BY AppendProperties DEF ReaderState
<1>3. k + 1 \in 1..(Count + 1)
  BY <1>1
<1>4. Buffer(s, k) = [s EXCEPT !.buf = Append(s.buf, k), !.next = k + 1]
  BY DEF Buffer, ReaderState
<1> QED
  BY <1>2, <1>3, <1>4 DEF ReaderState

\* The fence after line k, when it was f before.
FenceAfter(f, k) ==
  IF f = "none" THEN IF OpensFence(k) THEN Marker(k) ELSE f
  ELSE IF isClosingFence(k, f) THEN "none" ELSE f

LEMMA FenceAfterTyped ==
  ASSUME NEW f \in Fences, NEW k
  PROVE  FenceAfter(f, k) \in Fences
  BY DEF FenceAfter, Fences, Marker

\* What a line does: it is passed over, it starts a table, or it is put into
\* the text.
LEMMA ReadLineIs ==
  ASSUME call.in \in MarkdownInputs, NEW s \in ReaderState, NEW k \in Numbers
  PROVE  \/ k < s.next /\ ReadLine(s, k) = s
         \/ /\ ~(k < s.next) /\ s.fence = "none" /\ ~OpensFence(k)
            /\ \/ Kind(k) \in {"open", "oneline"} /\ ReadLine(s, k) = TakeTable(s, k, htmlTableEnd(k))
               \/ isMarkdownTableStart(k) /\ ReadLine(s, k) = TakeTable(s, k, markdownTableEnd(k))
         \/ /\ ~(k < s.next)
            /\ ReadLine(s, k) = Buffer([s EXCEPT !.fence = FenceAfter(s.fence, k)], k)
            /\ s.fence = "none" /\ ~OpensFence(k) => ~isMarkdownTableStart(k)
<1>1. CASE k < s.next
  BY <1>1 DEF ReadLine
<1>2. CASE ~(k < s.next) /\ s.fence # "none"
  <2>1. ReadLine(s, k) = InFence(s, k)
    BY <1>2 DEF ReadLine
  <2>2. FenceAfter(s.fence, k) = IF isClosingFence(k, s.fence) THEN "none" ELSE s.fence
    BY <1>2 DEF FenceAfter
  <2>3. [s EXCEPT !.fence = s.fence] = s
    BY DEF ReaderState
  <2>4. InFence(s, k) = Buffer([s EXCEPT !.fence = FenceAfter(s.fence, k)], k)
    BY <2>2, <2>3 DEF InFence
  <2> QED
    BY <1>2, <2>1, <2>4
<1>3. CASE ~(k < s.next) /\ s.fence = "none" /\ OpensFence(k)
  BY <1>3 DEF ReadLine, FenceAfter
<1>4. CASE ~(k < s.next) /\ s.fence = "none" /\ ~OpensFence(k) /\ Kind(k) \in {"open", "oneline"}
  BY <1>4 DEF ReadLine
<1>5. CASE ~(k < s.next) /\ s.fence = "none" /\ ~OpensFence(k) /\ Kind(k) \notin {"open", "oneline"}
           /\ isMarkdownTableStart(k)
  BY <1>5 DEF ReadLine
<1>6. CASE ~(k < s.next) /\ s.fence = "none" /\ ~OpensFence(k) /\ Kind(k) \notin {"open", "oneline"}
           /\ ~isMarkdownTableStart(k)
  <2>1. ReadLine(s, k) = Buffer(s, k)
    BY <1>6 DEF ReadLine
  <2>2. FenceAfter(s.fence, k) = s.fence
    BY <1>6 DEF FenceAfter
  <2>3. [s EXCEPT !.fence = s.fence] = s
    BY DEF ReaderState
  <2> QED
    BY <1>6, <2>1, <2>2, <2>3
<1> QED
  BY <1>1, <1>2, <1>3, <1>4, <1>5, <1>6

LEMMA FenceSet ==
  ASSUME NEW s \in ReaderState, NEW f \in Fences
  PROVE  LET t == [s EXCEPT !.fence = f]
         IN  t \in ReaderState /\ t.fence = f /\ t.atoms = s.atoms /\ t.buf = s.buf /\ t.next = s.next
  BY DEF ReaderState

LEMMA ReadLineTyped ==
  ASSUME call.in \in MarkdownInputs, NEW s \in ReaderState, NEW k \in Numbers
  PROVE  ReadLine(s, k) \in ReaderState
<1>1. s.fence \in Fences
  BY DEF ReaderState
<1>2. Count \in Nat /\ k \in 1..Count
  BY LinesCounted
<1>3. TakeTable(s, k, htmlTableEnd(k)) \in ReaderState
  BY HtmlEnds, TakeTyped
<1>4. isMarkdownTableStart(k) => TakeTable(s, k, markdownTableEnd(k)) \in ReaderState
  <2> SUFFICES ASSUME isMarkdownTableStart(k)
               PROVE  TakeTable(s, k, markdownTableEnd(k)) \in ReaderState
    OBVIOUS
  <2> DEFINE end == markdownTableEnd(k)
  <2>1. end \in (k + 2)..(Count + 1)
    BY PipesEnd
  <2> HIDE DEF end
  <2>2. end \in (k + 1)..(Count + 1)
    BY <1>2, <2>1
  <2>3. TakeTable(s, k, end) \in ReaderState
    BY <2>2, TakeTyped
  <2> QED
    BY <2>3 DEF end
<1>5. Buffer([s EXCEPT !.fence = FenceAfter(s.fence, k)], k) \in ReaderState
  BY <1>1, FenceAfterTyped, FenceSet, BufferTyped
<1> QED
  BY <1>3, <1>4, <1>5, ReadLineIs

MarkdownRead ==
  FoldLeft(ReadLine, [atoms |-> <<>>, buf |-> <<>>, fence |-> "none", next |-> 1], LineNumbers)

FirstReader == [atoms |-> <<>>, buf |-> <<>>, fence |-> "none", next |-> 1]

LEMMA FirstReaderTyped ==
  ASSUME call.in \in MarkdownInputs
  PROVE  FirstReader \in ReaderState
<1>1. <<>> \in Seq(AtomsRead) /\ <<>> \in Seq(Numbers)
  OBVIOUS
<1>2. 1 \in 1..(Count + 1)
  BY LinesCounted
<1> QED
  BY <1>1, <1>2 DEF FirstReader, ReaderState, Fences

ReadCourse(F, lines) ==
  /\ F[0] = FirstReader /\ F[Len(lines)] \in ReaderState
  /\ \A k \in 1..Len(lines) :
       F[k] \in ReaderState /\ F[k - 1] \in ReaderState /\ F[k] = ReadLine(F[k - 1], lines[k])

LEMMA ReadFold ==
  ASSUME call.in \in MarkdownInputs
  PROVE  \E F : ReadCourse(F, LineNumbers) /\ MarkdownRead = F[Len(LineNumbers)]
<1> DEFINE n == Len(LineNumbers)
           X == ReaderState
           step == [p \in X \X (1..n) |-> ReadLine(p[1], LineNumbers[p[2]])]
           Folds(it) == it = [s \in SUBSET (DOMAIN LineNumbers) |->
                                IF s = {} THEN FirstReader ELSE ReadLine(it[s \ {Max(s)}], LineNumbers[Max(s)])]
           it == CHOOSE it : Folds(it)
<1>1. n \in Nat /\ DOMAIN LineNumbers = 1..n /\ FirstReader \in X
  BY LinesCounted, FirstReaderTyped
<1>2. ASSUME NEW p \in X, NEW k \in 1..n
      PROVE  <<p, k>> \in X \X (1..n) /\ step[<<p, k>>] = ReadLine(p, LineNumbers[k])
             /\ ReadLine(p, LineNumbers[k]) \in X
  <2>1. ReadLine(p, LineNumbers[k]) \in X
    BY <1>1, ReadLineTyped, LinesCounted
  <2>2. <<p, k>> \in X \X (1..n) /\ <<p, k>>[1] = p /\ <<p, k>>[2] = k
    OBVIOUS
  <2> HIDE DEF X, n
  <2> QED
    BY <2>1, <2>2
<1>3. step \in [X \X (1..n) -> X]
  <2>1. ASSUME NEW p \in X \X (1..n)
        PROVE  ReadLine(p[1], LineNumbers[p[2]]) \in X
    <3>1. p[1] \in X /\ p[2] \in 1..n
      OBVIOUS
    <3> HIDE DEF X
    <3> QED
      BY <1>2, <3>1
  <2> QED
    BY <2>1
<1>4. MarkdownRead = it[1..n]
  <2>1. MarkdownRead = it[DOMAIN LineNumbers]
    BY DEF MarkdownRead, FirstReader, FoldLeft, MapThenFoldSet
  <2> HIDE DEF it
  <2> QED
    BY <1>1, <2>1
<1> HIDE DEF step, n, X
<1>5. PICK g : FoldsSets(g, n, X, FirstReader, step)
  BY <1>1, <1>3, FoldRecursion
<1>6. ASSUME NEW s \in SUBSET (1..n), s # {}
      PROVE  Max(s) \in 1..n /\ s \ {Max(s)} \in SUBSET (1..n)
  <2>1. s \subseteq Nat /\ \A x \in s : x <= n
    BY <1>1
  <2>2. Max(s) \in s
    BY <1>1, <1>6, <2>1, NatMax
  <2> QED
    BY <2>2
<1>7. Folds(g)
  <2>1. ASSUME NEW s \in SUBSET (1..n)
        PROVE  g[s] = IF s = {} THEN FirstReader ELSE ReadLine(g[s \ {Max(s)}], LineNumbers[Max(s)])
    <3>1. CASE s = {}
      BY <1>5, <3>1 DEF FoldsSets
    <3>2. CASE s # {}
      <4>1. Max(s) \in 1..n /\ g[s \ {Max(s)}] \in X
        BY <1>5, <1>6, <3>2 DEF FoldsSets
      <4>2. g[s] = step[<<g[s \ {Max(s)}], Max(s)>>]
        BY <1>5, <3>2 DEF FoldsSets
      <4>3. step[<<g[s \ {Max(s)}], Max(s)>>] = ReadLine(g[s \ {Max(s)}], LineNumbers[Max(s)])
        BY <1>2, <4>1
      <4> QED
        BY <3>2, <4>2, <4>3
    <3> QED
      BY <3>1, <3>2
  <2>2. g \in [SUBSET (1..n) -> X]
    BY <1>5 DEF FoldsSets
  <2> QED
    BY <1>1, <2>1, <2>2
<1>8. Folds(it)
  <2> HIDE DEF Folds
  <2> QED
    BY <1>7
<1>9. \A s \in SUBSET (1..n) :
         it[s] = IF s = {} THEN FirstReader ELSE ReadLine(it[s \ {Max(s)}], LineNumbers[Max(s)])
  <2> HIDE DEF it
  <2> QED
    BY <1>1, <1>8
<1> HIDE DEF it, Folds
<1>10. SolvesFold(it, n, X, FirstReader, step)
  <2>1. {} \in SUBSET (1..n)
    OBVIOUS
  <2>2. ASSUME NEW s \in SUBSET (1..n), s # {}, it[s \ {Max(s)}] \in X
        PROVE  it[s] = step[<<it[s \ {Max(s)}], Max(s)>>]
    <3>1. Max(s) \in 1..n
      BY <1>6, <2>2
    <3>2. it[s] = ReadLine(it[s \ {Max(s)}], LineNumbers[Max(s)])
      BY <1>9, <2>2
    <3>3. step[<<it[s \ {Max(s)}], Max(s)>>] = ReadLine(it[s \ {Max(s)}], LineNumbers[Max(s)])
      BY <1>2, <2>2, <3>1
    <3> QED
      BY <3>2, <3>3
  <2> QED
    BY <1>9, <2>1, <2>2 DEF SolvesFold
<1>11. PICK F : FoldsUp(F, it, n, X, FirstReader, step)
  BY <1>1, <1>3, <1>10, FoldCourse
<1>12. ASSUME NEW k \in 1..n
       PROVE  F[k] \in X /\ F[k - 1] \in X /\ F[k] = ReadLine(F[k - 1], LineNumbers[k])
  <2>1. F[k] = step[<<F[k - 1], k>>] /\ F[k - 1] \in X /\ F[k] \in X
    BY <1>11 DEF FoldsUp
  <2>2. F[k] = ReadLine(F[k - 1], LineNumbers[k])
    BY <1>2, <2>1
  <2> QED
    BY <2>1, <2>2
<1>13. F[0] = FirstReader /\ F[n] = it[1..n] /\ F[n] \in X
  <2>1. n \in 0..n
    BY <1>1
  <2> QED
    BY <1>11, <2>1 DEF FoldsUp
<1> QED
  BY <1>4, <1>12, <1>13 DEF ReadCourse, n, X

\* The fence at each line.
FenceFoldOf(n) ==
  FoldLeft(LAMBDA f, j : IF f = "none" THEN IF OpensFence(j) THEN Marker(j) ELSE f
                         ELSE IF isClosingFence(j, f) THEN "none" ELSE f,
           "none", [j \in 1..n |-> j])

FenceCourse(F, lines) ==
  /\ F[0] = "none" /\ F[Len(lines)] \in Fences
  /\ \A k \in 1..Len(lines) :
       F[k] \in Fences /\ F[k - 1] \in Fences /\ F[k] = FenceAfter(F[k - 1], lines[k])

LEMMA NoneIsFence == "none" \in Fences
  BY DEF Fences

LEMMA FenceFold ==
  ASSUME NEW m \in Nat
  PROVE  \E F : FenceCourse(F, [j \in 1..m |-> j]) /\ FenceFoldOf(m) = F[Len([j \in 1..m |-> j])]
<1> DEFINE n == Len([j \in 1..m |-> j])
           X == Fences
           step == [p \in X \X (1..n) |-> FenceAfter(p[1], [j \in 1..m |-> j][p[2]])]
           Folds(it) == it = [s \in SUBSET (DOMAIN [j \in 1..m |-> j]) |->
                                IF s = {} THEN "none" ELSE FenceAfter(it[s \ {Max(s)}], [j \in 1..m |-> j][Max(s)])]
           it == CHOOSE it : Folds(it)
<1>1. n \in Nat /\ DOMAIN [j \in 1..m |-> j] = 1..n /\ "none" \in X
  BY ListUpTo, NoneIsFence
<1>2. ASSUME NEW p \in X, NEW k \in 1..n
      PROVE  <<p, k>> \in X \X (1..n) /\ step[<<p, k>>] = FenceAfter(p, [j \in 1..m |-> j][k])
             /\ FenceAfter(p, [j \in 1..m |-> j][k]) \in X
  <2>1. FenceAfter(p, [j \in 1..m |-> j][k]) \in X
    BY <1>1, FenceAfterTyped
  <2>2. <<p, k>> \in X \X (1..n) /\ <<p, k>>[1] = p /\ <<p, k>>[2] = k
    OBVIOUS
  <2> HIDE DEF X, n
  <2> QED
    BY <2>1, <2>2
<1>3. step \in [X \X (1..n) -> X]
  <2>1. ASSUME NEW p \in X \X (1..n)
        PROVE  FenceAfter(p[1], [j \in 1..m |-> j][p[2]]) \in X
    <3>1. p[1] \in X /\ p[2] \in 1..n
      OBVIOUS
    <3> HIDE DEF X
    <3> QED
      BY <1>2, <3>1
  <2> QED
    BY <2>1
<1>4. FenceFoldOf(m) = it[1..n]
  <2>1. FenceFoldOf(m) = it[DOMAIN [j \in 1..m |-> j]]
    BY DEF FenceFoldOf, FenceAfter, FoldLeft, MapThenFoldSet
  <2> HIDE DEF it
  <2> QED
    BY <1>1, <2>1
<1> HIDE DEF step, n, X
<1>5. PICK g : FoldsSets(g, n, X, "none", step)
  BY <1>1, <1>3, FoldRecursion
<1>6. ASSUME NEW s \in SUBSET (1..n), s # {}
      PROVE  Max(s) \in 1..n /\ s \ {Max(s)} \in SUBSET (1..n)
  <2>1. s \subseteq Nat /\ \A x \in s : x <= n
    BY <1>1
  <2>2. Max(s) \in s
    BY <1>1, <1>6, <2>1, NatMax
  <2> QED
    BY <2>2
<1>7. Folds(g)
  <2>1. ASSUME NEW s \in SUBSET (1..n)
        PROVE  g[s] = IF s = {} THEN "none" ELSE FenceAfter(g[s \ {Max(s)}], [j \in 1..m |-> j][Max(s)])
    <3>1. CASE s = {}
      BY <1>5, <3>1 DEF FoldsSets
    <3>2. CASE s # {}
      <4>1. Max(s) \in 1..n /\ g[s \ {Max(s)}] \in X
        BY <1>5, <1>6, <3>2 DEF FoldsSets
      <4>2. g[s] = step[<<g[s \ {Max(s)}], Max(s)>>]
        BY <1>5, <3>2 DEF FoldsSets
      <4>3. step[<<g[s \ {Max(s)}], Max(s)>>] = FenceAfter(g[s \ {Max(s)}], [j \in 1..m |-> j][Max(s)])
        BY <1>2, <4>1
      <4> QED
        BY <3>2, <4>2, <4>3
    <3> QED
      BY <3>1, <3>2
  <2>2. g \in [SUBSET (1..n) -> X]
    BY <1>5 DEF FoldsSets
  <2> QED
    BY <1>1, <2>1, <2>2
<1>8. Folds(it)
  <2> HIDE DEF Folds
  <2> QED
    BY <1>7
<1>9. \A s \in SUBSET (1..n) :
         it[s] = IF s = {} THEN "none" ELSE FenceAfter(it[s \ {Max(s)}], [j \in 1..m |-> j][Max(s)])
  <2> HIDE DEF it
  <2> QED
    BY <1>1, <1>8
<1> HIDE DEF it, Folds
<1>10. SolvesFold(it, n, X, "none", step)
  <2>1. {} \in SUBSET (1..n)
    OBVIOUS
  <2>2. ASSUME NEW s \in SUBSET (1..n), s # {}, it[s \ {Max(s)}] \in X
        PROVE  it[s] = step[<<it[s \ {Max(s)}], Max(s)>>]
    <3>1. Max(s) \in 1..n
      BY <1>6, <2>2
    <3>2. it[s] = FenceAfter(it[s \ {Max(s)}], [j \in 1..m |-> j][Max(s)])
      BY <1>9, <2>2
    <3>3. step[<<it[s \ {Max(s)}], Max(s)>>] = FenceAfter(it[s \ {Max(s)}], [j \in 1..m |-> j][Max(s)])
      BY <1>2, <2>2, <3>1
    <3> QED
      BY <3>2, <3>3
  <2> QED
    BY <1>9, <2>1, <2>2 DEF SolvesFold
<1>11. PICK F : FoldsUp(F, it, n, X, "none", step)
  BY <1>1, <1>3, <1>10, FoldCourse
<1>12. ASSUME NEW k \in 1..n
       PROVE  F[k] \in X /\ F[k - 1] \in X /\ F[k] = FenceAfter(F[k - 1], [j \in 1..m |-> j][k])
  <2>1. F[k] = step[<<F[k - 1], k>>] /\ F[k - 1] \in X /\ F[k] \in X
    BY <1>11 DEF FoldsUp
  <2>2. F[k] = FenceAfter(F[k - 1], [j \in 1..m |-> j][k])
    BY <1>2, <2>1
  <2> QED
    BY <2>1, <2>2
<1>13. F[0] = "none" /\ F[n] = it[1..n] /\ F[n] \in X
  <2>1. n \in 0..n
    BY <1>1
  <2> QED
    BY <1>11, <2>1 DEF FoldsUp
<1> QED
  BY <1>4, <1>12, <1>13 DEF FenceCourse, n, X

\* The fence in front of the lines is that of the fold over them, one by one.
LEMMA FenceNext ==
  ASSUME NEW k \in Nat
  PROVE  /\ FenceBefore(1) = "none" /\ FenceBefore(k + 1) \in Fences
         /\ FenceBefore(k + 2) = FenceAfter(FenceBefore(k + 1), k + 1)
<1>1. \A m \in Nat : FenceBefore(m + 1) = FenceFoldOf(m)
  <2> SUFFICES ASSUME NEW m \in Nat
               PROVE  FenceBefore(m + 1) = FenceFoldOf(m)
    OBVIOUS
  <2>1. (m + 1) - 1 = m
    OBVIOUS
  <2> QED
    BY <2>1 DEF FenceBefore, FenceFoldOf
<1> DEFINE n == k + 1
<1>2. n \in Nat /\ n \in 1..n /\ n - 1 = k /\ k + 2 = n + 1 /\ 1 = 0 + 1
  OBVIOUS
<1>3. ASSUME NEW m \in Nat
      PROVE  \E F : /\ F[0] = "none" /\ F[m] = FenceFoldOf(m) /\ F[m] \in Fences
                    /\ \A j \in 1..m : F[j] = FenceAfter(F[j - 1], j)
  <2> DEFINE q == [j \in 1..m |-> j]
  <2>1. Len(q) = m /\ \A j \in 1..m : q[j] = j
    BY ListUpTo
  <2>2. PICK F : FenceCourse(F, q) /\ FenceFoldOf(m) = F[Len(q)]
    BY FenceFold
  <2> HIDE DEF q
  <2> QED
    BY <2>1, <2>2 DEF FenceCourse
<1>4. PICK F : /\ F[0] = "none" /\ F[k] = FenceFoldOf(k) /\ F[k] \in Fences
               /\ \A j \in 1..k : F[j] = FenceAfter(F[j - 1], j)
  BY <1>3
<1>5. PICK E : /\ E[0] = "none" /\ E[n] = FenceFoldOf(n) /\ E[n] \in Fences
               /\ \A j \in 1..n : E[j] = FenceAfter(E[j - 1], j)
  BY <1>2, <1>3
<1> DEFINE G == {j \in 0..k : E[j] = F[j]}
<1>6. 0 \in G
  BY <1>4, <1>5
<1>7. ASSUME NEW i \in 0..(k - 1), i \in G
      PROVE  i + 1 \in G
  <2> DEFINE j == i + 1
  <2>1. j \in 1..k /\ j \in 0..k /\ j \in 1..n /\ j - 1 = i
    OBVIOUS
  <2>2. E[i] = F[i]
    BY <1>7
  <2> HIDE DEF j, n
  <2>3. E[j] = F[j]
    BY <1>4, <1>5, <2>1, <2>2
  <2> QED
    BY <2>1, <2>3 DEF j
<1>8. E[k] = F[k]
  <2>1. 0..k \subseteq G
    <3> HIDE DEF G
    <3> QED
      BY <1>6, <1>7, CountingUp
  <2> QED
    BY <2>1
<1>9. FenceFoldOf(n) = FenceAfter(FenceFoldOf(k), n)
  <2> HIDE DEF n
  <2> QED
    BY <1>2, <1>4, <1>5, <1>8
<1>10. FenceFoldOf(0) = "none"
  BY <1>3
<1>11. FenceBefore(1) = FenceFoldOf(0) /\ FenceBefore(k + 1) = FenceFoldOf(k) /\ FenceBefore(k + 2) = FenceFoldOf(n)
  <2>1. FenceBefore(0 + 1) = FenceFoldOf(0) /\ FenceBefore(n + 1) = FenceFoldOf(n)
    BY <1>1, <1>2
  <2> QED
    BY <1>1, <1>2, <2>1
<1> QED
  BY <1>4, <1>9, <1>10, <1>11

LEMMA RowIsNoFence ==
  ASSUME NEW k, isMarkdownTableRow(k)
  PROVE  ~OpensFence(k) /\ FenceAfter("none", k) = "none"
  BY DEF isMarkdownTableRow, OpensFence, FenceAfter

\* Rows of a table open no fence.
LEMMA RowsKeepFence ==
  ASSUME NEW m \in Nat, NEW k \in Nat, m > 0, m <= k, FenceBefore(m) = "none",
         \A j \in m..(k - 1) : isMarkdownTableRow(j)
  PROVE  FenceBefore(k) = "none"
<1> DEFINE d == k - m
           G == {i \in 0..d : FenceBefore(m + i) = "none"}
<1>1. d \in Nat /\ m + 0 = m /\ m + d = k
  OBVIOUS
<1>2. 0 \in G
  BY <1>1
<1>3. ASSUME NEW i \in 0..(d - 1), i \in G
      PROVE  i + 1 \in G
  <2> DEFINE j == m + i - 1
  <2>1. j \in Nat /\ j + 1 = m + i /\ j + 2 = m + (i + 1) /\ i + 1 \in 0..d /\ m + i \in m..(k - 1)
    OBVIOUS
  <2>2. FenceBefore(j + 2) = FenceAfter(FenceBefore(j + 1), j + 1)
    BY <2>1, FenceNext
  <2>3. FenceBefore(j + 1) = "none" /\ isMarkdownTableRow(j + 1)
    BY <1>3, <2>1
  <2> HIDE DEF j
  <2>4. FenceBefore(j + 2) = "none"
    BY <2>2, <2>3, RowIsNoFence
  <2> QED
    BY <2>1, <2>4
<1>4. 0..d \subseteq G
  <2> HIDE DEF G, d
  <2> QED
    BY <1>1, <1>2, <1>3, CountingUp
<1>5. d \in G
  <2>1. d \in 0..d
    BY <1>1
  <2> QED
    BY <1>4, <2>1
<1> QED
  BY <1>1, <1>5

\* After line k every line up to the next one that is not blank is kept, in
\* order: in the atoms, or else in the text that is being read.
LinesKept(k, s) ==
  /\ s \in ReaderState /\ s.next > k
  /\ Rising(s.buf, Less) /\ \A b \in ToSet(s.buf) : b < s.next
  /\ \A i \in 1..Len(s.atoms) :
       /\ Rising(s.atoms[i].lines, Less)
       /\ \A a \in ToSet(s.atoms[i].lines) : a < s.next /\ \A b \in ToSet(s.buf) : a < b
  /\ \A i, j \in 1..Len(s.atoms) : i < j =>
       \A a \in ToSet(s.atoms[i].lines), b \in ToSet(s.atoms[j].lines) : a < b
  /\ \A x \in 1..(s.next - 1) : Kind(x) # "blank" =>
       x \in ToSet(s.buf) \/ \E i \in 1..Len(s.atoms) : x \in ToSet(s.atoms[i].lines)

LEMMA ReaderParts ==
  ASSUME call.in \in MarkdownInputs, NEW s \in ReaderState
  PROVE  /\ s.atoms \in Seq(AtomsRead) /\ s.buf \in Seq(1..Count) /\ s.next \in Nat /\ s.next <= Count + 1
         /\ Len(s.atoms) \in Nat /\ Count \in Nat /\ s.fence \in Fences
         /\ \A b \in ToSet(s.buf) : b \in 1..Count
         /\ \A i \in 1..Len(s.atoms) : /\ s.atoms[i] \in AtomsRead /\ s.atoms[i].lines \in Seq(1..Count)
                                      /\ s.atoms[i].table \in BOOLEAN
                                      /\ \A a \in ToSet(s.atoms[i].lines) : a \in 1..Count
<1>1. /\ s.atoms \in Seq(AtomsRead) /\ s.buf \in Seq(Numbers) /\ s.next \in 1..(Count + 1)
      /\ s.fence \in Fences
  BY DEF ReaderState
<1>2. Numbers = 1..Count /\ Count \in Nat
  BY LinesCounted
<1>3. Len(s.atoms) \in Nat
  BY <1>1, LenProperties
<1>4. \A b \in ToSet(s.buf) : b \in 1..Count
  BY <1>1, <1>2, InList
<1>5. ASSUME NEW i \in 1..Len(s.atoms)
      PROVE  /\ s.atoms[i] \in AtomsRead /\ s.atoms[i].lines \in Seq(1..Count)
             /\ s.atoms[i].table \in BOOLEAN
             /\ \A a \in ToSet(s.atoms[i].lines) : a \in 1..Count
  <2>1. s.atoms[i] \in AtomsRead
    BY <1>1, ElementOfSeq
  <2>2. s.atoms[i].lines \in Seq(1..Count) /\ s.atoms[i].table \in BOOLEAN
    BY <1>2, <2>1 DEF AtomsRead
  <2>3. \A a \in ToSet(s.atoms[i].lines) : a \in 1..Count
    BY <2>2, InList
  <2> QED
    BY <2>1, <2>2, <2>3
<1> QED
  BY <1>1, <1>2, <1>3, <1>4, <1>5

\* The text read so far becomes an atom.
LEMMA FlushKeeps ==
  ASSUME call.in \in MarkdownInputs, NEW k, NEW s, LinesKept(k, s)
  PROVE  LinesKept(k, FlushLines(s))
<1> DEFINE t == FlushLines(s)
           a == [table |-> FALSE, lines |-> s.buf]
<1>1. s \in ReaderState
  BY DEF LinesKept
<1>2. /\ t \in ReaderState /\ t.buf = <<>> /\ t.next = s.next
      /\ \/ t.atoms = Append(s.atoms, a)
         \/ t.atoms = s.atoms /\ \A b \in ToSet(s.buf) : Kind(b) = "blank"
  BY <1>1, FlushTyped
<1>3. /\ s.atoms \in Seq(AtomsRead) /\ a \in AtomsRead /\ ToSet(<<>>) = {} /\ Rising(<<>>, Less)
      /\ a.lines = s.buf
  BY <1>1 DEF ReaderState, AtomsRead, ToSet, Rising
<1> HIDE DEF t, a
<1>4. CASE t.atoms = s.atoms /\ \A b \in ToSet(s.buf) : Kind(b) = "blank"
  <2>1. t \in ReaderState /\ t.next = s.next /\ t.atoms = s.atoms /\ ToSet(t.buf) = {} /\ Rising(t.buf, Less)
    BY <1>2, <1>3, <1>4
  <2>2. LinesKept(k, t)
    BY <1>4, <2>1 DEF LinesKept
  <2> QED
    BY <2>2 DEF t
<1>5. CASE t.atoms = Append(s.atoms, a)
  <2>1. /\ Len(t.atoms) = Len(s.atoms) + 1 /\ Len(s.atoms) \in Nat
        /\ \A i \in 1..Len(s.atoms) : i \in 1..Len(t.atoms) /\ t.atoms[i] = s.atoms[i]
        /\ Len(t.atoms) \in 1..Len(t.atoms) /\ t.atoms[Len(t.atoms)] = a
        /\ \A i \in 1..Len(t.atoms) : i \in 1..Len(s.atoms) \/ i = Len(t.atoms)
    BY <1>3, <1>5, ListGrows
  <2> DEFINE n == Len(t.atoms)
  <2>2. \A i \in 1..n : /\ Rising(t.atoms[i].lines, Less)
                        /\ \A x \in ToSet(t.atoms[i].lines) : x < s.next
    <3> SUFFICES ASSUME NEW i \in 1..n
                 PROVE  /\ Rising(t.atoms[i].lines, Less)
                        /\ \A x \in ToSet(t.atoms[i].lines) : x < s.next
      OBVIOUS
    <3>1. CASE i \in 1..Len(s.atoms)
      BY <2>1, <3>1 DEF LinesKept
    <3>2. CASE i = n
      <4>1. t.atoms[i].lines = s.buf
        BY <1>3, <2>1, <3>2
      <4> QED
        BY <4>1 DEF LinesKept
    <3> QED
      BY <2>1, <3>1, <3>2
  <2>3. \A i, j \in 1..n : i < j =>
          \A x \in ToSet(t.atoms[i].lines), y \in ToSet(t.atoms[j].lines) : x < y
    <3> SUFFICES ASSUME NEW i \in 1..n, NEW j \in 1..n, i < j,
                        NEW x \in ToSet(t.atoms[i].lines), NEW y \in ToSet(t.atoms[j].lines)
                 PROVE  x < y
      OBVIOUS
    <3>1. i \in 1..Len(s.atoms) /\ x \in ToSet(s.atoms[i].lines)
      <4>1. i # n
        BY <2>1
      <4>2. i \in 1..Len(s.atoms)
        BY <2>1, <4>1
      <4> QED
        BY <2>1, <4>2
    <3>2. CASE j \in 1..Len(s.atoms)
      <4>1. y \in ToSet(s.atoms[j].lines)
        BY <2>1, <3>2
      <4> QED
        BY <3>1, <3>2, <4>1 DEF LinesKept
    <3>3. CASE j = n
      <4>1. y \in ToSet(s.buf)
        BY <1>3, <2>1, <3>3
      <4> QED
        BY <3>1, <4>1 DEF LinesKept
    <3> QED
      BY <2>1, <3>2, <3>3
  <2>4. \A x \in 1..(s.next - 1) : Kind(x) # "blank" => \E i \in 1..n : x \in ToSet(t.atoms[i].lines)
    <3> SUFFICES ASSUME NEW x \in 1..(s.next - 1), Kind(x) # "blank"
                 PROVE  \E i \in 1..n : x \in ToSet(t.atoms[i].lines)
      OBVIOUS
    <3>1. CASE x \in ToSet(s.buf)
      <4>1. x \in ToSet(t.atoms[n].lines)
        BY <1>3, <2>1, <3>1
      <4> QED
        BY <2>1, <4>1
    <3>2. CASE x \notin ToSet(s.buf)
      <4>1. PICK i \in 1..Len(s.atoms) : x \in ToSet(s.atoms[i].lines)
        BY <3>2 DEF LinesKept
      <4> QED
        BY <2>1, <4>1
    <3> QED
      BY <3>1, <3>2
  <2>5. t.next = s.next /\ s.next > k /\ ToSet(t.buf) = {} /\ Rising(t.buf, Less)
    BY <1>2, <1>3 DEF LinesKept
  <2> HIDE DEF n
  <2>6. LinesKept(k, t)
    BY <1>2, <2>2, <2>3, <2>4, <2>5 DEF LinesKept, n
  <2> QED
    BY <2>6 DEF t
<1> QED
  BY <1>2, <1>4, <1>5

\* A table comes after the text before it.
LEMMA TableKeeps ==
  ASSUME call.in \in MarkdownInputs, NEW k \in Numbers, NEW s, LinesKept(k - 1, s), ~(k < s.next),
         NEW end \in (k + 1)..(Count + 1)
  PROVE  LinesKept(k, TakeTable(s, k, end))
<1> DEFINE f == FlushLines(s)
           t == TakeTable(s, k, end)
           a == [table |-> TRUE, lines |-> TableLines(k, end)]
<1>1. s \in ReaderState /\ Count \in Nat /\ k \in 1..Count /\ s.next = k
  <2>1. s \in ReaderState /\ s.next > k - 1
    BY DEF LinesKept
  <2>2. Count \in Nat /\ k \in 1..Count
    BY LinesCounted
  <2>3. s.next \in Nat
    BY <2>1, ReaderParts
  <2> QED
    BY <2>1, <2>2, <2>3
<1>2. LinesKept(k - 1, f) /\ f.next = k /\ f.buf = <<>>
  BY <1>1, FlushKeeps, FlushTyped
<1>3. t \in ReaderState /\ t.buf = <<>> /\ t.next = end /\ t.atoms = Append(f.atoms, a)
  BY <1>1, TakeTyped
<1>4. /\ a \in AtomsRead /\ Rising(a.lines, Less) /\ \A x : x \in ToSet(a.lines) <=> x \in k..(end - 1)
  <2>1. Numbers = 1..Count
    BY LinesCounted
  <2> QED
    BY <1>1, <2>1, TableLinesAre DEF AtomsRead
<1>5. f.atoms \in Seq(AtomsRead) /\ \A i \in 1..Len(f.atoms) : \A x \in ToSet(f.atoms[i].lines) : x \in 1..Count /\ x < k
  <2>1. f \in ReaderState
    BY <1>2 DEF LinesKept
  <2> HIDE DEF f
  <2> QED
    BY <1>2, <2>1, ReaderParts DEF LinesKept
<1> HIDE DEF f, t, a
<1>6. /\ Len(t.atoms) = Len(f.atoms) + 1 /\ Len(f.atoms) \in Nat
      /\ \A i \in 1..Len(f.atoms) : i \in 1..Len(t.atoms) /\ t.atoms[i] = f.atoms[i]
      /\ Len(t.atoms) \in 1..Len(t.atoms) /\ t.atoms[Len(t.atoms)] = a
      /\ \A i \in 1..Len(t.atoms) : i \in 1..Len(f.atoms) \/ i = Len(t.atoms)
  BY <1>3, <1>4, <1>5, ListGrows
<1> DEFINE n == Len(t.atoms)
<1>7. \A i \in 1..n : /\ Rising(t.atoms[i].lines, Less)
                      /\ \A x \in ToSet(t.atoms[i].lines) : x < end
  <2> SUFFICES ASSUME NEW i \in 1..n
               PROVE  /\ Rising(t.atoms[i].lines, Less)
                      /\ \A x \in ToSet(t.atoms[i].lines) : x < end
    OBVIOUS
  <2>1. CASE i \in 1..Len(f.atoms)
    <3>1. \A x \in ToSet(f.atoms[i].lines) : x < end
      <4> SUFFICES ASSUME NEW x \in ToSet(f.atoms[i].lines)
                   PROVE  x < end
        OBVIOUS
      <4>1. x \in 1..Count /\ x < k
        BY <1>5, <2>1
      <4> QED
        BY <1>1, <4>1
    <3> QED
      BY <1>2, <1>6, <2>1, <3>1 DEF LinesKept
  <2>2. CASE i = n
    <3>1. \A x \in ToSet(a.lines) : x < end
      BY <1>1, <1>4
    <3> QED
      BY <1>4, <1>6, <2>2, <3>1
  <2> QED
    BY <1>6, <2>1, <2>2
<1>8. \A i, j \in 1..n : i < j =>
        \A x \in ToSet(t.atoms[i].lines), y \in ToSet(t.atoms[j].lines) : x < y
  <2> SUFFICES ASSUME NEW i \in 1..n, NEW j \in 1..n, i < j,
                      NEW x \in ToSet(t.atoms[i].lines), NEW y \in ToSet(t.atoms[j].lines)
               PROVE  x < y
    OBVIOUS
  <2>1. i \in 1..Len(f.atoms) /\ x \in ToSet(f.atoms[i].lines)
    <3>1. i # n
      BY <1>6
    <3>2. i \in 1..Len(f.atoms)
      BY <1>6, <3>1
    <3> QED
      BY <1>6, <3>2
  <2>2. CASE j \in 1..Len(f.atoms)
    <3>1. y \in ToSet(f.atoms[j].lines)
      BY <1>6, <2>2
    <3> QED
      BY <1>2, <2>1, <2>2, <3>1 DEF LinesKept
  <2>3. CASE j = n
    <3>1. y \in k..(end - 1) /\ x \in 1..Count /\ x < k
      BY <1>4, <1>5, <1>6, <2>1, <2>3
    <3> QED
      BY <1>1, <3>1
  <2> QED
    BY <1>6, <2>2, <2>3
<1>9. \A x \in 1..(end - 1) : Kind(x) # "blank" => \E i \in 1..n : x \in ToSet(t.atoms[i].lines)
  <2> SUFFICES ASSUME NEW x \in 1..(end - 1), Kind(x) # "blank"
               PROVE  \E i \in 1..n : x \in ToSet(t.atoms[i].lines)
    OBVIOUS
  <2>1. CASE x < k
    <3>1. x \in 1..(f.next - 1) /\ ToSet(f.buf) = {}
      <4>1. x \in 1..(k - 1)
        BY <1>1, <2>1
      <4>2. ToSet(<<>>) = {}
        BY DEF ToSet
      <4> QED
        BY <1>2, <4>1, <4>2
    <3>2. PICK i \in 1..Len(f.atoms) : x \in ToSet(f.atoms[i].lines)
      BY <1>2, <3>1 DEF LinesKept
    <3> QED
      BY <1>6, <3>2
  <2>2. CASE ~(x < k)
    <3>1. x \in k..(end - 1)
      BY <1>1, <2>2
    <3>2. x \in ToSet(t.atoms[n].lines)
      BY <1>4, <1>6, <3>1
    <3> QED
      BY <1>6, <3>2
  <2> QED
    BY <2>1, <2>2
<1>10. t.next = end /\ end > k /\ ToSet(t.buf) = {} /\ Rising(t.buf, Less)
  BY <1>1, <1>3 DEF ToSet, Rising
<1> HIDE DEF n
<1>11. LinesKept(k, t)
  BY <1>3, <1>7, <1>8, <1>9, <1>10 DEF LinesKept, n
<1> QED
  BY <1>11 DEF t

\* A line of text comes after the text before it.
LEMMA BufferKeeps ==
  ASSUME call.in \in MarkdownInputs, NEW k \in Numbers, NEW s, LinesKept(k - 1, s), ~(k < s.next),
         NEW f \in Fences
  PROVE  LinesKept(k, Buffer([s EXCEPT !.fence = f], k))
<1> DEFINE u == [s EXCEPT !.fence = f]
           t == Buffer(u, k)
<1>1. s \in ReaderState /\ Count \in Nat /\ k \in 1..Count /\ s.next = k
  <2>1. s \in ReaderState /\ s.next > k - 1
    BY DEF LinesKept
  <2>2. Count \in Nat /\ k \in 1..Count
    BY LinesCounted
  <2>3. s.next \in Nat
    BY <2>1, ReaderParts
  <2> QED
    BY <2>1, <2>2, <2>3
<1>2. u \in ReaderState /\ u.atoms = s.atoms /\ u.buf = s.buf
  BY <1>1, FenceSet
<1> HIDE DEF u
<1>3. t \in ReaderState /\ t.atoms = s.atoms /\ t.next = k + 1 /\ t.buf = Append(s.buf, k)
  BY <1>2, BufferTyped
<1> HIDE DEF t
<1>4. /\ s.buf \in Seq(1..Count) /\ \A b \in ToSet(s.buf) : b \in 1..Count
      /\ \A i \in 1..Len(s.atoms) : \A a \in ToSet(s.atoms[i].lines) : a \in 1..Count
  BY <1>1, ReaderParts
<1>5. Rising(s.buf, Less) /\ \A b \in ToSet(s.buf) : b < k
  BY <1>1 DEF LinesKept
<1>6. Rising(t.buf, Less) /\ \A x : x \in ToSet(t.buf) <=> x \in ToSet(s.buf) \/ x = k
  <2>1. 1..Count \subseteq Nat
    BY <1>1
  <2>2. Rising(Append(s.buf, k), Less)
    BY <1>1, <1>4, <1>5, <2>1, AppendRises
  <2>3. \A x : x \in ToSet(Append(s.buf, k)) <=> x \in ToSet(s.buf) \/ x = k
    <3> DEFINE q == s.buf
               S == 1..Count
    <3>1. q \in Seq(S) /\ k \in S
      BY <1>1, <1>4
    <3> HIDE DEF q, S
    <3>2. \A x : x \in ToSet(Append(q, k)) <=> x \in ToSet(q) \/ x = k
      BY <3>1, AppendIs
    <3> QED
      BY <3>2 DEF q
  <2> QED
    BY <1>3, <2>2, <2>3
<1>7. \A b \in ToSet(t.buf) : b < k + 1
  BY <1>1, <1>4, <1>5, <1>6
<1>8. \A i \in 1..Len(t.atoms) :
       /\ Rising(t.atoms[i].lines, Less)
       /\ \A a \in ToSet(t.atoms[i].lines) : a < k + 1 /\ \A b \in ToSet(t.buf) : a < b
  <2> SUFFICES ASSUME NEW i \in 1..Len(s.atoms)
               PROVE  /\ Rising(s.atoms[i].lines, Less)
                      /\ \A a \in ToSet(s.atoms[i].lines) : a < k + 1 /\ \A b \in ToSet(t.buf) : a < b
    BY <1>3
  <2>1. Rising(s.atoms[i].lines, Less) /\ \A a \in ToSet(s.atoms[i].lines) : a < k /\ \A b \in ToSet(s.buf) : a < b
    BY <1>1 DEF LinesKept
  <2>2. \A a \in ToSet(s.atoms[i].lines) : a < k + 1
    <3> SUFFICES ASSUME NEW a \in ToSet(s.atoms[i].lines)
                 PROVE  a < k + 1
      OBVIOUS
    <3>1. a \in 1..Count /\ a < k
      BY <1>4, <2>1
    <3> QED
      BY <1>1, <3>1
  <2> QED
    BY <1>6, <2>1, <2>2
<1>9. \A x \in 1..k : Kind(x) # "blank" =>
        x \in ToSet(t.buf) \/ \E i \in 1..Len(t.atoms) : x \in ToSet(t.atoms[i].lines)
  <2> SUFFICES ASSUME NEW x \in 1..k, Kind(x) # "blank", x # k
               PROVE  x \in ToSet(s.buf) \/ \E i \in 1..Len(s.atoms) : x \in ToSet(s.atoms[i].lines)
    BY <1>3, <1>6
  <2>1. x \in 1..(s.next - 1)
    BY <1>1
  <2> QED
    BY <2>1 DEF LinesKept
<1>10. t.next > k /\ t.next = k + 1 /\ t.next - 1 = k
  BY <1>1, <1>3
<1>11. \A i, j \in 1..Len(t.atoms) : i < j =>
         \A a \in ToSet(t.atoms[i].lines), b \in ToSet(t.atoms[j].lines) : a < b
  BY <1>3 DEF LinesKept
<1>12. LinesKept(k, t)
  BY <1>3, <1>6, <1>7, <1>8, <1>9, <1>10, <1>11 DEF LinesKept
<1> QED
  BY <1>12 DEF t, u

LEMMA ReadLineKeeps ==
  ASSUME call.in \in MarkdownInputs, NEW k \in Numbers, NEW s, LinesKept(k - 1, s)
  PROVE  LinesKept(k, ReadLine(s, k))
<1>1. s \in ReaderState /\ Count \in Nat /\ k \in 1..Count /\ s.next \in Nat /\ s.fence \in Fences
  BY LinesCounted, ReaderParts DEF LinesKept
<1>2. CASE k < s.next
  <2>1. ReadLine(s, k) = s
    BY <1>1, <1>2, ReadLineIs
  <2>2. LinesKept(k, s)
    BY <1>1, <1>2 DEF LinesKept
  <2> QED
    BY <2>1, <2>2
<1>3. CASE ~(k < s.next)
  <2>1. CASE ReadLine(s, k) = TakeTable(s, k, htmlTableEnd(k))
    BY <1>3, <2>1, HtmlEnds, TableKeeps
  <2>2. CASE isMarkdownTableStart(k) /\ ReadLine(s, k) = TakeTable(s, k, markdownTableEnd(k))
    <3> DEFINE end == markdownTableEnd(k)
    <3>1. end \in (k + 2)..(Count + 1)
      BY <2>2, PipesEnd
    <3> HIDE DEF end
    <3>2. end \in (k + 1)..(Count + 1)
      BY <1>1, <3>1
    <3>3. LinesKept(k, TakeTable(s, k, end))
      BY <1>3, <3>2, TableKeeps
    <3> QED
      BY <2>2, <3>3 DEF end
  <2>3. CASE ReadLine(s, k) = Buffer([s EXCEPT !.fence = FenceAfter(s.fence, k)], k)
    <3>1. FenceAfter(s.fence, k) \in Fences
      BY <1>1, FenceAfterTyped
    <3> QED
      BY <1>3, <2>3, <3>1, BufferKeeps
  <2> QED
    BY <1>1, <1>3, <2>1, <2>2, <2>3, ReadLineIs
<1> QED
  BY <1>2, <1>3

LEMMA FirstReaderKeeps ==
  ASSUME call.in \in MarkdownInputs
  PROVE  LinesKept(0, FirstReader)
<1>1. FirstReader \in ReaderState
  BY FirstReaderTyped
<1>2. /\ FirstReader.buf = <<>> /\ FirstReader.atoms = <<>> /\ FirstReader.next = 1 /\ Len(<<>>) = 0
      /\ ToSet(<<>>) = {}
  BY DEF FirstReader, ToSet
<1> QED
  BY <1>1, <1>2 DEF LinesKept, Rising

\* A row of a table outside code: it belongs to the run of rows some table
\* starts with.
TableLine(k) ==
  /\ FenceBefore(k) = "none"
  /\ \E s \in 1..k : /\ isMarkdownTableStart(s) /\ FenceBefore(s) = "none"
                     /\ \A j \in s..k : isMarkdownTableRow(j)

HtmlFree == ~\E k \in Numbers : Kind(k) \in {"open", "oneline"}

\* After line k: the fence is that in front of the next line, tables and
\* nothing else have been taken for tables, and no run of rows goes on.
LinesFiled(k, s) ==
  /\ LinesKept(k, s) /\ s.fence = FenceBefore(s.next)
  /\ \A b \in ToSet(s.buf) : ~TableLine(b)
  /\ \A i \in 1..Len(s.atoms) : \A a \in ToSet(s.atoms[i].lines) : s.atoms[i].table = TableLine(a)
  /\ \A m \in 1..(s.next - 1) :
       isMarkdownTableStart(m) /\ FenceBefore(m) = "none"
         /\ (\A j \in m..(s.next - 1) : isMarkdownTableRow(j))
       => s.next \notin Numbers \/ ~isMarkdownTableRow(s.next)

LEMMA FlushFiles ==
  ASSUME call.in \in MarkdownInputs, NEW k, NEW s, LinesFiled(k, s)
  PROVE  LinesFiled(k, FlushLines(s))
<1> DEFINE t == FlushLines(s)
           a == [table |-> FALSE, lines |-> s.buf]
<1>1. s \in ReaderState
  BY DEF LinesFiled, LinesKept
<1>2. /\ t \in ReaderState /\ t.buf = <<>> /\ t.next = s.next /\ t.fence = s.fence
      /\ \/ t.atoms = Append(s.atoms, a)
         \/ t.atoms = s.atoms
  BY <1>1, FlushTyped
<1>3. LinesKept(k, t)
  BY FlushKeeps DEF LinesFiled
<1>4. a.lines = s.buf /\ a.table = FALSE
  OBVIOUS
<1>5. s.atoms \in Seq(AtomsRead) /\ a \in AtomsRead
  BY <1>1 DEF ReaderState, AtomsRead
<1> HIDE DEF t, a
<1>6. \A i \in 1..Len(t.atoms) : \A x \in ToSet(t.atoms[i].lines) : t.atoms[i].table = TableLine(x)
  <2>1. CASE t.atoms = s.atoms
    BY <2>1 DEF LinesFiled
  <2>2. CASE t.atoms = Append(s.atoms, a)
    <3>1. /\ \A i \in 1..Len(s.atoms) : t.atoms[i] = s.atoms[i]
          /\ t.atoms[Len(t.atoms)] = a
          /\ \A i \in 1..Len(t.atoms) : i \in 1..Len(s.atoms) \/ i = Len(t.atoms)
      BY <1>5, <2>2, ListGrows
    <3> SUFFICES ASSUME NEW i \in 1..Len(t.atoms), NEW x \in ToSet(t.atoms[i].lines)
                 PROVE  t.atoms[i].table = TableLine(x)
      OBVIOUS
    <3>2. CASE i \in 1..Len(s.atoms)
      BY <3>1, <3>2 DEF LinesFiled
    <3>3. CASE i = Len(t.atoms)
      <4>1. x \in ToSet(s.buf) /\ t.atoms[i].table = FALSE
        BY <1>4, <3>1, <3>3
      <4>2. ~TableLine(x)
        BY <4>1 DEF LinesFiled
      <4>3. TableLine(x) = FALSE
        BY <4>2 DEF TableLine
      <4> QED
        BY <4>1, <4>3
    <3> QED
      BY <3>1, <3>2, <3>3
  <2> QED
    BY <1>2, <2>1, <2>2
<1>7. ToSet(t.buf) = {}
  BY <1>2 DEF ToSet
<1>8. /\ t.next = s.next /\ t.fence = FenceBefore(t.next)
      /\ \A m \in 1..(s.next - 1) :
           isMarkdownTableStart(m) /\ FenceBefore(m) = "none"
             /\ (\A j \in m..(s.next - 1) : isMarkdownTableRow(j))
           => s.next \notin Numbers \/ ~isMarkdownTableRow(s.next)
  BY <1>2 DEF LinesFiled
<1>9. LinesFiled(k, t)
  BY <1>3, <1>6, <1>7, <1>8 DEF LinesFiled
<1> QED
  BY <1>9 DEF t

LEMMA TableFiles ==
  ASSUME call.in \in MarkdownInputs, NEW k \in Numbers, NEW s, LinesFiled(k - 1, s), ~(k < s.next),
         s.fence = "none", isMarkdownTableStart(k)
  PROVE  LinesFiled(k, TakeTable(s, k, markdownTableEnd(k)))
<1> DEFINE end == markdownTableEnd(k)
           f == FlushLines(s)
           t == TakeTable(s, k, end)
           a == [table |-> TRUE, lines |-> TableLines(k, end)]
<1>1. s \in ReaderState /\ Count \in Nat /\ k \in 1..Count /\ s.next = k /\ LinesKept(k - 1, s)
  <2>1. s \in ReaderState /\ s.next > k - 1 /\ LinesKept(k - 1, s)
    BY DEF LinesKept, LinesFiled
  <2>2. Count \in Nat /\ k \in 1..Count
    BY LinesCounted
  <2>3. s.next \in Nat
    BY <2>1, ReaderParts
  <2> QED
    BY <2>1, <2>2, <2>3
<1>2. /\ end \in (k + 2)..(Count + 1) /\ \A j \in k..(end - 1) : isMarkdownTableRow(j)
      /\ end \notin Numbers \/ ~isMarkdownTableRow(end)
  BY PipesEnd
<1> HIDE DEF end
<1>3. end \in (k + 1)..(Count + 1)
  BY <1>1, <1>2
<1>4. LinesFiled(k - 1, f) /\ f.buf = <<>>
  BY <1>1, FlushFiles, FlushTyped
<1>5. t \in ReaderState /\ t.buf = <<>> /\ t.next = end /\ t.fence = s.fence /\ t.atoms = Append(f.atoms, a)
  BY <1>1, <1>3, TakeTyped
<1>6. LinesKept(k, t)
  BY <1>1, <1>3, TableKeeps
<1>7. a \in AtomsRead /\ a.table = TRUE /\ \A x : x \in ToSet(a.lines) <=> x \in k..(end - 1)
  <2>1. Numbers = 1..Count
    BY LinesCounted
  <2> QED
    BY <1>1, <1>3, <2>1, TableLinesAre DEF AtomsRead
<1>8. f.atoms \in Seq(AtomsRead)
  BY <1>4 DEF LinesFiled, LinesKept, ReaderState
<1>9. FenceBefore(k) = "none"
  BY <1>1 DEF LinesFiled
<1>10. \A x \in k..end : FenceBefore(x) = "none"
  <2> SUFFICES ASSUME NEW x \in k..end
               PROVE  FenceBefore(x) = "none"
    OBVIOUS
  <2>1. \A j \in k..(x - 1) : isMarkdownTableRow(j)
    BY <1>1, <1>2
  <2>2. k \in Nat /\ k > 0 /\ x \in Nat /\ k <= x
    BY <1>1, <1>3
  <2> QED
    BY <1>9, <2>1, <2>2, RowsKeepFence
<1> HIDE DEF f, t, a
<1>11. \A x \in ToSet(a.lines) : TableLine(x)
  <2> SUFFICES ASSUME NEW x \in k..(end - 1)
               PROVE  TableLine(x)
    BY <1>7
  <2>1. k \in 1..x /\ x \in k..end /\ \A j \in k..x : isMarkdownTableRow(j)
    BY <1>1, <1>2
  <2> QED
    BY <1>9, <1>10, <2>1 DEF TableLine
<1>12. \A i \in 1..Len(t.atoms) : \A x \in ToSet(t.atoms[i].lines) : t.atoms[i].table = TableLine(x)
  <2>1. /\ \A i \in 1..Len(f.atoms) : t.atoms[i] = f.atoms[i]
        /\ t.atoms[Len(t.atoms)] = a
        /\ \A i \in 1..Len(t.atoms) : i \in 1..Len(f.atoms) \/ i = Len(t.atoms)
    BY <1>5, <1>7, <1>8, ListGrows
  <2> SUFFICES ASSUME NEW i \in 1..Len(t.atoms), NEW x \in ToSet(t.atoms[i].lines)
               PROVE  t.atoms[i].table = TableLine(x)
    OBVIOUS
  <2>2. CASE i \in 1..Len(f.atoms)
    BY <1>4, <2>1, <2>2 DEF LinesFiled
  <2>3. CASE i = Len(t.atoms)
    <3>1. x \in ToSet(a.lines) /\ t.atoms[i].table = TRUE
      BY <1>7, <2>1, <2>3
    <3>2. TableLine(x)
      BY <1>11, <3>1
    <3> QED
      BY <3>1, <3>2
  <2> QED
    BY <2>1, <2>2, <2>3
<1>13. ToSet(t.buf) = {}
  BY <1>5 DEF ToSet
<1>14. t.fence = FenceBefore(t.next)
  <2>1. end \in k..end
    BY <1>1, <1>3
  <2> QED
    BY <1>5, <1>10, <2>1
<1>15. LinesFiled(k, t)
  BY <1>2, <1>5, <1>6, <1>12, <1>13, <1>14 DEF LinesFiled
<1> QED
  BY <1>15 DEF t, end

LEMMA BufferFiles ==
  ASSUME call.in \in MarkdownInputs, NEW k \in Numbers, NEW s, LinesFiled(k - 1, s), ~(k < s.next),
         s.fence = "none" /\ ~OpensFence(k) => ~isMarkdownTableStart(k)
  PROVE  LinesFiled(k, Buffer([s EXCEPT !.fence = FenceAfter(s.fence, k)], k))
<1> DEFINE g == FenceAfter(s.fence, k)
           u == [s EXCEPT !.fence = g]
           t == Buffer(u, k)
<1>1. s \in ReaderState /\ Count \in Nat /\ k \in 1..Count /\ s.next = k /\ LinesKept(k - 1, s)
      /\ s.fence \in Fences
  <2>1. s \in ReaderState /\ s.next > k - 1 /\ LinesKept(k - 1, s)
    BY DEF LinesKept, LinesFiled
  <2>2. Count \in Nat /\ k \in 1..Count
    BY LinesCounted
  <2>3. s.next \in Nat /\ s.fence \in Fences
    BY <2>1, ReaderParts
  <2> QED
    BY <2>1, <2>2, <2>3
<1>2. g \in Fences
  BY <1>1, FenceAfterTyped
<1>3. g = FenceBefore(k + 1)
  <2> DEFINE h == k - 1
  <2>1. h \in Nat /\ h + 1 = k /\ h + 2 = k + 1
    BY <1>1
  <2>2. FenceBefore(h + 2) = FenceAfter(FenceBefore(h + 1), h + 1)
    BY <2>1, FenceNext
  <2>3. s.fence = FenceBefore(k)
    BY <1>1 DEF LinesFiled
  <2> HIDE DEF h
  <2> QED
    BY <2>1, <2>2, <2>3
<1>4. LinesKept(k, t)
  BY <1>1, <1>2, BufferKeeps
<1> HIDE DEF g
<1>5. u \in ReaderState /\ u.atoms = s.atoms /\ u.buf = s.buf /\ u.fence = g
  BY <1>1, <1>2, FenceSet
<1> HIDE DEF u
<1>6. t \in ReaderState /\ t.atoms = s.atoms /\ t.next = k + 1 /\ t.buf = Append(s.buf, k) /\ t.fence = g
  BY <1>5, BufferTyped
<1> HIDE DEF t
<1>7. \A x : x \in ToSet(t.buf) <=> x \in ToSet(s.buf) \/ x = k
  <2> DEFINE q == s.buf
             S == Numbers
  <2>1. q \in Seq(S) /\ k \in S
    BY <1>1 DEF ReaderState
  <2> HIDE DEF q, S
  <2>2. \A x : x \in ToSet(Append(q, k)) <=> x \in ToSet(q) \/ x = k
    BY <2>1, AppendIs
  <2> QED
    BY <1>6, <2>2 DEF q

\* No run of rows reaches line k: a table that starts before it has been
\* taken to its end, and k itself starts none.
<1>8. ASSUME NEW m \in 1..k, isMarkdownTableStart(m), FenceBefore(m) = "none",
             \A j \in m..k : isMarkdownTableRow(j)
      PROVE  FALSE
  <2>1. FenceBefore(k) = "none"
    <3>1. \A j \in m..(k - 1) : isMarkdownTableRow(j)
      BY <1>1, <1>8
    <3>2. m \in Nat /\ k \in Nat /\ m > 0 /\ m <= k
      BY <1>1
    <3> QED
      BY <1>8, <3>1, <3>2, RowsKeepFence
  <2>2. isMarkdownTableRow(k)
    BY <1>1, <1>8
  <2>3. s.fence = "none"
    BY <1>1, <2>1 DEF LinesFiled
  <2>4. CASE m = k
    BY <1>8, <2>2, <2>3, <2>4, RowIsNoFence
  <2>5. CASE m # k
    <3>1. m \in 1..(s.next - 1) /\ k \in Numbers
      BY <1>1, <2>5
    <3>2. \A j \in m..(s.next - 1) : isMarkdownTableRow(j)
      BY <1>1, <1>8
    <3>3. s.next \notin Numbers \/ ~isMarkdownTableRow(s.next)
      BY <1>8, <3>1, <3>2 DEF LinesFiled
    <3> QED
      BY <1>1, <2>2, <3>1, <3>3
  <2> QED
    BY <2>4, <2>5
<1>9. ~TableLine(k)
  BY <1>8 DEF TableLine
<1>10. \A b \in ToSet(t.buf) : ~TableLine(b)
  BY <1>7, <1>9 DEF LinesFiled
<1>11. \A i \in 1..Len(t.atoms) : \A x \in ToSet(t.atoms[i].lines) : t.atoms[i].table = TableLine(x)
  BY <1>6 DEF LinesFiled
<1>12. t.fence = FenceBefore(t.next) /\ t.next - 1 = k
  BY <1>1, <1>3, <1>6
<1>13. \A m \in 1..(t.next - 1) :
         ~(isMarkdownTableStart(m) /\ FenceBefore(m) = "none"
             /\ (\A j \in m..(t.next - 1) : isMarkdownTableRow(j)))
  BY <1>8, <1>12
<1>14. LinesFiled(k, t)
  BY <1>4, <1>10, <1>11, <1>12, <1>13 DEF LinesFiled
<1> QED
  BY <1>14 DEF t, u, g

LEMMA ReadLineFiles ==
  ASSUME call.in \in MarkdownInputs, HtmlFree, NEW k \in Numbers, NEW s, LinesFiled(k - 1, s)
  PROVE  LinesFiled(k, ReadLine(s, k))
<1>1. s \in ReaderState /\ s.next \in Nat /\ k \in Nat
  BY LinesCounted, ReaderParts DEF LinesKept, LinesFiled
<1>2. CASE k < s.next
  <2>1. ReadLine(s, k) = s
    BY <1>1, <1>2, ReadLineIs
  <2>2. LinesFiled(k, s)
    BY <1>1, <1>2 DEF LinesFiled, LinesKept
  <2> QED
    BY <2>1, <2>2
<1>3. CASE ~(k < s.next)
  <2>1. Kind(k) \notin {"open", "oneline"}
    BY DEF HtmlFree
  <2> QED
    BY <1>1, <1>3, <2>1, ReadLineIs, TableFiles, BufferFiles
<1> QED
  BY <1>2, <1>3

LEMMA FirstReaderFiles ==
  ASSUME call.in \in MarkdownInputs
  PROVE  LinesFiled(0, FirstReader)
<1>1. LinesKept(0, FirstReader)
  BY FirstReaderKeeps
<1>2. /\ FirstReader.buf = <<>> /\ FirstReader.atoms = <<>> /\ FirstReader.next = 1 /\ Len(<<>>) = 0
      /\ ToSet(<<>>) = {} /\ FirstReader.fence = "none"
  BY DEF FirstReader, ToSet
<1>3. FenceBefore(1) = "none"
  BY FenceNext
<1> QED
  BY <1>1, <1>2, <1>3 DEF LinesFiled

\* After the last line.
LEMMA AllLinesKept ==
  ASSUME call.in \in MarkdownInputs
  PROVE  LinesKept(Count, MarkdownRead) /\ (HtmlFree => LinesFiled(Count, MarkdownRead))
<1>1. Count \in Nat /\ Numbers = 1..Count /\ Len(LineNumbers) = Count /\ \A k \in 1..Count : LineNumbers[k] = k
  BY LinesCounted
<1>2. PICK F : ReadCourse(F, LineNumbers) /\ MarkdownRead = F[Count]
  BY <1>1, ReadFold
<1> DEFINE n == Count
           G == {k \in 0..n : LinesKept(k, F[k]) /\ (HtmlFree => LinesFiled(k, F[k]))}
<1>3. 0 \in G
  <2>1. F[0] = FirstReader /\ 0 \in 0..n
    BY <1>1, <1>2 DEF ReadCourse
  <2> QED
    BY <2>1, FirstReaderKeeps, FirstReaderFiles
<1>4. ASSUME NEW k \in 0..(n - 1), k \in G
      PROVE  k + 1 \in G
  <2> DEFINE m == k + 1
  <2>1. m \in 1..n /\ m \in 0..n /\ m - 1 = k
    BY <1>1
  <2> HIDE DEF m
  <2>2. LinesKept(m - 1, F[m - 1]) /\ (HtmlFree => LinesFiled(m - 1, F[m - 1]))
    BY <1>4, <2>1
  <2>3. F[m] = ReadLine(F[m - 1], m)
    BY <1>1, <1>2, <2>1 DEF ReadCourse
  <2>4. m \in Numbers
    BY <1>1, <2>1
  <2>5. LinesKept(m, F[m]) /\ (HtmlFree => LinesFiled(m, F[m]))
    BY <2>2, <2>3, <2>4, ReadLineKeeps, ReadLineFiles
  <2> QED
    BY <2>1, <2>5 DEF m
<1>5. n \in G
  <2>1. n \in 0..n
    BY <1>1
  <2>2. 0..n \subseteq G
    <3> HIDE DEF G, n
    <3> QED
      BY <1>1, <1>3, <1>4, CountingUp DEF n
  <2> QED
    BY <2>1, <2>2
<1> QED
  BY <1>2, <1>5

LEMMA MarkdownStands ==
  ASSUME call.in \in MarkdownInputs, Result = extractMarkdownAtoms(call.in)
  PROVE  MarkdownKept
<1> DEFINE s == MarkdownRead
           t == FlushLines(s)
           all == FlattenSeq([i \in DOMAIN Result |-> Result[i].lines])
<1>1. Count \in Nat /\ Numbers = 1..Count
  BY LinesCounted
<1>2. Result = t.atoms
  BY DEF extractMarkdownAtoms, MarkdownRead, LineNumbers
<1>3. LinesKept(Count, s) /\ (HtmlFree => LinesFiled(Count, s))
  BY AllLinesKept
<1> HIDE DEF s
<1>4. LinesKept(Count, t) /\ (HtmlFree => LinesFiled(Count, t)) /\ t.buf = <<>> /\ t \in ReaderState
  BY <1>3, FlushKeeps, FlushFiles, FlushTyped DEF LinesKept
<1> HIDE DEF t
<1>5. /\ t.atoms \in Seq(AtomsRead) /\ t.next = Count + 1 /\ Len(t.atoms) \in Nat /\ DOMAIN t.atoms = 1..Len(t.atoms)
      /\ \A i \in 1..Len(t.atoms) : /\ t.atoms[i].lines \in Seq(1..Count)
                                   /\ \A a \in ToSet(t.atoms[i].lines) : a \in 1..Count
  <2>1. /\ t.atoms \in Seq(AtomsRead) /\ t.next \in Nat /\ t.next <= Count + 1 /\ Len(t.atoms) \in Nat
        /\ \A i \in 1..Len(t.atoms) : /\ t.atoms[i].lines \in Seq(1..Count)
                                     /\ \A a \in ToSet(t.atoms[i].lines) : a \in 1..Count
    BY <1>4, ReaderParts
  <2>2. t.next > Count
    BY <1>4 DEF LinesKept
  <2>3. t.next = Count + 1
    BY <1>1, <2>1, <2>2
  <2>4. DOMAIN t.atoms = 1..Len(t.atoms)
    BY <2>1, LenProperties
  <2> QED
    BY <2>1, <2>3, <2>4
<1> DEFINE n == Len(t.atoms)
           parts == [i \in 1..n |-> t.atoms[i].lines]
<1>6. parts \in Seq(Seq(1..Count)) /\ Len(parts) = n /\ \A i \in 1..n : parts[i] = t.atoms[i].lines
  <2>1. parts \in [1..n -> Seq(1..Count)]
    BY <1>5
  <2>2. n \in Nat
    BY <1>5
  <2>3. \A i \in 1..n : parts[i] = t.atoms[i].lines
    OBVIOUS
  <2> HIDE DEF n, parts
  <2> QED
    BY <2>1, <2>2, <2>3, ListOf
<1>7. all = FlattenSeq(parts)
  <2>1. parts = [i \in DOMAIN Result |-> Result[i].lines]
    BY <1>2, <1>5
  <2> QED
    BY <2>1
<1> HIDE DEF parts, all
<1>8. \A i \in 1..n : Rising(parts[i], Less)
  BY <1>4, <1>6 DEF LinesKept
<1>9. ASSUME NEW i \in 1..n, NEW j \in 1..n, i < j, NEW a \in ToSet(parts[i]), NEW b \in ToSet(parts[j])
      PROVE  <<a, b>> \in Less
  <2>1. a \in ToSet(t.atoms[i].lines) /\ b \in ToSet(t.atoms[j].lines)
    BY <1>6
  <2>2. a \in Nat /\ b \in Nat
    <3>1. a \in 1..Count /\ b \in 1..Count
      BY <1>5, <2>1
    <3> QED
      BY <1>1, <3>1
  <2>3. a < b
    BY <1>4, <1>9, <2>1 DEF LinesKept
  <2> QED
    BY <2>2, <2>3, LessIs
<1>10. /\ all \in Seq(1..Count) /\ Rising(all, Less)
       /\ \A x : x \in ToSet(all) <=> \E i \in 1..n : x \in ToSet(parts[i])
  <2> HIDE DEF n
  <2> QED
    BY <1>6, <1>7, <1>8, <1>9, FlattenRises
<1>11. \A i, j \in DOMAIN all : i < j => all[i] < all[j]
  <2>1. DOMAIN all = 1..Len(all) /\ \A i \in 1..Len(all) : all[i] \in Nat
    BY <1>1, <1>10, LenProperties, ElementOfSeq
  <2> QED
    BY <1>10, <2>1, LessIs DEF Rising
<1>12. {k \in Numbers : Kind(k) # "blank"} \subseteq ToSet(all)
  <2> SUFFICES ASSUME NEW k \in Numbers, Kind(k) # "blank"
               PROVE  k \in ToSet(all)
    OBVIOUS
  <2>1. k \in 1..(t.next - 1)
    BY <1>1, <1>5
  <2>2. ToSet(t.buf) = {}
    BY <1>4 DEF ToSet
  <2>3. PICK i \in 1..n : k \in ToSet(t.atoms[i].lines)
    BY <1>4, <2>1, <2>2 DEF LinesKept
  <2> QED
    BY <1>6, <1>10, <2>3
<1>13. ASSUME HtmlFree, NEW i \in DOMAIN Result, NEW k \in ToSet(Result[i].lines)
       PROVE  Result[i].table = TableLine(k)
  BY <1>2, <1>4, <1>5, <1>13 DEF LinesFiled
<1> QED
  BY <1>11, <1>12, <1>13 DEF MarkdownKept, HtmlFree, TableLine, all

\* Cutting a Markdown text into atoms keeps every line that is not blank,
\* once and in order, and puts the rows of a table, and nothing else, into
\* its atom, whatever fences and tables the text opens (extractMarkdownAtoms).
THEOREM MarkdownKeepsAll == TemplatesSpec => []MarkdownKept
<1>1. TemplateAnswered => MarkdownKept
  <2> SUFFICES ASSUME TemplateAnswered, Extracted
               PROVE  MarkdownKept
    BY DEF MarkdownKept
  <2>1. call.in \in MarkdownInputs
    BY TemplateInputOf DEF Extracted, Returned
  <2>2. Result = extractMarkdownAtoms(call.in)
    BY DEF TemplateAnswered, Extracted, Returned
  <2> QED
    BY <2>1, <2>2, MarkdownStands
<1> QED
  BY <1>1, TemplateAnsweredAlways, PTL

-----------------------------------------------------------------------------
(* Questions and their answers.                                            *)

Size == Len(call.in.items)

HeadingMode == call.in.from \in {"md", "docx"}

ItemNumbers == [k \in DOMAIN call.in.items |-> k]

AnyPair == [question : Seq(Items), answer : Seq(Items)]

PairState == [pairs : Seq(AnyPair), question : Seq(Items), answer : Seq(Items), fence : BOOLEAN]

LEMMA ItemsCounted ==
  ASSUME call.in \in QAInputs
  PROVE  /\ Size \in Nat /\ Items = 1..Size
         /\ ItemNumbers \in Seq(Items) /\ Len(ItemNumbers) = Size /\ DOMAIN ItemNumbers = 1..Size
         /\ \A k \in 1..Size : ItemNumbers[k] = k /\ Item(k) \in ItemKinds(call.in.from)
<1>1. call.in.items \in Seq(ItemKinds(call.in.from))
  BY QAAssumption
<1>2. Size \in Nat /\ Items = 1..Size
  BY <1>1, LenProperties DEF Size, Items
<1>3. ItemNumbers = [k \in 1..Size |-> k]
  BY <1>2 DEF ItemNumbers, Items
<1>4. \A k \in 1..Size : Item(k) \in ItemKinds(call.in.from)
  BY <1>1, ElementOfSeq DEF Item, Size
<1> QED
  BY <1>2, <1>3, <1>4, ListUpTo

LEMMA PairParts ==
  ASSUME call.in \in QAInputs, NEW s \in PairState
  PROVE  /\ s.pairs \in Seq(AnyPair) /\ s.question \in Seq(Items) /\ s.answer \in Seq(Items)
         /\ s.fence \in BOOLEAN
  BY DEF PairState

\* The pair that is being read.
Current(s) == [question |-> s.question, answer |-> s.answer]

LEMMA QAFlushTyped ==
  ASSUME call.in \in QAInputs, NEW s \in PairState
  PROVE  LET t == QAFlush(s)
         IN  /\ t \in PairState /\ t.answer = <<>> /\ t.question = s.question /\ t.fence = s.fence
             /\ t.pairs = IF s.question # <<>> /\ Says(s.answer) THEN Append(s.pairs, Current(s)) ELSE s.pairs
<1>1. Current(s) \in AnyPair /\ s.pairs \in Seq(AnyPair)
  BY DEF Current, AnyPair, PairState
<1>2. Append(s.pairs, Current(s)) \in Seq(AnyPair) /\ <<>> \in Seq(Items)
  BY <1>1, AppendProperties
<1> DEFINE p == IF s.question # <<>> /\ Says(s.answer) THEN Append(s.pairs, Current(s)) ELSE s.pairs
<1>3. p \in Seq(AnyPair)
  BY <1>1, <1>2
<1>4. QAFlush(s) = [s EXCEPT !.answer = <<>>, !.pairs = p]
  BY DEF QAFlush, Current, PairState
<1> HIDE DEF p
<1>5. /\ QAFlush(s) \in PairState /\ QAFlush(s).answer = <<>> /\ QAFlush(s).question = s.question
      /\ QAFlush(s).fence = s.fence /\ QAFlush(s).pairs = p
  BY <1>2, <1>3, <1>4 DEF PairState
<1> QED
  BY <1>5 DEF p

\* The headings that are above a heading are the first of a path.
LEMMA EnclosingIs ==
  ASSUME call.in \in QAInputs, NEW path \in Seq(Items), NEW k \in Items
  PROVE  LET n == Max({0} \cup {i \in DOMAIN path : HeadLevel(path[i]) < HeadLevel(k)})
         IN  /\ n \in 0..Len(path) /\ Enclosing(path, k) = SubSeq(path, 1, n)
             /\ \A i \in 1..Len(path) : HeadLevel(path[i]) < HeadLevel(k) => i <= n
             /\ n > 0 => HeadLevel(path[n]) < HeadLevel(k)
             /\ Enclosing(path, k) \in Seq(Items) /\ Len(Enclosing(path, k)) = n
             /\ \A i \in 1..n : i \in 1..Len(path) /\ Enclosing(path, k)[i] = path[i]
<1> DEFINE T == {0} \cup {i \in DOMAIN path : HeadLevel(path[i]) < HeadLevel(k)}
           n == Max(T)
<1>1. Len(path) \in Nat /\ DOMAIN path = 1..Len(path)
  BY LenProperties
<1>2. T \subseteq Nat /\ T # {} /\ \A m \in T : m <= Len(path)
  BY <1>1
<1>3. n \in T /\ \A m \in T : m <= n
  <2> HIDE DEF T
  <2> QED
    BY <1>1, <1>2, NatMax
<1>4. Enclosing(path, k) = SubSeq(path, 1, n)
  BY DEF Enclosing
<1> HIDE DEF n
<1>5. n \in 0..Len(path) /\ (n > 0 => HeadLevel(path[n]) < HeadLevel(k))
  BY <1>1, <1>3
<1>6. \A i \in 1..Len(path) : HeadLevel(path[i]) < HeadLevel(k) => i <= n
  BY <1>1, <1>3
<1>7. /\ SubSeq(path, 1, n) \in Seq(Items) /\ Len(SubSeq(path, 1, n)) = n
      /\ \A i \in 1..n : i \in 1..Len(path) /\ SubSeq(path, 1, n)[i] = path[i]
  <2>1. CASE n = 0
    <3>1. SubSeq(path, 1, 0) = <<>>
      BY SubSeqEmpty
    <3> QED
      BY <2>1, <3>1
  <2>2. CASE n # 0
    <3>1. 1 \in 1..Len(path) /\ 1 <= n + 1 /\ n - 1 + 1 = n /\ \A i \in 1..n : i \in 1..Len(path) /\ 1 + i - 1 = i
      BY <1>1, <1>5, <2>2
    <3>2. /\ SubSeq(path, 1, n) \in Seq(Items) /\ Len(SubSeq(path, 1, n)) = n - 1 + 1
          /\ \A i \in 1..(n - 1 + 1) : SubSeq(path, 1, n)[i] = path[1 + i - 1]
      BY <1>5, <3>1, PartOf
    <3> QED
      BY <3>1, <3>2
  <2> QED
    BY <2>1, <2>2
<1> QED
  BY <1>4, <1>5, <1>6, <1>7 DEF n

LEMMA PushTyped ==
  ASSUME call.in \in QAInputs, NEW s \in PairState, NEW k \in Items
  PROVE  LET t == pushHeading(s, k)
         IN  /\ t \in PairState /\ t.answer = <<>> /\ t.fence = s.fence /\ t.pairs = QAFlush(s).pairs
             /\ t.question = Append(Enclosing(s.question, k), k)
<1> DEFINE f == QAFlush(s)
<1>1. f \in PairState /\ f.answer = <<>> /\ f.question = s.question /\ f.fence = s.fence
  BY QAFlushTyped
<1>2. pushHeading(s, k) = [f EXCEPT !.question = Append(Enclosing(f.question, k), k)]
  BY DEF pushHeading
<1> HIDE DEF f
<1>3. Enclosing(s.question, k) \in Seq(Items)
  BY PairParts, EnclosingIs
<1>4. Append(Enclosing(s.question, k), k) \in Seq(Items)
  BY <1>3, AppendProperties
<1>5. /\ pushHeading(s, k) \in PairState /\ pushHeading(s, k).answer = <<>> /\ pushHeading(s, k).fence = s.fence
      /\ pushHeading(s, k).pairs = f.pairs /\ pushHeading(s, k).question = Append(Enclosing(s.question, k), k)
  BY <1>1, <1>2, <1>4 DEF PairState
<1> QED
  BY <1>5 DEF f

LEMMA AnsweredTyped ==
  ASSUME call.in \in QAInputs, NEW s \in PairState, NEW k \in Items
  PROVE  LET t == Answered(s, k)
         IN  /\ t \in PairState /\ t.pairs = s.pairs /\ t.question = s.question /\ t.fence = s.fence
             /\ t.answer = IF s.question = <<>> THEN s.answer ELSE Append(s.answer, k)
<1>1. Append(s.answer, k) \in Seq(Items)
  BY PairParts, AppendProperties
<1>2. CASE s.question = <<>>
  BY <1>2 DEF Answered
<1>3. CASE s.question # <<>>
  <2> DEFINE t == Answered(s, k)
  <2>1. t = [s EXCEPT !.answer = Append(s.answer, k)]
    BY <1>3 DEF Answered
  <2> HIDE DEF t
  <2>2. t \in PairState /\ t.answer = Append(s.answer, k) /\ t.pairs = s.pairs /\ t.question = s.question /\ t.fence = s.fence
    BY <1>1, <2>1 DEF PairState
  <2> QED
    BY <1>3, <2>2 DEF t
<1> QED
  BY <1>2, <1>3

\* What an item does: it is passed over, it goes on with the answer, it
\* starts a question, or it is a row of a table, which is a pair or given up.
Passes(s, k, t) == t = s

Answers(s, k, t) ==
  /\ t \in PairState /\ t.pairs = s.pairs /\ t.question = s.question
  /\ t.answer = IF s.question = <<>> THEN s.answer ELSE Append(s.answer, k)

Heads(s, k, t) ==
  /\ t \in PairState /\ t.pairs = QAFlush(s).pairs /\ t.answer = <<>>
  /\ t.question = Append(Enclosing(s.question, k), k)

Asks(s, k, t) ==
  /\ t \in PairState /\ t.pairs = QAFlush(s).pairs /\ t.question = <<k>>
  /\ t.answer = IF call.in.from = "csv" THEN <<k>> ELSE <<>>

Tables(s, k, t) ==
  /\ t \in PairState /\ t.pairs = Append(QAFlush(s).pairs, [question |-> <<k>>, answer |-> <<k>>])
  /\ t.question = s.question /\ t.answer = <<>> /\ t.fence = s.fence

Drops(s, k, t) ==
  /\ t \in PairState /\ t.pairs = QAFlush(s).pairs
  /\ t.question = s.question /\ t.answer = <<>> /\ t.fence = s.fence

LEMMA HeadingItem ==
  ASSUME call.in \in QAInputs, HeadingMode, NEW s \in PairState, NEW k \in Items
  PROVE  LET t == ReadItem(s, k)
             fence == IF Item(k) = "fence" THEN ~s.fence ELSE s.fence
         IN  /\ t \in PairState /\ t.fence = fence
             /\ \/ Item(k) = "image" /\ Passes(s, k, t)
                \/ Item(k) = "row" /\ call.in.from = "docx" /\ Tables(s, k, t)
                \/ Item(k) = "short" /\ call.in.from = "docx" /\ Drops(s, k, t)
                \/ HeadLevel(k) > 0 /\ (IsTitle(k) \/ ~fence) /\ Heads(s, k, t)
                \/ /\ Item(k) # "image" /\ (InTable(k) => call.in.from # "docx")
                   /\ ~(HeadLevel(k) > 0 /\ (IsTitle(k) \/ ~fence)) /\ Answers(s, k, t)
<1> DEFINE fence == IF Item(k) = "fence" THEN ~s.fence ELSE s.fence
           u == IF Item(k) = "fence" THEN [s EXCEPT !.fence = ~@] ELSE s
<1>1. ReadItem(s, k) = qaPairsFromHeadingAtoms(s, k)
  BY DEF ReadItem, HeadingMode
<1>2. CASE Item(k) = "image"
  <2>1. ReadItem(s, k) = s
    BY <1>1, <1>2 DEF qaPairsFromHeadingAtoms, InTable
  <2> QED
    BY <1>2, <2>1 DEF Passes
<1>3. CASE Item(k) = "row" /\ call.in.from = "docx"
  <2> DEFINE f == QAFlush(s)
             p == [question |-> <<k>>, answer |-> <<k>>]
             t == ReadItem(s, k)
  <2>1. f \in PairState /\ f.answer = <<>> /\ f.question = s.question /\ f.fence = s.fence
    BY QAFlushTyped
  <2>2. t = [f EXCEPT !.pairs = Append(f.pairs, p)]
    <3>1. t = TableItem(s, k)
      BY <1>1, <1>3 DEF qaPairsFromHeadingAtoms, InTable
    <3> QED
      BY <1>3, <3>1 DEF TableItem
  <2>3. p \in AnyPair
    BY DEF AnyPair
  <2> HIDE DEF f, p, t
  <2>4. Append(f.pairs, p) \in Seq(AnyPair)
    BY <2>1, <2>3, AppendProperties DEF PairState
  <2>5. /\ t \in PairState /\ t.fence = s.fence /\ t.pairs = Append(f.pairs, p) /\ t.question = s.question
        /\ t.answer = <<>>
    BY <2>1, <2>2, <2>4 DEF PairState
  <2> QED
    BY <1>3, <2>5 DEF Tables, f, p, t
<1>6. CASE Item(k) = "short" /\ call.in.from = "docx"
  <2>1. ReadItem(s, k) = QAFlush(s)
    <3>1. ReadItem(s, k) = TableItem(s, k)
      BY <1>1, <1>6 DEF qaPairsFromHeadingAtoms, InTable
    <3> QED
      BY <1>6, <3>1 DEF TableItem
  <2> QED
    BY <1>6, <2>1, QAFlushTyped DEF Drops
<1>4. CASE InTable(k) /\ call.in.from # "docx"
  <2>1. ReadItem(s, k) = Answered(s, k)
    BY <1>1, <1>4 DEF qaPairsFromHeadingAtoms, TableItem, InTable
  <2>2. HeadLevel(k) = 0 /\ Item(k) \notin {"image", "fence"}
    BY <1>4 DEF HeadLevel, InTable
  <2> QED
    BY <1>4, <2>1, <2>2, AnsweredTyped DEF Answers
<1>5. CASE Item(k) \notin {"image", "row", "short"}
  <2>1. u \in PairState /\ u.fence = fence /\ u.pairs = s.pairs /\ u.question = s.question /\ u.answer = s.answer
    <3>1. CASE Item(k) = "fence"
      <4>1. (~s.fence) \in BOOLEAN
        BY PairParts
      <4>2. u = [s EXCEPT !.fence = ~s.fence]
        BY <3>1
      <4> HIDE DEF u
      <4>3. u \in PairState /\ u.fence = ~s.fence /\ u.pairs = s.pairs /\ u.question = s.question /\ u.answer = s.answer
        BY <4>1, <4>2 DEF PairState
      <4> QED
        BY <3>1, <4>3
    <3>2. CASE Item(k) # "fence"
      BY <3>2
    <3> QED
      BY <3>1, <3>2
  <2>2. ReadItem(s, k) =
          IF HeadLevel(k) > 0 /\ (IsTitle(k) \/ ~u.fence) THEN pushHeading(u, k) ELSE Answered(u, k)
    BY <1>1, <1>5 DEF qaPairsFromHeadingAtoms, TextItem, InTable
  <2>3. QAFlush(u).pairs = QAFlush(s).pairs
    <3> HIDE DEF u, fence
    <3>1. QAFlush(u).pairs = IF u.question # <<>> /\ Says(u.answer) THEN Append(u.pairs, Current(u)) ELSE u.pairs
      BY <2>1, QAFlushTyped
    <3>2. QAFlush(s).pairs = IF s.question # <<>> /\ Says(s.answer) THEN Append(s.pairs, Current(s)) ELSE s.pairs
      BY QAFlushTyped
    <3>3. Current(u) = Current(s)
      BY <2>1 DEF Current
    <3> QED
      BY <2>1, <3>1, <3>2, <3>3
  <2> HIDE DEF u, fence
  <2>4. CASE HeadLevel(k) > 0 /\ (IsTitle(k) \/ ~fence)
    <3>1. ReadItem(s, k) = pushHeading(u, k)
      BY <2>1, <2>2, <2>4
    <3>2. ReadItem(s, k) \in PairState /\ ReadItem(s, k).fence = fence /\ Heads(s, k, ReadItem(s, k))
      BY <2>1, <2>3, <3>1, PushTyped DEF Heads
    <3> QED
      BY <1>5, <2>4, <3>2 DEF fence
  <2>5. CASE ~(HeadLevel(k) > 0 /\ (IsTitle(k) \/ ~fence))
    <3>1. ReadItem(s, k) = Answered(u, k)
      BY <2>1, <2>2, <2>5
    <3>2. ReadItem(s, k) \in PairState /\ ReadItem(s, k).fence = fence /\ Answers(s, k, ReadItem(s, k))
      BY <2>1, <3>1, AnsweredTyped DEF Answers
    <3> QED
      BY <1>5, <2>5, <3>2 DEF fence, InTable
  <2> QED
    BY <2>4, <2>5
<1> QED
  BY <1>2, <1>3, <1>4, <1>5, <1>6 DEF InTable

LEMMA LinearItem ==
  ASSUME call.in \in QAInputs, ~HeadingMode, NEW s \in PairState, NEW k \in Items
  PROVE  LET t == ReadItem(s, k)
         IN  /\ t \in PairState
             /\ \/ Item(k) \in {"image", "row", "short", "blank", "label"} /\ Passes(s, k, t)
                \/ Starts(k) /\ Asks(s, k, t)
                \/ ~Starts(k) /\ Answers(s, k, t)
<1> DEFINE f == QAFlush(s)
           t == ReadItem(s, k)
<1>1. call.in.from \in {"pdf", "csv"}
  BY QAAssumption DEF HeadingMode
<1>2. f \in PairState /\ f.answer = <<>> /\ f.question = s.question /\ f.fence = s.fence
  BY QAFlushTyped
<1>3. <<k>> \in Seq(Items)
  OBVIOUS
<1> HIDE DEF f
<1>4. CASE call.in.from = "pdf"
  <2>1. t = qaPairsFromQuestionLines(s, k) /\ (Starts(k) <=> Item(k) = "question")
    BY <1>4 DEF ReadItem, Starts
  <2>2. CASE Item(k) \in {"image", "row", "short", "blank", "label"}
    <3>1. t = s
      BY <2>1, <2>2 DEF qaPairsFromQuestionLines
    <3> QED
      BY <2>2, <3>1 DEF Passes
  <2>3. CASE Item(k) = "question"
    <3>1. t = [f EXCEPT !.question = <<k>>]
      BY <2>1, <2>3 DEF qaPairsFromQuestionLines, f
    <3> HIDE DEF t
    <3>2. t \in PairState /\ t.question = <<k>> /\ t.pairs = f.pairs /\ t.answer = <<>>
      BY <1>2, <1>3, <3>1 DEF PairState
    <3> QED
      BY <1>4, <2>1, <2>3, <3>2 DEF Asks, f, t
  <2>4. CASE Item(k) \notin {"image", "row", "short", "blank", "label", "question"}
    <3>1. t = Answered(s, k)
      BY <2>1, <2>4 DEF qaPairsFromQuestionLines
    <3> QED
      BY <2>1, <2>4, <3>1, AnsweredTyped DEF Answers
  <2> QED
    BY <2>2, <2>3, <2>4
<1>5. CASE call.in.from = "csv"
  <2>1. t = parseQADelimited(s, k) /\ (Starts(k) <=> Item(k) \in {"pair", "half"})
    BY <1>5 DEF ReadItem, Starts
  <2>2. CASE Item(k) = "blank"
    <3>1. t = s
      BY <2>1, <2>2 DEF parseQADelimited
    <3> QED
      BY <2>2, <3>1 DEF Passes
  <2>3. CASE Item(k) \in {"pair", "half"}
    <3> DEFINE g == [f EXCEPT !.question = <<k>>]
    <3>1. t = [f EXCEPT !.question = <<k>>, !.answer = <<k>>]
      BY <2>1, <2>3 DEF parseQADelimited, f
    <3>2. t = [g EXCEPT !.answer = <<k>>]
      BY <3>1
    <3>3. g \in PairState /\ g.question = <<k>> /\ g.pairs = f.pairs
      BY <1>2, <1>3 DEF PairState
    <3> HIDE DEF t, g
    <3>4. t \in PairState /\ t.question = <<k>> /\ t.pairs = f.pairs /\ t.answer = <<k>>
      BY <1>3, <3>2, <3>3 DEF PairState
    <3> QED
      BY <1>5, <2>1, <2>3, <3>4 DEF Asks, f, t
  <2>4. CASE Item(k) \notin {"pair", "half", "blank"}
    <3>1. t = Answered(s, k)
      BY <2>1, <2>4 DEF parseQADelimited
    <3> QED
      BY <2>1, <2>4, <3>1, AnsweredTyped DEF Answers
  <2> QED
    BY <2>2, <2>3, <2>4
<1> QED
  BY <1>1, <1>4, <1>5

LEMMA ReadItemTyped ==
  ASSUME call.in \in QAInputs, NEW s \in PairState, NEW k \in Items
  PROVE  ReadItem(s, k) \in PairState
  BY HeadingItem, LinearItem

PairsRead == FoldLeft(ReadItem, QABegin, ItemNumbers)

LEMMA QABeginTyped ==
  ASSUME call.in \in QAInputs
  PROVE  QABegin \in PairState
<1>1. <<>> \in Seq(AnyPair) /\ <<>> \in Seq(Items)
  OBVIOUS
<1> QED
  BY <1>1 DEF QABegin, PairState

PairCourse(F, numbers) ==
  /\ F[0] = QABegin /\ F[Len(numbers)] \in PairState
  /\ \A k \in 1..Len(numbers) :
       F[k] \in PairState /\ F[k - 1] \in PairState /\ F[k] = ReadItem(F[k - 1], numbers[k])

LEMMA PairFold ==
  ASSUME call.in \in QAInputs
  PROVE  \E F : PairCourse(F, ItemNumbers) /\ PairsRead = F[Len(ItemNumbers)]
<1> DEFINE n == Len(ItemNumbers)
           X == PairState
           step == [p \in X \X (1..n) |-> ReadItem(p[1], ItemNumbers[p[2]])]
           Folds(it) == it = [s \in SUBSET (DOMAIN ItemNumbers) |->
                                IF s = {} THEN QABegin ELSE ReadItem(it[s \ {Max(s)}], ItemNumbers[Max(s)])]
           it == CHOOSE it : Folds(it)
<1>1. n \in Nat /\ DOMAIN ItemNumbers = 1..n /\ QABegin \in X
  BY ItemsCounted, QABeginTyped
<1>2. ASSUME NEW p \in X, NEW k \in 1..n
      PROVE  <<p, k>> \in X \X (1..n) /\ step[<<p, k>>] = ReadItem(p, ItemNumbers[k])
             /\ ReadItem(p, ItemNumbers[k]) \in X
  <2>1. ReadItem(p, ItemNumbers[k]) \in X
    BY <1>1, ReadItemTyped, ItemsCounted
  <2>2. <<p, k>> \in X \X (1..n) /\ <<p, k>>[1] = p /\ <<p, k>>[2] = k
    OBVIOUS
  <2> HIDE DEF X, n
  <2> QED
    BY <2>1, <2>2
<1>3. step \in [X \X (1..n) -> X]
  <2>1. ASSUME NEW p \in X \X (1..n)
        PROVE  ReadItem(p[1], ItemNumbers[p[2]]) \in X
    <3>1. p[1] \in X /\ p[2] \in 1..n
      OBVIOUS
    <3> HIDE DEF X
    <3> QED
      BY <1>2, <3>1
  <2> QED
    BY <2>1
<1>4. PairsRead = it[1..n]
  <2>1. PairsRead = it[DOMAIN ItemNumbers]
    BY DEF PairsRead, FoldLeft, MapThenFoldSet
  <2> HIDE DEF it
  <2> QED
    BY <1>1, <2>1
<1> HIDE DEF step, n, X
<1>5. PICK g : FoldsSets(g, n, X, QABegin, step)
  BY <1>1, <1>3, FoldRecursion
<1>6. ASSUME NEW s \in SUBSET (1..n), s # {}
      PROVE  Max(s) \in 1..n /\ s \ {Max(s)} \in SUBSET (1..n)
  <2>1. s \subseteq Nat /\ \A x \in s : x <= n
    BY <1>1
  <2>2. Max(s) \in s
    BY <1>1, <1>6, <2>1, NatMax
  <2> QED
    BY <2>2
<1>7. Folds(g)
  <2>1. ASSUME NEW s \in SUBSET (1..n)
        PROVE  g[s] = IF s = {} THEN QABegin ELSE ReadItem(g[s \ {Max(s)}], ItemNumbers[Max(s)])
    <3>1. CASE s = {}
      BY <1>5, <3>1 DEF FoldsSets
    <3>2. CASE s # {}
      <4>1. Max(s) \in 1..n /\ g[s \ {Max(s)}] \in X
        BY <1>5, <1>6, <3>2 DEF FoldsSets
      <4>2. g[s] = step[<<g[s \ {Max(s)}], Max(s)>>]
        BY <1>5, <3>2 DEF FoldsSets
      <4>3. step[<<g[s \ {Max(s)}], Max(s)>>] = ReadItem(g[s \ {Max(s)}], ItemNumbers[Max(s)])
        BY <1>2, <4>1
      <4> QED
        BY <3>2, <4>2, <4>3
    <3> QED
      BY <3>1, <3>2
  <2>2. g \in [SUBSET (1..n) -> X]
    BY <1>5 DEF FoldsSets
  <2> QED
    BY <1>1, <2>1, <2>2
<1>8. Folds(it)
  <2> HIDE DEF Folds
  <2> QED
    BY <1>7
<1>9. \A s \in SUBSET (1..n) :
         it[s] = IF s = {} THEN QABegin ELSE ReadItem(it[s \ {Max(s)}], ItemNumbers[Max(s)])
  <2> HIDE DEF it
  <2> QED
    BY <1>1, <1>8
<1> HIDE DEF it, Folds
<1>10. SolvesFold(it, n, X, QABegin, step)
  <2>1. {} \in SUBSET (1..n)
    OBVIOUS
  <2>2. ASSUME NEW s \in SUBSET (1..n), s # {}, it[s \ {Max(s)}] \in X
        PROVE  it[s] = step[<<it[s \ {Max(s)}], Max(s)>>]
    <3>1. Max(s) \in 1..n
      BY <1>6, <2>2
    <3>2. it[s] = ReadItem(it[s \ {Max(s)}], ItemNumbers[Max(s)])
      BY <1>9, <2>2
    <3>3. step[<<it[s \ {Max(s)}], Max(s)>>] = ReadItem(it[s \ {Max(s)}], ItemNumbers[Max(s)])
      BY <1>2, <2>2, <3>1
    <3> QED
      BY <3>2, <3>3
  <2> QED
    BY <1>9, <2>1, <2>2 DEF SolvesFold
<1>11. PICK F : FoldsUp(F, it, n, X, QABegin, step)
  BY <1>1, <1>3, <1>10, FoldCourse
<1>12. ASSUME NEW k \in 1..n
       PROVE  F[k] \in X /\ F[k - 1] \in X /\ F[k] = ReadItem(F[k - 1], ItemNumbers[k])
  <2>1. F[k] = step[<<F[k - 1], k>>] /\ F[k - 1] \in X /\ F[k] \in X
    BY <1>11 DEF FoldsUp
  <2>2. F[k] = ReadItem(F[k - 1], ItemNumbers[k])
    BY <1>2, <2>1
  <2> QED
    BY <2>1, <2>2
<1>13. F[0] = QABegin /\ F[n] = it[1..n] /\ F[n] \in X
  <2>1. n \in 0..n
    BY <1>1
  <2> QED
    BY <1>11, <2>1 DEF FoldsUp
<1> QED
  BY <1>4, <1>12, <1>13 DEF PairCourse, n, X

\* Where questions start.
Started(k) == \E j \in 1..k : Starts(j)

HeadPath(k) ==
  {h \in 1..k : Starts(h) /\ \A g \in (h + 1)..k : Starts(g) => HeadLevel(g) > HeadLevel(h)}

\* What the question of item k consists of.
Path(k) == IF Started(k) THEN Above(k) ELSE {}

LEMMA HeadLevelIs ==
  ASSUME NEW k
  PROVE  HeadLevel(k) \in 0..3 /\ (HeadLevel(k) > 0 <=> Item(k) \in {"h1", "h2", "h3", "t1", "t2", "t3"})
  BY DEF HeadLevel

\* A fence opens or closes a code block.
LEMMA FencedStep ==
  ASSUME call.in \in QAInputs, NEW k \in 1..Size
  PROVE  /\ Fenced(k) \in BOOLEAN
         /\ Item(k) = "fence" => (Fenced(k) <=> ~Fenced(k - 1))
         /\ Item(k) # "fence" => (Fenced(k) <=> Fenced(k - 1))
<1> DEFINE S(n) == {j \in 1..n : Item(j) = "fence"}
<1>1. Size \in Nat
  BY ItemsCounted
<1>2. IsFiniteSet(S(k - 1)) /\ Cardinality(S(k - 1)) \in Nat
  <2>1. IsFiniteSet(1..(k - 1)) /\ S(k - 1) \subseteq 1..(k - 1)
    BY <1>1, FS_Interval
  <2> QED
    BY <2>1, FS_Subset, FS_CardinalityType
<1>3. CASE Item(k) = "fence"
  <2>1. S(k) = S(k - 1) \cup {k} /\ k \notin S(k - 1)
    BY <1>1, <1>3
  <2>2. Cardinality(S(k)) = Cardinality(S(k - 1)) + 1
    BY <1>2, <2>1, FS_AddElement
  <2> QED
    BY <1>2, <1>3, <2>2 DEF Fenced
<1>4. CASE Item(k) # "fence"
  <2>1. S(k) = S(k - 1)
    BY <1>1, <1>4
  <2> QED
    BY <1>4, <2>1 DEF Fenced
<1> QED
  BY <1>3, <1>4 DEF Fenced

LEMMA FencedFirst ==
  ~Fenced(0)
<1>1. {j \in 1..0 : Item(j) = "fence"} = {}
  OBVIOUS
<1> QED
  BY <1>1, FS_EmptySet DEF Fenced

LEMMA PathForm ==
  ASSUME call.in \in QAInputs, HeadingMode, NEW k \in 0..Size
  PROVE  Path(k) = HeadPath(k)
<1>1. Started(k) => Path(k) = HeadPath(k)
  BY DEF Path, Above, HeadPath, HeadingMode
<1>2. ~Started(k) => Path(k) = {} /\ HeadPath(k) = {}
  BY DEF Path, HeadPath, Started
<1> QED
  BY <1>1, <1>2

\* What starts no question stands under the same one as the item before.
LEMMA PathStays ==
  ASSUME call.in \in QAInputs, NEW k \in 1..Size, ~Starts(k)
  PROVE  Path(k) = Path(k - 1) /\ (Started(k) <=> Started(k - 1))
<1>1. Size \in Nat /\ k \in Nat /\ k - 1 \in 0..Size /\ k \in 0..Size
  BY ItemsCounted
<1>2. Started(k) <=> Started(k - 1)
  BY <1>1 DEF Started
<1>3. CASE HeadingMode
  <2>1. \A h \in 1..k : h \in HeadPath(k) <=> h \in HeadPath(k - 1)
    BY <1>1 DEF HeadPath
  <2>2. HeadPath(k) \subseteq 1..k /\ HeadPath(k - 1) \subseteq 1..k
    BY <1>1 DEF HeadPath
  <2>3. HeadPath(k) = HeadPath(k - 1)
    BY <2>1, <2>2
  <2> QED
    BY <1>1, <1>2, <1>3, <2>3, PathForm
<1>4. CASE ~HeadingMode
  <2>1. {j \in 1..k : Starts(j)} = {j \in 1..(k - 1) : Starts(j)}
    BY <1>1
  <2>2. QuestionOf(k) = QuestionOf(k - 1)
    BY <2>1 DEF QuestionOf
  <2> QED
    BY <1>2, <1>4, <2>2 DEF Path, Above, HeadingMode
<1> QED
  BY <1>2, <1>3, <1>4

\* A heading leaves those above it on the path and joins them.
LEMMA PathGoesDown ==
  ASSUME call.in \in QAInputs, HeadingMode, NEW k \in 1..Size, Starts(k)
  PROVE  \A h : h \in Path(k) <=> h = k \/ (h \in Path(k - 1) /\ HeadLevel(h) < HeadLevel(k))
<1>1. Size \in Nat /\ k \in Nat /\ k - 1 \in 0..Size /\ k \in 0..Size
  BY ItemsCounted
<1>2. Path(k) = HeadPath(k) /\ Path(k - 1) = HeadPath(k - 1)
  BY <1>1, PathForm
<1>3. k \in HeadPath(k) /\ k \notin HeadPath(k - 1)
  BY <1>1 DEF HeadPath
<1>4. HeadLevel(k) \in Nat
  BY HeadLevelIs
<1>5. ASSUME NEW h \in 1..(k - 1)
      PROVE  h \in HeadPath(k) <=> h \in HeadPath(k - 1) /\ HeadLevel(h) < HeadLevel(k)
  <2>1. HeadLevel(h) \in Nat /\ h \in 1..k
    BY <1>1, HeadLevelIs
  <2>2. ASSUME h \in HeadPath(k)
        PROVE  h \in HeadPath(k - 1) /\ HeadLevel(h) < HeadLevel(k)
    BY <1>1, <1>4, <2>1, <2>2 DEF HeadPath
  <2>3. ASSUME h \in HeadPath(k - 1), HeadLevel(h) < HeadLevel(k)
        PROVE  h \in HeadPath(k)
    BY <1>1, <1>4, <2>1, <2>3 DEF HeadPath
  <2> QED
    BY <2>2, <2>3
<1>6. HeadPath(k) \subseteq 1..k /\ HeadPath(k - 1) \subseteq 1..(k - 1)
  BY DEF HeadPath
<1>7. 1..k = 1..(k - 1) \cup {k}
  BY <1>1
<1> QED
  BY <1>2, <1>3, <1>5, <1>6, <1>7

LEMMA PathIsQuestion ==
  ASSUME call.in \in QAInputs, ~HeadingMode, NEW k \in 1..Size, Starts(k)
  PROVE  Path(k) = {k} /\ Above(k) = {k} /\ Started(k)
<1> DEFINE T == {j \in 1..k : Starts(j)}
<1>1. k \in Nat /\ k \in T /\ T \subseteq Nat /\ T # {} /\ \A m \in T : m <= k
  BY ItemsCounted
<1>2. Max(T) \in T /\ \A m \in T : m <= Max(T)
  <2> HIDE DEF T
  <2> QED
    BY <1>1, NatMax
<1>3. Max(T) = k
  <2>1. Max(T) \in Nat /\ Max(T) <= k /\ k <= Max(T)
    BY <1>1, <1>2
  <2> QED
    BY <1>1, <2>1
<1>4. QuestionOf(k) = k
  BY <1>3 DEF QuestionOf
<1>5. Started(k)
  BY <1>1 DEF Started
<1> QED
  BY <1>4, <1>5 DEF Path, Above, HeadingMode

LEMMA PathEmpty ==
  ASSUME call.in \in QAInputs, NEW k \in 0..Size
  PROVE  Path(k) = {} <=> ~Started(k)
<1>1. ~Started(k) => Path(k) = {}
  BY DEF Path
<1>2. ASSUME Started(k)
      PROVE  Path(k) # {}
  <2> DEFINE T == {j \in 1..k : Starts(j)}
  <2>1. k \in Nat /\ T \subseteq Nat /\ T # {} /\ \A m \in T : m <= k
    BY <1>2, ItemsCounted DEF Started
  <2>2. Max(T) \in T /\ \A m \in T : m <= Max(T)
    <3> HIDE DEF T
    <3> QED
      BY <2>1, NatMax
  <2>3. CASE HeadingMode
    <3>1. Max(T) \in 1..k /\ Starts(Max(T)) /\ \A g \in (Max(T) + 1)..k : ~Starts(g)
      <4>1. Max(T) \in 1..k /\ Starts(Max(T))
        BY <2>2
      <4>2. ASSUME NEW g \in (Max(T) + 1)..k, Starts(g)
            PROVE  FALSE
        <5>1. g \in T /\ g > Max(T) /\ Max(T) \in Nat /\ g \in Nat
          BY <2>1, <4>1, <4>2
        <5> QED
          BY <2>2, <5>1
      <4> QED
        BY <4>1, <4>2
    <3> HIDE DEF T
    <3>2. Max(T) \in HeadPath(k)
      BY <3>1 DEF HeadPath
    <3> QED
      BY <2>3, <3>2, PathForm
  <2>4. CASE ~HeadingMode
    BY <1>2, <2>4 DEF Path, Above, HeadingMode
  <2> QED
    BY <2>3, <2>4
<1> QED
  BY <1>1, <1>2

\* A path of headings goes down level by level.
GoesDown(q) == \A i, j \in 1..Len(q) : i < j => HeadLevel(q[i]) < HeadLevel(q[j])

LEMMA EnclosingStands ==
  ASSUME call.in \in QAInputs, NEW path \in Seq(Items), NEW k \in Items, GoesDown(path)
  PROVE  LET q == Append(Enclosing(path, k), k)
         IN  /\ q \in Seq(Items) /\ GoesDown(q) /\ q # <<>>
             /\ \A h : h \in ToSet(q) <=> h = k \/ (h \in ToSet(path) /\ HeadLevel(h) < HeadLevel(k))
<1> DEFINE e == Enclosing(path, k)
           q == Append(e, k)
<1>1. PICK n \in 0..Len(path) :
        /\ \A i \in 1..Len(path) : HeadLevel(path[i]) < HeadLevel(k) => i <= n
        /\ n > 0 => HeadLevel(path[n]) < HeadLevel(k)
        /\ e \in Seq(Items) /\ Len(e) = n
        /\ \A i \in 1..n : i \in 1..Len(path) /\ e[i] = path[i]
  BY EnclosingIs
<1>2. Len(path) \in Nat /\ HeadLevel(k) \in Nat /\ \A i \in 1..Len(path) : HeadLevel(path[i]) \in Nat
  BY LenProperties, HeadLevelIs
<1> HIDE DEF e
<1>3. /\ q \in Seq(Items) /\ q # <<>> /\ Len(q) = n + 1 /\ q[n + 1] = k
      /\ \A y : y \in ToSet(q) <=> y \in ToSet(e) \/ y = k
      /\ \A i \in 1..n : q[i] = e[i]
  BY <1>1, AppendIs
<1>4. \A i \in 1..n : HeadLevel(path[i]) < HeadLevel(k)
  <2>1. ASSUME NEW i \in 1..n
        PROVE  HeadLevel(path[i]) < HeadLevel(k)
    <3>1. n \in 1..Len(path) /\ i \in 1..Len(path) /\ HeadLevel(path[n]) < HeadLevel(k) /\ i <= n
      BY <1>1, <1>2
    <3>2. i < n => HeadLevel(path[i]) < HeadLevel(path[n])
      BY <3>1 DEF GoesDown
    <3>3. HeadLevel(path[i]) \in Nat /\ HeadLevel(path[n]) \in Nat
      BY <1>2, <3>1
    <3>4. CASE i = n
      BY <3>1, <3>4
    <3>5. CASE i < n
      BY <1>2, <3>1, <3>2, <3>3, <3>5
    <3> QED
      BY <1>2, <3>1, <3>4, <3>5
  <2> QED
    BY <2>1
<1>5. \A y : y \in ToSet(path) <=> \E i \in 1..Len(path) : path[i] = y
  BY ToSetOf
<1>6. \A y : y \in ToSet(e) <=> \E i \in 1..n : e[i] = y
  <2>1. \A y : y \in ToSet(e) <=> \E i \in 1..Len(e) : e[i] = y
    BY <1>1, ToSetOf
  <2> QED
    BY <1>1, <2>1
<1>7. ASSUME NEW h
      PROVE  h \in ToSet(e) <=> h \in ToSet(path) /\ HeadLevel(h) < HeadLevel(k)
  <2>1. ASSUME h \in ToSet(e)
        PROVE  h \in ToSet(path) /\ HeadLevel(h) < HeadLevel(k)
    <3>1. PICK i \in 1..n : e[i] = h
      BY <1>6, <2>1
    <3>2. i \in 1..Len(path) /\ path[i] = h
      BY <1>1, <3>1
    <3> QED
      BY <1>4, <1>5, <3>2
  <2>2. ASSUME h \in ToSet(path), HeadLevel(h) < HeadLevel(k)
        PROVE  h \in ToSet(e)
    <3>1. PICK i \in 1..Len(path) : path[i] = h
      BY <1>5, <2>2
    <3>2. i \in 1..n
      BY <1>1, <1>2, <2>2, <3>1
    <3>3. e[i] = h
      BY <1>1, <3>1, <3>2
    <3> QED
      BY <1>6, <3>2, <3>3
  <2> QED
    BY <2>1, <2>2
<1>8. GoesDown(q)
  <2>1. ASSUME NEW i \in 1..(n + 1), NEW j \in 1..(n + 1), i < j
        PROVE  HeadLevel(q[i]) < HeadLevel(q[j])
    <3>1. i \in 1..n /\ q[i] = path[i] /\ i \in 1..Len(path)
      <4>1. i \in 1..n
        BY <2>1
      <4> QED
        BY <1>1, <1>3, <4>1
    <3>2. CASE j = n + 1
      BY <1>3, <1>4, <3>1, <3>2
    <3>3. CASE j # n + 1
      <4>1. j \in 1..n
        BY <3>3
      <4>2. q[j] = path[j] /\ j \in 1..Len(path)
        BY <1>1, <1>3, <4>1
      <4> QED
        BY <2>1, <3>1, <4>2 DEF GoesDown
    <3> QED
      BY <3>2, <3>3
  <2> HIDE DEF q
  <2> QED
    BY <1>3, <2>1 DEF GoesDown
<1>9. \A h : h \in ToSet(q) <=> h = k \/ (h \in ToSet(path) /\ HeadLevel(h) < HeadLevel(k))
  BY <1>3, <1>7
<1> QED
  BY <1>3, <1>8, <1>9 DEF e

\* The question being read is what item k would be an answer to.
QuestionStands(s, k) ==
  /\ \A x : x \in ToSet(s.question) <=> x \in Path(k)
  /\ HeadingMode => (s.fence <=> Fenced(k)) /\ GoesDown(s.question)

LEMMA NoQuestion ==
  ASSUME call.in \in QAInputs, NEW s \in PairState, NEW k \in 0..Size, QuestionStands(s, k)
  PROVE  s.question = <<>> <=> ~Started(k)
<1>1. s.question \in Seq(Items)
  BY PairParts
<1>2. s.question = <<>> <=> ToSet(s.question) = {}
  <2>1. ASSUME s.question = <<>>
        PROVE  ToSet(s.question) = {}
    BY <2>1 DEF ToSet
  <2>2. ASSUME s.question # <<>>
        PROVE  ToSet(s.question) # {}
    <3>1. 1 \in 1..Len(s.question)
      BY <1>1, <2>2, LenProperties, EmptySeq
    <3>2. s.question[1] \in ToSet(s.question)
      BY <1>1, <3>1, ToSetOf
    <3> QED
      BY <3>2
  <2> QED
    BY <2>1, <2>2
<1>3. ToSet(s.question) = {} <=> Path(k) = {}
  BY DEF QuestionStands
<1> QED
  BY <1>2, <1>3, PathEmpty

LEMMA QuestionFirst ==
  ASSUME call.in \in QAInputs
  PROVE  QuestionStands(QABegin, 0)
<1>1. QABegin.question = <<>> /\ QABegin.fence = FALSE
  BY DEF QABegin
<1>2. ToSet(<<>>) = {} /\ GoesDown(<<>>)
  BY DEF ToSet, GoesDown
<1>3. Path(0) = {}
  BY DEF Path, Started
<1> QED
  BY <1>1, <1>2, <1>3, FencedFirst DEF QuestionStands

\* An item that must be in an answer.
Matters(k) ==
  /\ Started(k)
  /\ ~Starts(k) \/ Item(k) = "pair"
  /\ Item(k) \notin {"blank", "label", "image"}
  /\ InTable(k) => call.in.from # "pdf"
  /\ Item(k) = "short" => call.in.from # "docx"

\* What becomes of an item.
Taken(s, k, t) ==
  \/ Passes(s, k, t) /\ ~Starts(k) /\ ~Matters(k)
  \/ Tables(s, k, t) /\ ~Starts(k) /\ call.in.from = "docx" /\ Item(k) = "row"
  \/ Drops(s, k, t) /\ ~Starts(k) /\ ~Matters(k)
  \/ Heads(s, k, t) /\ Starts(k) /\ HeadingMode
  \/ Asks(s, k, t) /\ Starts(k) /\ ~HeadingMode
  \/ Answers(s, k, t) /\ ~Starts(k)

LEMMA ItemTaken ==
  ASSUME call.in \in QAInputs, NEW s \in PairState, NEW k \in 1..Size, QuestionStands(s, k - 1)
  PROVE  /\ ReadItem(s, k) \in PairState /\ Taken(s, k, ReadItem(s, k))
         /\ HeadingMode => (ReadItem(s, k).fence <=> Fenced(k))
<1> DEFINE t == ReadItem(s, k)
<1>1. k \in Items /\ k - 1 \in 0..Size /\ Item(k) \in ItemKinds(call.in.from)
  BY ItemsCounted
<1>2. CASE HeadingMode
  <2> DEFINE fence == IF Item(k) = "fence" THEN ~s.fence ELSE s.fence
  <2>1. /\ t \in PairState /\ t.fence = fence
        /\ \/ Item(k) = "image" /\ Passes(s, k, t)
           \/ Item(k) = "row" /\ call.in.from = "docx" /\ Tables(s, k, t)
           \/ Item(k) = "short" /\ call.in.from = "docx" /\ Drops(s, k, t)
           \/ HeadLevel(k) > 0 /\ (IsTitle(k) \/ ~fence) /\ Heads(s, k, t)
           \/ /\ Item(k) # "image" /\ (InTable(k) => call.in.from # "docx")
              /\ ~(HeadLevel(k) > 0 /\ (IsTitle(k) \/ ~fence)) /\ Answers(s, k, t)
    BY <1>1, <1>2, HeadingItem
  <2>2. t.fence <=> Fenced(k)
    <3>1. (s.fence <=> Fenced(k - 1)) /\ s.fence \in BOOLEAN
      BY <1>2, PairParts DEF QuestionStands
    <3>2. fence <=> Fenced(k)
      BY <3>1, FencedStep
    <3> QED
      BY <2>1, <3>2
  <2>3. Starts(k) <=> HeadLevel(k) > 0 /\ (IsTitle(k) \/ ~fence)
    BY <1>2, <2>1, <2>2 DEF Starts, HeadingMode
  <2>4. Item(k) \in {"image", "row", "short"} => ~Starts(k)
    BY <2>3, HeadLevelIs
  <2>5. Item(k) = "image" \/ (Item(k) = "short" /\ call.in.from = "docx") => ~Matters(k)
    BY DEF Matters
  <2> HIDE DEF fence, t
  <2>6. Taken(s, k, t)
    BY <1>2, <2>1, <2>3, <2>4, <2>5 DEF Taken
  <2> QED
    BY <2>1, <2>2, <2>6 DEF t
<1>3. CASE ~HeadingMode
  <2>1. /\ t \in PairState
        /\ \/ Item(k) \in {"image", "row", "short", "blank", "label"} /\ Passes(s, k, t)
           \/ Starts(k) /\ Asks(s, k, t)
           \/ ~Starts(k) /\ Answers(s, k, t)
    BY <1>1, <1>3, LinearItem
  <2>2. call.in.from \in {"pdf", "csv"}
    BY <1>3, QAAssumption DEF HeadingMode
  <2>3. Item(k) \in {"image", "row", "short", "blank", "label"} => ~Starts(k) /\ ~Matters(k)
    BY <1>1, <2>2 DEF Starts, Matters, ItemKinds, InTable
  <2> HIDE DEF t
  <2>4. Taken(s, k, t)
    BY <1>3, <2>1, <2>3 DEF Taken
  <2> QED
    BY <1>3, <2>1, <2>4 DEF t
<1> QED
  BY <1>2, <1>3

LEMMA QuestionStep ==
  ASSUME call.in \in QAInputs, NEW s \in PairState, NEW k \in 1..Size, QuestionStands(s, k - 1)
  PROVE  QuestionStands(ReadItem(s, k), k)
<1> DEFINE t == ReadItem(s, k)
<1>1. k \in Items /\ k - 1 \in 0..Size
  BY ItemsCounted
<1>2. t \in PairState /\ Taken(s, k, t) /\ (HeadingMode => (t.fence <=> Fenced(k)))
  BY ItemTaken
<1>3. HeadingMode => GoesDown(s.question) /\ s.question \in Seq(Items)
  BY PairParts DEF QuestionStands
<1> HIDE DEF t
<1>4. CASE t.question = s.question /\ ~Starts(k)
  <2>1. Path(k) = Path(k - 1)
    BY <1>4, PathStays
  <2> QED
    BY <1>2, <1>3, <1>4, <2>1 DEF QuestionStands, t
<1>5. CASE Heads(s, k, t) /\ Starts(k) /\ HeadingMode
  <2>1. t.question = Append(Enclosing(s.question, k), k)
    BY <1>5 DEF Heads
  <2>2. /\ GoesDown(t.question)
        /\ \A h : h \in ToSet(t.question) <=> h = k \/ (h \in ToSet(s.question) /\ HeadLevel(h) < HeadLevel(k))
    BY <1>1, <1>3, <1>5, <2>1, EnclosingStands
  <2>3. \A h : h \in Path(k) <=> h = k \/ (h \in Path(k - 1) /\ HeadLevel(h) < HeadLevel(k))
    BY <1>5, PathGoesDown
  <2>4. \A h : h \in ToSet(t.question) <=> h \in Path(k)
    BY <2>2, <2>3 DEF QuestionStands
  <2> QED
    BY <1>2, <2>2, <2>4 DEF QuestionStands, t
<1>6. CASE Asks(s, k, t) /\ Starts(k) /\ ~HeadingMode
  <2>1. t.question = <<k>>
    BY <1>6 DEF Asks
  <2>2. \A x : x \in ToSet(t.question) <=> x = k
    BY <1>1, <2>1, SingleIs
  <2>3. Path(k) = {k}
    BY <1>6, PathIsQuestion
  <2> QED
    BY <1>6, <2>2, <2>3 DEF QuestionStands, t
<1>7. \/ t.question = s.question /\ ~Starts(k)
      \/ Heads(s, k, t) /\ Starts(k) /\ HeadingMode
      \/ Asks(s, k, t) /\ Starts(k) /\ ~HeadingMode
  BY <1>2 DEF Taken, Passes, Tables, Drops, Answers
<1> QED
  BY <1>4, <1>5, <1>6, <1>7

-----------------------------------------------------------------------------
(* Answers are filed under their questions.                                *)

\* Every item of an answer stands under the question of its pair.
Filed(q, a) == \A x \in ToSet(a) : ToSet(q) = Above(x)

PairsFiled(pairs) == \A i \in 1..Len(pairs) : ~Tabular(pairs[i]) => Filed(pairs[i].question, pairs[i].answer)

AnswersFiled(s) == PairsFiled(s.pairs) /\ Filed(s.question, s.answer)

LEMMA PairsFiledAppend ==
  ASSUME NEW pairs \in Seq(AnyPair), NEW p \in AnyPair, PairsFiled(pairs),
         Tabular(p) \/ Filed(p.question, p.answer)
  PROVE  PairsFiled(Append(pairs, p))
<1> DEFINE u == Append(pairs, p)
<1>1. /\ Len(u) = Len(pairs) + 1 /\ Len(pairs) \in Nat /\ u[Len(pairs) + 1] = p
      /\ \A i \in 1..Len(pairs) : u[i] = pairs[i]
  BY AppendIs
<1> HIDE DEF u
<1>2. ASSUME NEW i \in 1..Len(u), ~Tabular(u[i])
      PROVE  Filed(u[i].question, u[i].answer)
  <2>1. i \in 1..Len(pairs) \/ i = Len(pairs) + 1
    BY <1>1
  <2>2. CASE i = Len(pairs) + 1
    <3>1. u[i] = p
      BY <1>1, <2>2
    <3> QED
      BY <1>2, <3>1
  <2>3. CASE i \in 1..Len(pairs)
    <3>1. u[i] = pairs[i]
      BY <1>1, <2>3
    <3> QED
      BY <1>2, <2>3, <3>1 DEF PairsFiled
  <2> QED
    BY <2>1, <2>2, <2>3
<1> QED
  BY <1>2 DEF PairsFiled, u

LEMMA CurrentTyped ==
  ASSUME call.in \in QAInputs, NEW s \in PairState
  PROVE  Current(s) \in AnyPair /\ Current(s).question = s.question /\ Current(s).answer = s.answer
  BY DEF Current, AnyPair, PairState

LEMMA FlushFiled ==
  ASSUME call.in \in QAInputs, NEW s \in PairState, AnswersFiled(s)
  PROVE  PairsFiled(QAFlush(s).pairs)
<1>1. QAFlush(s).pairs = IF s.question # <<>> /\ Says(s.answer) THEN Append(s.pairs, Current(s)) ELSE s.pairs
  BY QAFlushTyped
<1>2. PairsFiled(s.pairs) /\ s.pairs \in Seq(AnyPair)
  BY PairParts DEF AnswersFiled
<1>3. Filed(Current(s).question, Current(s).answer) /\ Current(s) \in AnyPair
  BY CurrentTyped DEF AnswersFiled
<1>4. PairsFiled(Append(s.pairs, Current(s)))
  BY <1>2, <1>3, PairsFiledAppend
<1> QED
  BY <1>1, <1>2, <1>4

LEMMA FiledStep ==
  ASSUME call.in \in QAInputs, NEW s \in PairState, NEW k \in 1..Size, QuestionStands(s, k - 1),
         AnswersFiled(s)
  PROVE  AnswersFiled(ReadItem(s, k))
<1> DEFINE t == ReadItem(s, k)
<1>1. k \in Items /\ k - 1 \in 0..Size /\ k \in 0..Size
  BY ItemsCounted
<1>2. t \in PairState /\ Taken(s, k, t) /\ QuestionStands(t, k)
  BY ItemTaken, QuestionStep
<1>3. PairsFiled(QAFlush(s).pairs) /\ PairsFiled(s.pairs) /\ Filed(s.question, s.answer)
  BY FlushFiled DEF AnswersFiled
<1>4. \A q : Filed(q, <<>>)
  BY DEF Filed, ToSet
<1> HIDE DEF t
<1>5. CASE Passes(s, k, t)
  BY <1>3, <1>5 DEF Passes, AnswersFiled, t
<1>6. CASE Tables(s, k, t) /\ call.in.from = "docx" /\ Item(k) = "row"
  <2> DEFINE p == [question |-> <<k>>, answer |-> <<k>>]
  <2>1. p \in AnyPair /\ p.question[1] = k
    BY <1>1 DEF AnyPair
  <2>2. Tabular(p)
    BY <1>6, <2>1 DEF Tabular
  <2>3. QAFlush(s).pairs \in Seq(AnyPair)
    BY QAFlushTyped, PairParts
  <2>4. t.pairs = Append(QAFlush(s).pairs, p) /\ t.answer = <<>>
    BY <1>6 DEF Tables
  <2> HIDE DEF p
  <2>5. PairsFiled(t.pairs)
    BY <1>3, <2>1, <2>2, <2>3, <2>4, PairsFiledAppend
  <2> QED
    BY <1>4, <2>4, <2>5 DEF AnswersFiled, t
<1>7. CASE Heads(s, k, t) \/ Drops(s, k, t)
  BY <1>3, <1>4, <1>7 DEF Heads, Drops, AnswersFiled, t
<1>8. CASE Asks(s, k, t) /\ Starts(k) /\ ~HeadingMode
  <2>1. t.pairs = QAFlush(s).pairs /\ t.question = <<k>> /\ (t.answer = <<>> \/ t.answer = <<k>>)
    BY <1>8 DEF Asks
  <2>2. \A x : x \in ToSet(<<k>>) <=> x = k
    BY <1>1, SingleIs
  <2>3. Above(k) = {k}
    BY <1>8, PathIsQuestion
  <2>4. ToSet(<<k>>) = Above(k)
    BY <2>2, <2>3
  <2>5. Filed(<<k>>, <<k>>)
    BY <2>2, <2>4 DEF Filed
  <2> QED
    BY <1>3, <1>4, <2>1, <2>5 DEF AnswersFiled, t
<1>9. CASE Answers(s, k, t) /\ ~Starts(k)
  <2>1. t.pairs = s.pairs /\ t.question = s.question
        /\ t.answer = IF s.question = <<>> THEN s.answer ELSE Append(s.answer, k)
    BY <1>9 DEF Answers
  <2>2. CASE s.question = <<>>
    BY <1>3, <2>1, <2>2 DEF AnswersFiled, t
  <2>3. CASE s.question # <<>>
    <3>1. Started(k)
      BY <1>1, <1>2, <2>1, <2>3, NoQuestion
    <3>2. ToSet(t.question) = Above(k)
      <4>1. \A x : x \in ToSet(t.question) <=> x \in Path(k)
        BY <1>2 DEF QuestionStands
      <4>2. \A x : x \in ToSet(t.question) <=> x \in Above(k)
        BY <3>1, <4>1 DEF Path
      <4>3. ToSet(t.question) = {x \in Above(k) : TRUE}
        BY <4>2 DEF ToSet
      <4> QED
        BY <4>3
    <3>3. \A y : y \in ToSet(t.answer) <=> y \in ToSet(s.answer) \/ y = k
      BY <1>1, <2>1, <2>3, PairParts, AppendIs
    <3>4. Filed(t.question, t.answer)
      BY <1>3, <2>1, <3>2, <3>3 DEF Filed
    <3> QED
      BY <1>3, <2>1, <3>4 DEF AnswersFiled, t
  <2> QED
    BY <2>2, <2>3
<1> QED
  BY <1>2, <1>5, <1>6, <1>7, <1>8, <1>9 DEF Taken

-----------------------------------------------------------------------------
(* Answers are in the order of the document.                               *)

Before(p, q) == \A a \in ToSet(p) : \A b \in ToSet(q) : <<a, b>> \in Less

UpTo(q, k) == \A a \in ToSet(q) : a <= k

PairsInOrder(pairs) ==
  /\ \A i \in 1..Len(pairs) : Rising(pairs[i].answer, Less)
  /\ \A i, j \in 1..Len(pairs) : i < j => Before(pairs[i].answer, pairs[j].answer)

PairsBefore(pairs, q) == \A i \in 1..Len(pairs) : Before(pairs[i].answer, q)

PairsUpTo(pairs, k) == \A i \in 1..Len(pairs) : UpTo(pairs[i].answer, k)

InOrder(s, k) ==
  /\ PairsInOrder(s.pairs) /\ PairsBefore(s.pairs, s.answer) /\ PairsUpTo(s.pairs, k)
  /\ Rising(s.answer, Less) /\ UpTo(s.answer, k)

LEMMA AnswerOf ==
  ASSUME NEW pairs \in Seq(AnyPair), NEW i \in 1..Len(pairs)
  PROVE  pairs[i].answer \in Seq(Items) /\ pairs[i].question \in Seq(Items)
<1>1. pairs[i] \in AnyPair
  BY ElementOfSeq
<1> QED
  BY <1>1 DEF AnyPair

LEMMA PairsInOrderAppend ==
  ASSUME NEW pairs \in Seq(AnyPair), NEW p \in AnyPair, PairsInOrder(pairs), PairsBefore(pairs, p.answer),
         Rising(p.answer, Less)
  PROVE  PairsInOrder(Append(pairs, p))
<1> DEFINE u == Append(pairs, p)
<1>1. /\ Len(u) = Len(pairs) + 1 /\ Len(pairs) \in Nat /\ u[Len(pairs) + 1] = p
      /\ \A i \in 1..Len(pairs) : u[i] = pairs[i]
  BY AppendIs
<1> HIDE DEF u
<1>2. \A i \in 1..Len(u) : i \in 1..Len(pairs) \/ i = Len(pairs) + 1
  BY <1>1
<1>3. ASSUME NEW i \in 1..Len(u)
      PROVE  Rising(u[i].answer, Less)
  <2>1. CASE i = Len(pairs) + 1
    <3>1. u[i] = p
      BY <1>1, <2>1
    <3> QED
      BY <3>1
  <2>2. CASE i \in 1..Len(pairs)
    <3>1. u[i] = pairs[i]
      BY <1>1, <2>2
    <3> QED
      BY <2>2, <3>1 DEF PairsInOrder
  <2> QED
    BY <1>2, <2>1, <2>2
<1>4. ASSUME NEW i \in 1..Len(u), NEW j \in 1..Len(u), i < j
      PROVE  Before(u[i].answer, u[j].answer)
  <2>1. i \in 1..Len(pairs)
    BY <1>1, <1>4
  <2>2. u[i] = pairs[i]
    BY <1>1, <2>1
  <2>3. CASE j = Len(pairs) + 1
    <3>1. u[j] = p
      BY <1>1, <2>3
    <3> QED
      BY <2>1, <2>2, <3>1 DEF PairsBefore
  <2>4. CASE j \in 1..Len(pairs)
    <3>1. u[j] = pairs[j]
      BY <1>1, <2>4
    <3> QED
      BY <1>4, <2>1, <2>2, <2>4, <3>1 DEF PairsInOrder
  <2> QED
    BY <1>2, <2>3, <2>4
<1> QED
  BY <1>3, <1>4 DEF PairsInOrder, u

LEMMA PairsUpToAppend ==
  ASSUME NEW pairs \in Seq(AnyPair), NEW p \in AnyPair, NEW k, PairsUpTo(pairs, k), UpTo(p.answer, k)
  PROVE  PairsUpTo(Append(pairs, p), k)
<1> DEFINE u == Append(pairs, p)
<1>1. /\ Len(u) = Len(pairs) + 1 /\ Len(pairs) \in Nat /\ u[Len(pairs) + 1] = p
      /\ \A i \in 1..Len(pairs) : u[i] = pairs[i]
  BY AppendIs
<1> HIDE DEF u
<1>2. ASSUME NEW i \in 1..Len(u)
      PROVE  UpTo(u[i].answer, k)
  <2>1. i \in 1..Len(pairs) \/ i = Len(pairs) + 1
    BY <1>1
  <2>2. CASE i = Len(pairs) + 1
    <3>1. u[i] = p
      BY <1>1, <2>2
    <3> QED
      BY <3>1
  <2>3. CASE i \in 1..Len(pairs)
    <3>1. u[i] = pairs[i]
      BY <1>1, <2>3
    <3> QED
      BY <2>3, <3>1 DEF PairsUpTo
  <2> QED
    BY <2>1, <2>2, <2>3
<1> QED
  BY <1>2 DEF PairsUpTo, u

LEMMA FlushInOrder ==
  ASSUME call.in \in QAInputs, NEW s \in PairState, NEW k, InOrder(s, k)
  PROVE  PairsInOrder(QAFlush(s).pairs) /\ PairsUpTo(QAFlush(s).pairs, k)
<1>1. QAFlush(s).pairs = IF s.question # <<>> /\ Says(s.answer) THEN Append(s.pairs, Current(s)) ELSE s.pairs
  BY QAFlushTyped
<1>2. /\ s.pairs \in Seq(AnyPair) /\ PairsInOrder(s.pairs) /\ PairsBefore(s.pairs, s.answer) /\ PairsUpTo(s.pairs, k)
      /\ Rising(s.answer, Less) /\ UpTo(s.answer, k)
  BY PairParts DEF InOrder
<1>3. Current(s) \in AnyPair /\ Current(s).answer = s.answer
  BY CurrentTyped
<1>4. PairsInOrder(Append(s.pairs, Current(s)))
  BY <1>2, <1>3, PairsInOrderAppend
<1>5. PairsUpTo(Append(s.pairs, Current(s)), k)
  BY <1>2, <1>3, PairsUpToAppend
<1> QED
  BY <1>1, <1>2, <1>4, <1>5

\* What goes up to k - 1 goes up to k and comes before k.
LEMMA UpToNext ==
  ASSUME call.in \in QAInputs, NEW k \in 1..Size, NEW q \in Seq(Items), UpTo(q, k - 1)
  PROVE  UpTo(q, k) /\ \A a \in ToSet(q) : a < k /\ <<a, k>> \in Less
<1>1. k \in Nat /\ \A a \in ToSet(q) : a \in Nat
  BY ItemsCounted, InList
<1>2. \A a \in ToSet(q) : a < k /\ a <= k
  BY <1>1 DEF UpTo
<1> QED
  BY <1>1, <1>2, LessIs DEF UpTo

LEMMA PairsUpToNext ==
  ASSUME call.in \in QAInputs, NEW k \in 1..Size, NEW pairs \in Seq(AnyPair), PairsUpTo(pairs, k - 1)
  PROVE  PairsUpTo(pairs, k) /\ PairsBefore(pairs, <<k>>) /\ PairsBefore(pairs, <<>>)
<1>1. \A x : x \in ToSet(<<k>>) <=> x = k
  BY ItemsCounted, SingleIs
<1>2. ToSet(<<>>) = {}
  BY DEF ToSet
<1>3. ASSUME NEW i \in 1..Len(pairs)
      PROVE  UpTo(pairs[i].answer, k) /\ Before(pairs[i].answer, <<k>>)
  <2>1. pairs[i].answer \in Seq(Items) /\ UpTo(pairs[i].answer, k - 1)
    BY AnswerOf DEF PairsUpTo
  <2>2. UpTo(pairs[i].answer, k) /\ \A a \in ToSet(pairs[i].answer) : <<a, k>> \in Less
    BY <2>1, UpToNext
  <2> QED
    BY <1>1, <2>2 DEF Before
<1> QED
  BY <1>2, <1>3 DEF PairsUpTo, PairsBefore, Before

LEMMA OrderStep ==
  ASSUME call.in \in QAInputs, NEW s \in PairState, NEW k \in 1..Size, QuestionStands(s, k - 1),
         InOrder(s, k - 1)
  PROVE  InOrder(ReadItem(s, k), k)
<1> DEFINE t == ReadItem(s, k)
           f == QAFlush(s).pairs
<1>1. k \in Items /\ k \in Nat /\ Items \subseteq Nat
  BY ItemsCounted
<1>2. t \in PairState /\ Taken(s, k, t)
  BY ItemTaken
<1>3. PairsInOrder(f) /\ PairsUpTo(f, k - 1) /\ f \in Seq(AnyPair)
  BY FlushInOrder, QAFlushTyped, PairParts
<1>4. /\ s.pairs \in Seq(AnyPair) /\ s.answer \in Seq(Items) /\ PairsInOrder(s.pairs)
      /\ PairsBefore(s.pairs, s.answer) /\ PairsUpTo(s.pairs, k - 1)
      /\ Rising(s.answer, Less) /\ UpTo(s.answer, k - 1)
  BY PairParts DEF InOrder
<1> HIDE DEF t, f
<1>5. PairsUpTo(f, k) /\ PairsBefore(f, <<k>>) /\ PairsBefore(f, <<>>)
  BY <1>3, PairsUpToNext
<1>6. PairsUpTo(s.pairs, k) /\ PairsBefore(s.pairs, <<k>>) /\ UpTo(s.answer, k)
      /\ \A a \in ToSet(s.answer) : a < k
  BY <1>4, PairsUpToNext, UpToNext
<1>7. Rising(<<>>, Less) /\ UpTo(<<>>, k)
  BY DEF Rising, UpTo, ToSet
<1>8. Rising(<<k>>, Less) /\ UpTo(<<k>>, k) /\ \A y : y \in ToSet(<<k>>) <=> y = k
  BY <1>1, SingleIs DEF UpTo
<1>9. CASE Passes(s, k, t)
  BY <1>4, <1>6, <1>9 DEF Passes, InOrder, t
<1>10. CASE Tables(s, k, t)
  <2> DEFINE p == [question |-> <<k>>, answer |-> <<k>>]
  <2>1. p \in AnyPair /\ p.answer = <<k>>
    BY <1>1 DEF AnyPair
  <2>2. t.pairs = Append(f, p) /\ t.answer = <<>>
    BY <1>10 DEF Tables, f
  <2> HIDE DEF p
  <2>3. PairsBefore(f, p.answer) /\ Rising(p.answer, Less) /\ UpTo(p.answer, k)
    BY <1>5, <1>8, <2>1
  <2>4. PairsInOrder(Append(f, p))
    BY <1>3, <2>1, <2>3, PairsInOrderAppend
  <2>5. PairsUpTo(Append(f, p), k)
    BY <1>3, <1>5, <2>1, <2>3, PairsUpToAppend
  <2>6. PairsBefore(t.pairs, <<>>)
    BY DEF PairsBefore, Before, ToSet
  <2> QED
    BY <1>7, <2>2, <2>4, <2>5, <2>6 DEF InOrder, t
<1>11. CASE Heads(s, k, t) \/ Drops(s, k, t) \/ Asks(s, k, t)
  <2>1. t.pairs = f /\ (t.answer = <<>> \/ t.answer = <<k>>)
    BY <1>11 DEF Heads, Drops, Asks, f
  <2> QED
    BY <1>3, <1>5, <1>7, <1>8, <2>1 DEF InOrder, t
<1>12. CASE Answers(s, k, t)
  <2>1. t.pairs = s.pairs /\ t.answer = IF s.question = <<>> THEN s.answer ELSE Append(s.answer, k)
    BY <1>12 DEF Answers
  <2>2. CASE s.question = <<>>
    BY <1>4, <1>6, <2>1, <2>2 DEF InOrder, t
  <2>3. CASE s.question # <<>>
    <3> DEFINE a == Append(s.answer, k)
    <3>1. \A y : y \in ToSet(a) <=> y \in ToSet(s.answer) \/ y = k
      BY <1>1, <1>4, AppendIs
    <3>2. Rising(a, Less)
      BY <1>1, <1>4, <1>6, AppendRises
    <3> HIDE DEF a
    <3>3. UpTo(a, k)
      BY <1>1, <1>6, <3>1 DEF UpTo
    <3>4. PairsBefore(s.pairs, a)
      BY <1>4, <1>6, <1>8, <3>1 DEF PairsBefore, Before
    <3>5. t.pairs = s.pairs /\ t.answer = a
      BY <2>1, <2>3 DEF a
    <3> QED
      BY <1>4, <1>6, <3>2, <3>3, <3>4, <3>5 DEF InOrder, t
  <2> QED
    BY <2>2, <2>3
<1> QED
  BY <1>2, <1>9, <1>10, <1>11, <1>12 DEF Taken

-----------------------------------------------------------------------------
(* No answer is lost.                                                      *)

InPairs(pairs, x) == \E i \in 1..Len(pairs) : x \in ToSet(pairs[i].answer)

Covered(s, k) == \A x \in 1..k : Matters(x) => x \in ToSet(s.answer) \/ InPairs(s.pairs, x)

LEMMA InPairsAppend ==
  ASSUME NEW pairs \in Seq(AnyPair), NEW p \in AnyPair
  PROVE  /\ \A x : InPairs(pairs, x) => InPairs(Append(pairs, p), x)
         /\ \A x \in ToSet(p.answer) : InPairs(Append(pairs, p), x)
<1> DEFINE u == Append(pairs, p)
<1>1. /\ Len(u) = Len(pairs) + 1 /\ Len(pairs) \in Nat /\ u[Len(pairs) + 1] = p
      /\ \A i \in 1..Len(pairs) : u[i] = pairs[i] /\ i \in 1..(Len(pairs) + 1)
  BY AppendIs
<1> HIDE DEF u
<1>2. ASSUME NEW x, InPairs(pairs, x)
      PROVE  InPairs(u, x)
  <2>1. PICK i \in 1..Len(pairs) : x \in ToSet(pairs[i].answer)
    BY <1>2 DEF InPairs
  <2>2. u[i] = pairs[i] /\ i \in 1..Len(u)
    BY <1>1
  <2> QED
    BY <2>1, <2>2 DEF InPairs
<1>3. ASSUME NEW x \in ToSet(p.answer)
      PROVE  InPairs(u, x)
  <2>1. Len(pairs) + 1 \in 1..Len(u)
    BY <1>1
  <2>2. x \in ToSet(u[Len(pairs) + 1].answer)
    BY <1>1
  <2> QED
    BY <2>1, <2>2 DEF InPairs
<1> QED
  BY <1>2, <1>3 DEF u

\* An answer that says nothing matters to nobody.
LEMMA UnsaidIsMoot ==
  ASSUME call.in \in QAInputs, NEW s \in PairState, ~Says(s.answer)
  PROVE  \A x \in ToSet(s.answer) : ~Matters(x)
<1>1. s.answer \in Seq(Items)
  BY PairParts
<1>2. ASSUME NEW x \in ToSet(s.answer)
      PROVE  ~Matters(x)
  <2>1. PICK i \in 1..Len(s.answer) : s.answer[i] = x
    BY <1>1, ToSetOf
  <2>2. i \in DOMAIN s.answer
    BY <1>1, LenProperties
  <2>3. Item(x) \in {"blank", "label", "half"}
    BY <2>1, <2>2 DEF Says
  <2>4. x \in 1..Size
    BY <1>1, InList, ItemsCounted
  <2>5. Item(x) \in ItemKinds(call.in.from) /\ call.in.from \in {"md", "docx", "pdf", "csv"}
    BY <2>4, ItemsCounted, QAAssumption
  <2>6. Item(x) = "half" => Starts(x)
    BY <2>5 DEF ItemKinds, Starts
  <2> QED
    BY <2>3, <2>6 DEF Matters
<1> QED
  BY <1>2

LEMMA FlushCovered ==
  ASSUME call.in \in QAInputs, NEW s \in PairState, NEW k \in 0..Size, QuestionStands(s, k), Covered(s, k)
  PROVE  \A x \in 1..k : Matters(x) => InPairs(QAFlush(s).pairs, x)
<1>1. QAFlush(s).pairs = IF s.question # <<>> /\ Says(s.answer) THEN Append(s.pairs, Current(s)) ELSE s.pairs
  BY QAFlushTyped
<1>2. s.pairs \in Seq(AnyPair) /\ Current(s) \in AnyPair /\ Current(s).answer = s.answer /\ Size \in Nat
  BY PairParts, CurrentTyped, ItemsCounted
<1>3. ASSUME NEW x \in 1..k, Matters(x)
      PROVE  InPairs(QAFlush(s).pairs, x)
  <2>1. x \in ToSet(s.answer) \/ InPairs(s.pairs, x)
    BY <1>3 DEF Covered
  <2>2. s.question # <<>>
    <3>1. Started(k)
      BY <1>2, <1>3 DEF Matters, Started
    <3> QED
      BY <3>1, NoQuestion
  <2>3. CASE Says(s.answer)
    <3>1. InPairs(Append(s.pairs, Current(s)), x)
      BY <1>2, <2>1, InPairsAppend
    <3> QED
      BY <1>1, <2>2, <2>3, <3>1
  <2>4. CASE ~Says(s.answer)
    <3>1. x \notin ToSet(s.answer)
      BY <1>3, <2>4, UnsaidIsMoot
    <3> QED
      BY <1>1, <2>1, <2>4, <3>1
  <2> QED
    BY <2>3, <2>4
<1> QED
  BY <1>3

LEMMA CoveredStep ==
  ASSUME call.in \in QAInputs, NEW s \in PairState, NEW k \in 1..Size, QuestionStands(s, k - 1),
         Covered(s, k - 1)
  PROVE  Covered(ReadItem(s, k), k)
<1> DEFINE t == ReadItem(s, k)
           f == QAFlush(s).pairs
<1>1. k \in Items /\ k \in Nat /\ k - 1 \in 0..Size /\ Item(k) \in ItemKinds(call.in.from)
  BY ItemsCounted
<1>2. t \in PairState /\ Taken(s, k, t)
  BY ItemTaken
<1>3. f \in Seq(AnyPair) /\ s.pairs \in Seq(AnyPair) /\ s.answer \in Seq(Items)
  BY QAFlushTyped, PairParts
<1>4. \A x \in 1..(k - 1) : Matters(x) => InPairs(f, x)
  BY <1>1, FlushCovered
<1> HIDE DEF t, f
<1>5. \A x \in 1..k : x \in 1..(k - 1) \/ x = k
  BY <1>1
<1>6. \A y : y \in ToSet(<<k>>) <=> y = k
  BY <1>1, SingleIs
<1>7. CASE Passes(s, k, t) /\ ~Matters(k)
  BY <1>5, <1>7 DEF Passes, Covered, t
<1>8. CASE Tables(s, k, t)
  <2> DEFINE p == [question |-> <<k>>, answer |-> <<k>>]
  <2>1. p \in AnyPair /\ p.answer = <<k>>
    BY <1>1 DEF AnyPair
  <2>2. t.pairs = Append(f, p)
    BY <1>8 DEF Tables, f
  <2> HIDE DEF p
  <2>3. (\A x : InPairs(f, x) => InPairs(t.pairs, x)) /\ InPairs(t.pairs, k)
    BY <1>3, <1>6, <2>1, <2>2, InPairsAppend
  <2> QED
    BY <1>4, <1>5, <2>3 DEF Covered, t
<1>9. CASE (Heads(s, k, t) /\ Starts(k) /\ HeadingMode) \/ (Drops(s, k, t) /\ ~Matters(k))
  <2>1. ~Matters(k)
    BY <1>1, <1>9 DEF Matters, HeadingMode, ItemKinds
  <2>2. t.pairs = f
    BY <1>9 DEF Heads, Drops, f
  <2> QED
    BY <1>4, <1>5, <2>1, <2>2 DEF Covered, t
<1>10. CASE Asks(s, k, t) /\ Starts(k) /\ ~HeadingMode
  <2>1. t.pairs = f /\ t.answer = IF call.in.from = "csv" THEN <<k>> ELSE <<>>
    BY <1>10 DEF Asks, f
  <2>2. CASE call.in.from = "csv"
    BY <1>4, <1>5, <1>6, <2>1, <2>2 DEF Covered, t
  <2>3. CASE call.in.from = "pdf"
    <3>1. ~Matters(k)
      BY <1>10, <2>3 DEF Matters, Starts
    <3> QED
      BY <1>4, <1>5, <2>1, <3>1 DEF Covered, t
  <2>4. call.in.from \in {"pdf", "csv"}
    BY <1>10, QAAssumption DEF HeadingMode
  <2> QED
    BY <2>2, <2>3, <2>4
<1>11. CASE Answers(s, k, t) /\ ~Starts(k)
  <2>1. t.pairs = s.pairs /\ t.answer = IF s.question = <<>> THEN s.answer ELSE Append(s.answer, k)
    BY <1>11 DEF Answers
  <2>2. CASE s.question = <<>>
    <3>1. ~Started(k)
      BY <1>1, <1>11, <2>2, NoQuestion, PathStays
    <3>2. ~Matters(k)
      BY <3>1 DEF Matters
    <3> QED
      BY <1>5, <2>1, <2>2, <3>2 DEF Covered, t
  <2>3. CASE s.question # <<>>
    <3>1. \A y : y \in ToSet(t.answer) <=> y \in ToSet(s.answer) \/ y = k
      BY <1>1, <1>3, <2>1, <2>3, AppendIs
    <3> QED
      BY <1>5, <2>1, <3>1 DEF Covered, t
  <2> QED
    BY <2>2, <2>3
<1> QED
  BY <1>2, <1>7, <1>8, <1>9, <1>10, <1>11 DEF Taken

-----------------------------------------------------------------------------
(* The pairs of a document.                                                *)

PairsHeld(s, k) == QuestionStands(s, k) /\ AnswersFiled(s) /\ InOrder(s, k) /\ Covered(s, k)

LEMMA PairsHeldFirst ==
  ASSUME call.in \in QAInputs
  PROVE  PairsHeld(QABegin, 0)
<1>1. QABegin.pairs = <<>> /\ QABegin.answer = <<>>
  BY DEF QABegin
<1>2. ToSet(<<>>) = {} /\ Rising(<<>>, Less) /\ Len(<<>>) = 0
  BY DEF ToSet, Rising
<1>3. PairsFiled(<<>>) /\ \A q : Filed(q, <<>>)
  BY <1>2 DEF PairsFiled, Filed
<1>4. PairsInOrder(<<>>) /\ PairsBefore(<<>>, <<>>) /\ PairsUpTo(<<>>, 0) /\ UpTo(<<>>, 0)
  BY <1>2 DEF PairsInOrder, PairsBefore, PairsUpTo, UpTo
<1>5. Covered(QABegin, 0)
  BY DEF Covered
<1> QED
  BY <1>1, <1>2, <1>3, <1>4, <1>5, QuestionFirst DEF PairsHeld, AnswersFiled, InOrder

LEMMA PairsHeldStep ==
  ASSUME call.in \in QAInputs, NEW s \in PairState, NEW k \in 1..Size, PairsHeld(s, k - 1)
  PROVE  PairsHeld(ReadItem(s, k), k)
<1>1. QuestionStands(s, k - 1) /\ AnswersFiled(s) /\ InOrder(s, k - 1) /\ Covered(s, k - 1)
  BY DEF PairsHeld
<1>2. QuestionStands(ReadItem(s, k), k) /\ AnswersFiled(ReadItem(s, k))
  BY <1>1, QuestionStep, FiledStep
<1>3. InOrder(ReadItem(s, k), k) /\ Covered(ReadItem(s, k), k)
  BY <1>1, OrderStep, CoveredStep
<1> QED
  BY <1>2, <1>3 DEF PairsHeld

LEMMA PairsHeldAll ==
  ASSUME call.in \in QAInputs
  PROVE  PairsRead \in PairState /\ PairsHeld(PairsRead, Size)
<1>1. Size \in Nat /\ Len(ItemNumbers) = Size /\ \A k \in 1..Size : ItemNumbers[k] = k
  BY ItemsCounted
<1>2. PICK F : PairCourse(F, ItemNumbers) /\ PairsRead = F[Len(ItemNumbers)]
  BY PairFold
<1>3. /\ F[0] = QABegin /\ F[Size] \in PairState
      /\ \A k \in 1..Size : F[k] \in PairState /\ F[k - 1] \in PairState /\ F[k] = ReadItem(F[k - 1], k)
  BY <1>1, <1>2 DEF PairCourse
<1> DEFINE G == {k \in 0..Size : PairsHeld(F[k], k)}
<1>4. 0 \in G
  BY <1>1, <1>3, PairsHeldFirst
<1>5. ASSUME NEW k \in 0..(Size - 1), k \in G
      PROVE  k + 1 \in G
  <2> DEFINE m == k + 1
  <2>1. m \in 1..Size /\ m - 1 = k /\ m \in 0..Size
    BY <1>1
  <2> HIDE DEF m
  <2>2. F[m] = ReadItem(F[k], m) /\ F[k] \in PairState
    BY <1>3, <2>1
  <2>3. PairsHeld(F[k], m - 1)
    BY <1>5, <2>1
  <2>4. PairsHeld(F[m], m)
    BY <2>1, <2>2, <2>3, PairsHeldStep
  <2> QED
    BY <2>1, <2>4 DEF m
<1>6. 0..Size \subseteq G
  <2> HIDE DEF G
  <2> QED
    BY <1>1, <1>4, <1>5, CountingUp
<1>7. PairsHeld(F[Size], Size)
  BY <1>1, <1>6
<1> QED
  BY <1>1, <1>2, <1>3, <1>7

\* The pairs read from a document hold all it says after the first question,
\* each answer under its question.
LEMMA PairsStand ==
  ASSUME call.in \in QAInputs, Result = materializeQAChunks(call.in)
  PROVE  PairsAreWhole
<1> DEFINE s == PairsRead
           t == QAFlush(s)
           parts == [i \in DOMAIN Result |-> Result[i].answer]
           all == FlattenSeq(parts)
           n == Len(Result)
<1>1. s \in PairState /\ PairsHeld(s, Size) /\ Size \in Nat /\ Items = 1..Size
  BY PairsHeldAll, ItemsCounted
<1>2. Result = t.pairs
  BY DEF materializeQAChunks, PairsRead, ItemNumbers
<1> HIDE DEF s
<1>3. Result \in Seq(AnyPair)
  BY <1>1, <1>2, QAFlushTyped, PairParts
<1>4. QuestionStands(s, Size) /\ AnswersFiled(s) /\ InOrder(s, Size) /\ Covered(s, Size)
  BY <1>1 DEF PairsHeld
<1>5. PairsFiled(Result) /\ PairsInOrder(Result)
  BY <1>1, <1>2, <1>4, FlushFiled, FlushInOrder
<1>6. \A x \in 1..Size : Matters(x) => InPairs(Result, x)
  BY <1>1, <1>2, <1>4, FlushCovered
<1> HIDE DEF t
<1>7. n \in Nat /\ DOMAIN Result = 1..n /\ \A i \in 1..n : Result[i].answer \in Seq(1..Size)
  BY <1>1, <1>3, LenProperties, AnswerOf
<1>8. parts \in Seq(Seq(1..Size)) /\ Len(parts) = n /\ \A i \in 1..n : parts[i] = Result[i].answer
  <2>1. parts = [i \in 1..n |-> Result[i].answer]
    BY <1>7
  <2>2. parts \in [1..n -> Seq(1..Size)]
    BY <1>7, <2>1
  <2> HIDE DEF parts, n
  <2>3. parts \in Seq(Seq(1..Size)) /\ Len(parts) = n
    BY <1>7, <2>2, ListOf
  <2> QED
    BY <2>1, <2>3
<1> HIDE DEF parts, all
<1>9. \A i \in 1..n : Rising(parts[i], Less)
  BY <1>5, <1>8 DEF PairsInOrder
<1>10. \A i, j \in 1..n : i < j => \A a \in ToSet(parts[i]), b \in ToSet(parts[j]) : <<a, b>> \in Less
  BY <1>5, <1>8 DEF PairsInOrder, Before
<1>11. /\ all \in Seq(1..Size) /\ Rising(all, Less)
       /\ \A x : x \in ToSet(all) <=> \E i \in 1..n : x \in ToSet(parts[i])
  <2> HIDE DEF n
  <2> QED
    BY <1>8, <1>9, <1>10, FlattenRises DEF all
<1>12. IsSorted(all, <)
  <2>1. \A i \in 1..Len(all) : all[i] \in Nat
    <3>1. \A i \in 1..Len(all) : all[i] \in 1..Size
      BY <1>11, ElementOfSeq
    <3> QED
      BY <1>1, <3>1
  <2> QED
    BY <1>11, <2>1, LessIs DEF Rising, IsSorted
<1>13. ASSUME NEW k \in Items, Matters(k)
       PROVE  k \in ToSet(all)
  <2>1. PICK i \in 1..n : k \in ToSet(Result[i].answer)
    BY <1>1, <1>6, <1>13 DEF InPairs
  <2> QED
    BY <1>8, <1>11, <2>1
<1>14. AnswersAreComplete
  <2>1. \A k \in Items :
             /\ \E j \in 1..k : Starts(j)
             /\ ~Starts(k) \/ Item(k) = "pair"
             /\ Item(k) \notin {"blank", "label", "image"}
             /\ InTable(k) => call.in.from # "pdf"
             /\ Item(k) = "short" => call.in.from # "docx"
             => k \in ToSet(all)
    BY <1>13 DEF Matters, Started
  <2> QED
    BY <1>12, <2>1 DEF AnswersAreComplete, all, parts
<1>15. AnswersStandUnder
  BY <1>5, <1>7 DEF AnswersStandUnder, PairsFiled, Filed
<1> QED
  BY <1>14, <1>15 DEF PairsAreWhole

\* The question and answer template loses no line after the first question
\* and uses none twice, keeps their order, and files an answer under the
\* headings that enclose it and no other question, whatever headings, titles,
\* code blocks and tables the document has; it gives up the tables of a PDF
\* and the short rows of a DOCX (materializeQAChunks).
THEOREM PairsStandWhole == TemplatesSpec => []PairsAreWhole
<1>1. TemplateAnswered => PairsAreWhole
  <2> SUFFICES ASSUME TemplateAnswered, Paired
               PROVE  PairsAreWhole
    BY DEF PairsAreWhole, AnswersStandUnder, AnswersAreComplete
  <2>1. call.in \in QAInputs
    BY TemplateInputOf DEF Paired, Returned
  <2>2. Result = materializeQAChunks(call.in)
    BY DEF TemplateAnswered, Paired, Returned
  <2> QED
    BY <2>1, <2>2, PairsStand
<1> QED
  BY <1>1, TemplateAnsweredAlways, PTL

-----------------------------------------------------------------------------
(* Resumes.                                                                *)

\* Numbers in ascending order.
LEMMA AscendingIs ==
  ASSUME NEW n \in Nat, NEW T, T \subseteq 1..n
  PROVE  /\ Ascending(T) \in Seq(T) /\ Rising(Ascending(T), Less)
         /\ \A x : x \in ToSet(Ascending(T)) <=> x \in T
<1> DEFINE s == Ascending(T)
           m == Cardinality(T)
<1>1. T \subseteq Nat /\ IsFiniteSet(T) /\ m \in Nat
  <2>1. IsFiniteSet(1..n) /\ T \subseteq Nat
    BY FS_Interval
  <2>2. IsFiniteSet(T)
    BY <2>1, FS_Subset
  <2> QED
    BY <2>1, <2>2, FS_CardinalityType
<1>2. s = CHOOSE q \in SetToSeqs(T) : \A i, j \in DOMAIN q : i < j => q[i] < q[j]
  BY DEF Ascending
<1> HIDE DEF s
<1>3. Ascends(s, T)
  BY <1>1, <1>2, SortedListing
<1> HIDE DEF m
<1>4. /\ s \in [1..m -> T]
      /\ \A i, j \in 1..m : i < j => s[i] < s[j]
      /\ \A x \in T : \E i \in 1..m : s[i] = x
  BY <1>3 DEF Ascends, m
<1>5. s \in Seq(T) /\ Len(s) = m
  BY <1>1, <1>4, ListOf
<1>6. Rising(s, Less)
  <2>1. \A i \in 1..m : s[i] \in Nat
    BY <1>1, <1>4
  <2> QED
    BY <1>4, <1>5, <2>1, LessIs DEF Rising
<1>7. \A x : x \in ToSet(s) <=> x \in T
  <2>1. \A x : x \in ToSet(s) <=> \E i \in 1..m : s[i] = x
    BY <1>5, ToSetOf
  <2> QED
    BY <1>4, <2>1
<1> QED
  BY <1>5, <1>6, <1>7 DEF s

ResumeLine == [head : ResumeSections \cup {""}, says : Nat, numbered : BOOLEAN, dated : BOOLEAN]

LineSet == 1..N

LEMMA ResumeTyped ==
  ASSUME call.in \in ResumeInputs
  PROVE  /\ N \in Nat /\ LineSet \subseteq Nat /\ \A k \in LineSet : k \in Nat /\ Lines[k] \in ResumeLine
         /\ \A t \in {"basic", "education", "work", "project"} : call.in.replies[t].picks \in Seq(Seq(Int))
         /\ Len(call.in.replies.basic.picks) = 3
         /\ call.in.found \in {"", "in text"}
<1>1. Lines \in Seq(ResumeLine)
  BY ResumeAssumption DEF Lines, ResumeLine
<1>2. N \in Nat /\ \A k \in 1..N : Lines[k] \in ResumeLine
  BY <1>1, LenProperties, ElementOfSeq DEF N
<1>3. /\ \A t \in {"basic", "education", "work", "project"} : call.in.replies[t].picks \in Seq(Seq(Int))
      /\ Len(call.in.replies.basic.picks) = 3 /\ call.in.found \in {"", "in text"}
  BY ResumeAssumption
<1>4. LineSet \subseteq Nat /\ \A k \in LineSet : k \in Nat /\ Lines[k] \in ResumeLine
  BY <1>2 DEF LineSet
<1> QED
  BY <1>2, <1>3, <1>4

-----------------------------------------------------------------------------
(* The groups that a model selects.                                        *)

AskedFor == [section : {"basic", "education", "skills", "work", "project", "other"}, picks : Seq(Int)]

GroupsMade == [section : {"basic", "education", "skills", "work", "project", "other"}, lines : Seq(LineSet)]

GroupState == [groups : Seq(GroupsMade), used : SUBSET LineSet]

\* The groups hold the used lines, each once and in order.
GroupsHold(s) ==
  /\ \A x : x \in s.used <=> \E i \in 1..Len(s.groups) : x \in ToSet(s.groups[i].lines)
  /\ \A i \in 1..Len(s.groups) : Rising(s.groups[i].lines, Less)
  /\ \A i, j \in 1..Len(s.groups) : i < j =>
       \A a \in ToSet(s.groups[i].lines) : \A b \in ToSet(s.groups[j].lines) : a # b

\* The lines that a group gets.
Fresh(s, g) == (ToSet(g.picks) \cap (1..N)) \ s.used

LEMMA GroupStep ==
  ASSUME call.in \in ResumeInputs, NEW s \in GroupState, NEW g \in AskedFor
  PROVE  /\ AppendGroup(s, g) \in GroupState /\ AppendGroup(s, g).used = s.used \cup Fresh(s, g)
         /\ GroupsHold(s) => GroupsHold(AppendGroup(s, g))
<1> DEFINE t == AppendGroup(s, g)
           T == Fresh(s, g)
           lines == Ascending(T)
           r == [section |-> g.section, lines |-> lines]
<1>1. T \subseteq LineSet /\ \A x \in T : x \notin s.used
  BY DEF Fresh, LineSet
<1>2. resumeLinesAt(g.picks, s.used) = lines
  BY DEF resumeLinesAt, Fresh
<1>3. t = IF lines = <<>> THEN s ELSE [groups |-> Append(s.groups, r), used |-> s.used \cup ToSet(lines)]
  BY <1>2 DEF AppendGroup
<1>4. s.groups \in Seq(GroupsMade) /\ s.used \subseteq LineSet
  BY DEF GroupState
<1> HIDE DEF t, T
<1>5. lines \in Seq(T) /\ Rising(lines, Less) /\ \A x : x \in ToSet(lines) <=> x \in T
  BY <1>1, ResumeTyped, AscendingIs DEF LineSet
<1> HIDE DEF lines
<1>6. CASE lines = <<>>
  <2>1. T = {}
    BY <1>5, <1>6 DEF ToSet
  <2>2. t = s /\ s.used = s.used \cup T
    BY <1>3, <1>6, <2>1
  <2> QED
    BY <2>2 DEF t, T
<1>7. CASE lines # <<>>
  <2>1. t.groups = Append(s.groups, r) /\ t.used = s.used \cup T /\ t = [groups |-> t.groups, used |-> t.used]
    <3>1. ToSet(lines) = T
      <4>1. \A x : x \in ToSet(lines) <=> x \in T
        BY <1>5
      <4> HIDE DEF T
      <4> QED
        BY <4>1 DEF ToSet
    <3> QED
      BY <1>3, <1>7, <3>1
  <2>2. r \in GroupsMade /\ r.lines = lines
    <3>1. lines \in Seq(LineSet)
      BY <1>1, <1>5
    <3> QED
      BY <3>1 DEF GroupsMade, AskedFor
  <2> HIDE DEF r
  <2>3. /\ t.groups \in Seq(GroupsMade) /\ Len(t.groups) = Len(s.groups) + 1 /\ Len(s.groups) \in Nat
        /\ \A i \in 1..Len(s.groups) : i \in 1..(Len(s.groups) + 1) /\ t.groups[i] = s.groups[i]
        /\ t.groups[Len(s.groups) + 1] = r
    BY <1>4, <2>1, <2>2, AppendIs
  <2>4. t \in GroupState
    BY <1>1, <1>4, <2>1, <2>3 DEF GroupState
  <2>5. ASSUME GroupsHold(s)
        PROVE  GroupsHold(t)
    <3> DEFINE n == Len(s.groups)
               H(i) == ToSet(s.groups[i].lines)
    <3>1. /\ \A x : x \in s.used <=> \E i \in 1..n : x \in H(i)
          /\ \A i \in 1..n : Rising(s.groups[i].lines, Less)
          /\ \A i, j \in 1..n : i < j => \A a \in H(i) : \A b \in H(j) : a # b
      BY <2>5 DEF GroupsHold
    <3>2. \A i \in 1..Len(t.groups) : i \in 1..n \/ i = n + 1
      BY <2>3
    <3> DEFINE K(i) == ToSet(t.groups[i].lines)
    <3>3. /\ \A i \in 1..n : K(i) = H(i) /\ i \in 1..Len(t.groups)
          /\ \A x : x \in K(n + 1) <=> x \in T
          /\ n + 1 \in 1..Len(t.groups)
      BY <1>5, <2>2, <2>3
    <3>4. \A i \in 1..Len(t.groups) : Rising(t.groups[i].lines, Less)
      <4>1. \A i \in 1..n : Rising(t.groups[i].lines, Less)
        BY <2>3, <3>1
      <4>2. Rising(t.groups[n + 1].lines, Less)
        BY <1>5, <2>2, <2>3
      <4> QED
        BY <3>2, <4>1, <4>2
    <3> HIDE DEF H, K
    <3>5. \A x : x \in t.used <=> \E i \in 1..Len(t.groups) : x \in K(i)
      <4>1. \A x : x \in t.used <=> x \in s.used \/ x \in T
        BY <2>1
      <4> QED
        BY <3>1, <3>2, <3>3, <4>1
    <3>6. ASSUME NEW i \in 1..Len(t.groups), NEW j \in 1..Len(t.groups), i < j, NEW a \in K(i), NEW b \in K(j)
          PROVE  a # b
      <4>1. i \in 1..n
        BY <2>3, <3>6
      <4>2. a \in H(i) /\ a \in s.used
        BY <3>1, <3>3, <3>6, <4>1
      <4>3. CASE j = n + 1
        BY <1>1, <3>3, <3>6, <4>2, <4>3
      <4>4. CASE j \in 1..n
        BY <3>1, <3>3, <3>6, <4>1, <4>2, <4>4
      <4> QED
        BY <3>2, <4>3, <4>4
    <3> QED
      BY <3>4, <3>5, <3>6 DEF GroupsHold, K
  <2> QED
    BY <2>1, <2>4, <2>5 DEF t, T
<1> QED
  BY <1>6, <1>7

LEMMA SelectIs ==
  ASSUME NEW section \in {"basic", "education", "skills", "work", "project", "other"},
         NEW entries \in Seq(Seq(Int))
  PROVE  Select(section, entries) \in Seq(AskedFor)
<1>1. Len(entries) \in Nat /\ DOMAIN entries = 1..Len(entries) /\ \A i \in 1..Len(entries) : entries[i] \in Seq(Int)
  BY LenProperties, ElementOfSeq
<1> DEFINE f == [i \in 1..Len(entries) |-> [section |-> section, picks |-> entries[i]]]
<1>2. f \in [1..Len(entries) -> AskedFor]
  BY <1>1 DEF AskedFor
<1>3. Select(section, entries) = f
  BY <1>1 DEF Select
<1> HIDE DEF f
<1> QED
  BY <1>1, <1>2, <1>3, ListOf

LEMMA AskedTyped ==
  ASSUME call.in \in ResumeInputs
  PROVE  Asked(call.in.replies) \in Seq(AskedFor)
<1> DEFINE r == call.in.replies
           S == Seq(AskedFor)
           a == Select("basic", <<r.basic.picks[1]>>)
           b == Select("education", <<FlattenSeq(r.education.picks)>>)
           c == Select("skills", <<r.basic.picks[2]>>)
           d == Select("work", r.work.picks)
           e == Select("project", r.project.picks)
           f == Select("other", <<r.basic.picks[3]>>)
<1>1. /\ r.basic.picks \in Seq(Seq(Int)) /\ Len(r.basic.picks) = 3 /\ r.education.picks \in Seq(Seq(Int))
      /\ r.work.picks \in Seq(Seq(Int)) /\ r.project.picks \in Seq(Seq(Int))
  BY ResumeTyped
<1>2. r.basic.picks[1] \in Seq(Int) /\ r.basic.picks[2] \in Seq(Int) /\ r.basic.picks[3] \in Seq(Int)
  <2>1. 1 \in 1..Len(r.basic.picks) /\ 2 \in 1..Len(r.basic.picks) /\ 3 \in 1..Len(r.basic.picks)
    BY <1>1
  <2> QED
    BY <1>1, <2>1, ElementOfSeq
<1>3. FlattenSeq(r.education.picks) \in Seq(Int)
  <2> DEFINE q == r.education.picks
             R == Int \X Int
  <2>1. ASSUME NEW i \in 1..Len(q)
        PROVE  Rising(q[i], R)
    <3>1. q[i] \in Seq(Int)
      BY <1>1, ElementOfSeq
    <3>2. \A x, y \in 1..Len(q[i]) : q[i][x] \in Int /\ q[i][y] \in Int
      BY <3>1, ElementOfSeq
    <3> QED
      BY <3>2 DEF Rising
  <2>2. ASSUME NEW i \in 1..Len(q), NEW j \in 1..Len(q), NEW x \in ToSet(q[i]), NEW y \in ToSet(q[j])
        PROVE  <<x, y>> \in R
    <3>1. q[i] \in Seq(Int) /\ q[j] \in Seq(Int)
      BY <1>1, ElementOfSeq
    <3>2. x \in Int /\ y \in Int
      BY <3>1, InList
    <3> QED
      BY <3>2
  <2>3. q \in Seq(Seq(Int))
    BY <1>1
  <2> HIDE DEF q, R
  <2>4. FlattenSeq(q) \in Seq(Int)
    BY <2>1, <2>2, <2>3, FlattenRises
  <2> QED
    BY <2>4 DEF q
<1>4. \A q \in Seq(Int) : <<q>> \in Seq(Seq(Int))
  OBVIOUS
<1>5. a \in S /\ b \in S /\ c \in S
  <2>1. /\ <<r.basic.picks[1]>> \in Seq(Seq(Int)) /\ <<FlattenSeq(r.education.picks)>> \in Seq(Seq(Int))
        /\ <<r.basic.picks[2]>> \in Seq(Seq(Int))
    BY <1>2, <1>3, <1>4
  <2> QED
    BY <2>1, SelectIs
<1>6. d \in S /\ e \in S /\ f \in S
  <2>1. <<r.basic.picks[3]>> \in Seq(Seq(Int))
    BY <1>2, <1>4
  <2> QED
    BY <1>1, <2>1, SelectIs
<1>7. Asked(r) = a \o b \o c \o d \o e \o f
  BY DEF Asked
<1> HIDE DEF a, b, c, d, e, f, r
<1>8. a \o b \in S /\ a \o b \o c \in S /\ a \o b \o c \o d \in S /\ a \o b \o c \o d \o e \in S
      /\ a \o b \o c \o d \o e \o f \in S
  BY <1>5, <1>6
<1> QED
  BY <1>7, <1>8 DEF r

AskedGroups == Asked(call.in.replies)

FirstGroups == [groups |-> <<>>, used |-> {}]

GroupsSelected == FoldLeft(AppendGroup, FirstGroups, AskedGroups)

LEMMA FirstGroupsTyped ==
  FirstGroups \in GroupState /\ GroupsHold(FirstGroups)
<1>1. FirstGroups.groups = <<>> /\ FirstGroups.used = {} /\ Len(<<>>) = 0
  BY DEF FirstGroups
<1>2. GroupsHold(FirstGroups)
  BY <1>1 DEF GroupsHold
<1>3. <<>> \in Seq(GroupsMade)
  OBVIOUS
<1> QED
  BY <1>2, <1>3 DEF FirstGroups, GroupState

GroupCourse(F, asked) ==
  /\ F[0] = FirstGroups /\ F[Len(asked)] \in GroupState
  /\ \A k \in 1..Len(asked) :
       F[k] \in GroupState /\ F[k - 1] \in GroupState /\ F[k] = AppendGroup(F[k - 1], asked[k])

LEMMA AskedPlaces ==
  ASSUME call.in \in ResumeInputs
  PROVE  /\ Len(AskedGroups) \in Nat /\ DOMAIN AskedGroups = 1..Len(AskedGroups)
         /\ \A k \in 1..Len(AskedGroups) : AskedGroups[k] \in AskedFor
<1>1. AskedGroups \in Seq(AskedFor)
  BY AskedTyped DEF AskedGroups
<1> QED
  BY <1>1, LenProperties, ElementOfSeq

LEMMA GroupFold ==
  ASSUME call.in \in ResumeInputs
  PROVE  \E F : GroupCourse(F, AskedGroups) /\ GroupsSelected = F[Len(AskedGroups)]
<1> DEFINE n == Len(AskedGroups)
           X == GroupState
           step == [p \in X \X (1..n) |-> AppendGroup(p[1], AskedGroups[p[2]])]
           Folds(it) == it = [s \in SUBSET (DOMAIN AskedGroups) |->
                                IF s = {} THEN FirstGroups ELSE AppendGroup(it[s \ {Max(s)}], AskedGroups[Max(s)])]
           it == CHOOSE it : Folds(it)
<1>1. n \in Nat /\ DOMAIN AskedGroups = 1..n /\ FirstGroups \in X
  BY AskedPlaces, FirstGroupsTyped
<1>2. ASSUME NEW p \in X, NEW k \in 1..n
      PROVE  <<p, k>> \in X \X (1..n) /\ step[<<p, k>>] = AppendGroup(p, AskedGroups[k])
             /\ AppendGroup(p, AskedGroups[k]) \in X
  <2>1. AppendGroup(p, AskedGroups[k]) \in X
    BY <1>1, GroupStep, AskedPlaces
  <2>2. <<p, k>> \in X \X (1..n) /\ <<p, k>>[1] = p /\ <<p, k>>[2] = k
    OBVIOUS
  <2> HIDE DEF X, n
  <2> QED
    BY <2>1, <2>2
<1>3. step \in [X \X (1..n) -> X]
  <2>1. ASSUME NEW p \in X \X (1..n)
        PROVE  AppendGroup(p[1], AskedGroups[p[2]]) \in X
    <3>1. p[1] \in X /\ p[2] \in 1..n
      OBVIOUS
    <3> HIDE DEF X
    <3> QED
      BY <1>2, <3>1
  <2> QED
    BY <2>1
<1>4. GroupsSelected = it[1..n]
  <2>1. GroupsSelected = it[DOMAIN AskedGroups]
    BY DEF GroupsSelected, FoldLeft, MapThenFoldSet
  <2> HIDE DEF it
  <2> QED
    BY <1>1, <2>1
<1> HIDE DEF step, n, X
<1>5. PICK g : FoldsSets(g, n, X, FirstGroups, step)
  BY <1>1, <1>3, FoldRecursion
<1>6. ASSUME NEW s \in SUBSET (1..n), s # {}
      PROVE  Max(s) \in 1..n /\ s \ {Max(s)} \in SUBSET (1..n)
  <2>1. s \subseteq Nat /\ \A x \in s : x <= n
    BY <1>1
  <2>2. Max(s) \in s
    BY <1>1, <1>6, <2>1, NatMax
  <2> QED
    BY <2>2
<1>7. Folds(g)
  <2>1. ASSUME NEW s \in SUBSET (1..n)
        PROVE  g[s] = IF s = {} THEN FirstGroups ELSE AppendGroup(g[s \ {Max(s)}], AskedGroups[Max(s)])
    <3>1. CASE s = {}
      BY <1>5, <3>1 DEF FoldsSets
    <3>2. CASE s # {}
      <4>1. Max(s) \in 1..n /\ g[s \ {Max(s)}] \in X
        BY <1>5, <1>6, <3>2 DEF FoldsSets
      <4>2. g[s] = step[<<g[s \ {Max(s)}], Max(s)>>]
        BY <1>5, <3>2 DEF FoldsSets
      <4>3. step[<<g[s \ {Max(s)}], Max(s)>>] = AppendGroup(g[s \ {Max(s)}], AskedGroups[Max(s)])
        BY <1>2, <4>1
      <4> QED
        BY <3>2, <4>2, <4>3
    <3> QED
      BY <3>1, <3>2
  <2>2. g \in [SUBSET (1..n) -> X]
    BY <1>5 DEF FoldsSets
  <2> QED
    BY <1>1, <2>1, <2>2
<1>8. Folds(it)
  <2> HIDE DEF Folds
  <2> QED
    BY <1>7
<1>9. \A s \in SUBSET (1..n) :
         it[s] = IF s = {} THEN FirstGroups ELSE AppendGroup(it[s \ {Max(s)}], AskedGroups[Max(s)])
  <2> HIDE DEF it
  <2> QED
    BY <1>1, <1>8
<1> HIDE DEF it, Folds
<1>10. SolvesFold(it, n, X, FirstGroups, step)
  <2>1. {} \in SUBSET (1..n)
    OBVIOUS
  <2>2. ASSUME NEW s \in SUBSET (1..n), s # {}, it[s \ {Max(s)}] \in X
        PROVE  it[s] = step[<<it[s \ {Max(s)}], Max(s)>>]
    <3>1. Max(s) \in 1..n
      BY <1>6, <2>2
    <3>2. it[s] = AppendGroup(it[s \ {Max(s)}], AskedGroups[Max(s)])
      BY <1>9, <2>2
    <3>3. step[<<it[s \ {Max(s)}], Max(s)>>] = AppendGroup(it[s \ {Max(s)}], AskedGroups[Max(s)])
      BY <1>2, <2>2, <3>1
    <3> QED
      BY <3>2, <3>3
  <2> QED
    BY <1>9, <2>1, <2>2 DEF SolvesFold
<1>11. PICK F : FoldsUp(F, it, n, X, FirstGroups, step)
  BY <1>1, <1>3, <1>10, FoldCourse
<1>12. ASSUME NEW k \in 1..n
       PROVE  F[k] \in X /\ F[k - 1] \in X /\ F[k] = AppendGroup(F[k - 1], AskedGroups[k])
  <2>1. F[k] = step[<<F[k - 1], k>>] /\ F[k - 1] \in X /\ F[k] \in X
    BY <1>11 DEF FoldsUp
  <2>2. F[k] = AppendGroup(F[k - 1], AskedGroups[k])
    BY <1>2, <2>1
  <2> QED
    BY <2>1, <2>2
<1>13. F[0] = FirstGroups /\ F[n] = it[1..n] /\ F[n] \in X
  <2>1. n \in 0..n
    BY <1>1
  <2> QED
    BY <1>11, <2>1 DEF FoldsUp
<1> QED
  BY <1>4, <1>12, <1>13 DEF GroupCourse, n, X

LEMMA GroupsSelectedHold ==
  ASSUME call.in \in ResumeInputs
  PROVE  GroupsSelected \in GroupState /\ GroupsHold(GroupsSelected)
<1> DEFINE n == Len(AskedGroups)
<1>1. n \in Nat /\ \A k \in 1..n : AskedGroups[k] \in AskedFor
  BY AskedPlaces
<1>2. PICK F : GroupCourse(F, AskedGroups) /\ GroupsSelected = F[n]
  BY GroupFold
<1>3. /\ F[0] = FirstGroups /\ F[n] \in GroupState
      /\ \A k \in 1..n : F[k] \in GroupState /\ F[k - 1] \in GroupState /\ F[k] = AppendGroup(F[k - 1], AskedGroups[k])
  BY <1>2 DEF GroupCourse
<1> HIDE DEF n
<1> DEFINE G == {k \in 0..n : GroupsHold(F[k])}
<1>4. 0 \in G
  BY <1>1, <1>3, FirstGroupsTyped
<1>5. ASSUME NEW k \in 0..(n - 1), k \in G
      PROVE  k + 1 \in G
  <2> DEFINE m == k + 1
  <2>1. m \in 1..n /\ m - 1 = k /\ m \in 0..n
    BY <1>1
  <2> HIDE DEF m
  <2>2. F[m] = AppendGroup(F[k], AskedGroups[m]) /\ F[k] \in GroupState /\ AskedGroups[m] \in AskedFor
    BY <1>1, <1>3, <2>1
  <2>3. GroupsHold(F[k])
    BY <1>5
  <2>4. GroupsHold(F[m])
    BY <2>2, <2>3, GroupStep
  <2> QED
    BY <2>1, <2>4 DEF m
<1>6. 0..n \subseteq G
  <2> HIDE DEF G
  <2> QED
    BY <1>1, <1>4, <1>5, CountingUp
<1> QED
  BY <1>1, <1>2, <1>3, <1>6

\* Whatever the model answers, its groups hold every line that is no heading,
\* each once and in order.
LEMMA SelectionKeeps ==
  ASSUME call.in \in ResumeInputs, NEW groups, groups = selectionsToResumeGroups(call.in.replies)
  PROVE  /\ groups \in Seq(GroupsMade)
         /\ \A i \in 1..Len(groups) : Rising(groups[i].lines, Less)
         /\ \A i, j \in 1..Len(groups) : i < j =>
              \A a \in ToSet(groups[i].lines) : \A b \in ToSet(groups[j].lines) : a # b
         /\ \A k \in 1..N : ~Head0(k) => \E i \in 1..Len(groups) : k \in ToSet(groups[i].lines)
<1> DEFINE s == GroupsSelected
           U == {k \in 1..N : k \notin s.used /\ ~Head0(k)}
           g == [section |-> "other", picks |-> Unassigned(s.used)]
           t == AppendGroup(s, g)
<1>1. s \in GroupState /\ GroupsHold(s)
  BY GroupsSelectedHold
<1>2. groups = t.groups
  BY DEF selectionsToResumeGroups, GroupsSelected, FirstGroups, AskedGroups
<1> HIDE DEF s
<1>3. /\ Unassigned(s.used) \in Seq(U)
      /\ \A x : x \in ToSet(Unassigned(s.used)) <=> x \in U
  <2>1. U \subseteq 1..N /\ N \in Nat
    BY ResumeTyped
  <2>2. Unassigned(s.used) = Ascending(U)
    BY DEF Unassigned
  <2> HIDE DEF U
  <2> QED
    BY <2>1, <2>2, AscendingIs
<1>4. g \in AskedFor
  <2>1. U \subseteq Int
    <3>1. N \in Nat
      BY ResumeTyped
    <3> QED
      BY <3>1
  <2>2. Unassigned(s.used) \in Seq(Int)
    <3> DEFINE q == Unassigned(s.used)
    <3>1. q \in Seq(U)
      BY <1>3
    <3> HIDE DEF q, U
    <3>2. q \in Seq(Int)
      BY <2>1, <3>1, ListWider
    <3> QED
      BY <3>2 DEF q
  <2> QED
    BY <2>2 DEF AskedFor
<1>5. /\ t \in GroupState /\ GroupsHold(t) /\ t.used = s.used \cup Fresh(s, g)
  <2> HIDE DEF g
  <2> QED
    BY <1>1, <1>4, GroupStep
<1>6. \A k \in 1..N : ~Head0(k) => k \in t.used
  BY <1>3, <1>5 DEF Fresh
<1> HIDE DEF t
<1>7. groups \in Seq(GroupsMade)
  BY <1>2, <1>5 DEF GroupState
<1> QED
  BY <1>2, <1>5, <1>6, <1>7 DEF GroupsHold

-----------------------------------------------------------------------------
(* The groups that the rules make.                                         *)

Word(k) == Lines[k].says

\* Lines that are left out repeat what the line before them says.
CompactHolds(q, out, k) ==
  /\ Rising(out, Less) /\ (k > 0 => out # <<>>)
  /\ \A x \in ToSet(out) : \E j \in 1..k : q[j] = x
  /\ out # <<>> => \E m \in 1..k : q[m] = Last(out) /\ \A l \in m..k : Word(q[l]) = Word(q[m])
  /\ \A j \in 1..k : q[j] \in ToSet(out) \/ \E m \in 1..(j - 1) : \A l \in m..j : Word(q[l]) = Word(q[m])

LEMMA CompactTyped ==
  ASSUME call.in \in ResumeInputs, NEW out \in Seq(LineSet), NEW k \in LineSet
  PROVE  Compacted(out, k) \in Seq(LineSet)
<1>1. Append(out, k) \in Seq(LineSet)
  BY AppendProperties
<1> QED
  BY <1>1 DEF Compacted

LEMMA CompactStep ==
  ASSUME call.in \in ResumeInputs, NEW q \in Seq(LineSet), Rising(q, Less), NEW out \in Seq(LineSet),
         NEW k \in 1..Len(q), CompactHolds(q, out, k - 1)
  PROVE  CompactHolds(q, Compacted(out, q[k]), k)
<1> DEFINE x == q[k]
           t == Compacted(out, x)
<1>1. Len(q) \in Nat /\ k \in Nat /\ x \in LineSet /\ LineSet \subseteq Nat /\ k > 0
  <2>1. Len(q) \in Nat
    BY LenProperties
  <2>2. x \in LineSet
    BY ElementOfSeq
  <2>3. LineSet \subseteq Nat
    BY ResumeTyped
  <2> HIDE DEF x
  <2> QED
    BY <2>1, <2>2, <2>3
<1>2. \A j \in 1..k : j \in 1..(k - 1) \/ j = k
  BY <1>1
<1>3. /\ Rising(out, Less)
      /\ \A y \in ToSet(out) : \E j \in 1..(k - 1) : q[j] = y
      /\ out # <<>> => \E m \in 1..(k - 1) : q[m] = Last(out) /\ \A l \in m..(k - 1) : Word(q[l]) = Word(q[m])
      /\ \A j \in 1..(k - 1) :
           q[j] \in ToSet(out) \/ \E m \in 1..(j - 1) : \A l \in m..j : Word(q[l]) = Word(q[m])
  BY DEF CompactHolds
<1>4. CASE out # <<>> /\ Word(Last(out)) = Word(x)
  <2>1. t = out
    BY <1>4 DEF Compacted, Word
  <2>2. PICK m \in 1..(k - 1) : q[m] = Last(out) /\ \A l \in m..(k - 1) : Word(q[l]) = Word(q[m])
    BY <1>3, <1>4
  <2>3. \A l \in m..k : Word(q[l]) = Word(q[m])
    <3>1. \A l \in m..k : l \in m..(k - 1) \/ l = k
      BY <1>1
    <3> QED
      BY <1>4, <2>2, <3>1
  <2>4. m \in 1..k
    BY <1>1, <2>2
  <2> HIDE DEF t, x
  <2>5. \E i \in 1..k : q[i] = Last(t) /\ \A l \in i..k : Word(q[l]) = Word(q[i])
    BY <2>1, <2>2, <2>3, <2>4
  <2>6. \A y \in ToSet(t) : \E j \in 1..k : q[j] = y
    <3>1. \A j \in 1..(k - 1) : j \in 1..k
      BY <1>1
    <3> QED
      BY <1>3, <2>1, <3>1
  <2>7. \A j \in 1..k : q[j] \in ToSet(t) \/ \E i \in 1..(j - 1) : \A l \in i..j : Word(q[l]) = Word(q[i])
    BY <1>2, <1>3, <2>1, <2>2, <2>3
  <2> QED
    BY <1>3, <1>4, <2>1, <2>5, <2>6, <2>7 DEF CompactHolds, t, x
<1>5. CASE ~(out # <<>> /\ Word(Last(out)) = Word(x))
  <2>1. t = Append(out, x)
    BY <1>5 DEF Compacted, Word
  <2> HIDE DEF t
  <2>2. /\ t \in Seq(LineSet) /\ t # <<>> /\ Len(t) = Len(out) + 1 /\ t[Len(out) + 1] = x
        /\ \A y : y \in ToSet(t) <=> y \in ToSet(out) \/ y = x
    BY <1>1, <2>1, AppendIs
  <2>3. Rising(t, Less)
    <3>1. ASSUME NEW y \in ToSet(out)
          PROVE  y < x
      <4>1. PICK j \in 1..(k - 1) : q[j] = y
        BY <1>3
      <4>2. j \in 1..Len(q) /\ j < k
        BY <1>1, <4>1
      <4>3. <<y, x>> \in Less
        BY <4>1, <4>2 DEF Rising
      <4>4. y \in Nat
        BY <1>1, InList
      <4> QED
        BY <1>1, <4>3, <4>4, LessIs
    <3> HIDE DEF x
    <3> QED
      BY <1>1, <1>3, <2>1, <3>1, AppendRises
  <2>4. Last(t) = x
    BY <2>2 DEF Last
  <2>5. k \in 1..k /\ \A l \in k..k : l = k
    BY <1>1
  <2>6. \E i \in 1..k : q[i] = Last(t) /\ \A l \in i..k : Word(q[l]) = Word(q[i])
    BY <2>4, <2>5
  <2>7. \A y \in ToSet(t) : \E j \in 1..k : q[j] = y
    <3>1. \A j \in 1..(k - 1) : j \in 1..k
      BY <1>1
    <3> QED
      BY <1>3, <2>2, <2>5, <3>1
  <2>8. \A j \in 1..k : q[j] \in ToSet(t) \/ \E i \in 1..(j - 1) : \A l \in i..j : Word(q[l]) = Word(q[i])
    BY <1>2, <1>3, <2>2
  <2> QED
    BY <2>2, <2>3, <2>6, <2>7, <2>8 DEF CompactHolds, t, x
<1> QED
  BY <1>4, <1>5

LEMMA LinesPlaces ==
  ASSUME call.in \in ResumeInputs, NEW q \in Seq(LineSet)
  PROVE  /\ Len(q) \in Nat /\ DOMAIN q = 1..Len(q) /\ <<>> \in Seq(LineSet) /\ <<>> \in Seq(Seq(LineSet))
         /\ \A k \in 1..Len(q) : q[k] \in LineSet
<1>1. <<>> \in Seq(LineSet) /\ <<>> \in Seq(Seq(LineSet))
  OBVIOUS
<1> QED
  BY <1>1, LenProperties, ElementOfSeq

CompactCourse(F, q) ==
  /\ F[0] = <<>> /\ F[Len(q)] \in Seq(LineSet)
  /\ \A k \in 1..Len(q) :
       F[k] \in Seq(LineSet) /\ F[k - 1] \in Seq(LineSet) /\ F[k] = Compacted(F[k - 1], q[k])

LEMMA CompactFold ==
  ASSUME call.in \in ResumeInputs, NEW q \in Seq(LineSet)
  PROVE  \E F : CompactCourse(F, q) /\ compactResumeLines(q) = F[Len(q)]
<1> DEFINE n == Len(q)
           X == Seq(LineSet)
           step == [p \in X \X (1..n) |-> Compacted(p[1], q[p[2]])]
           Folds(it) == it = [s \in SUBSET (DOMAIN q) |->
                                IF s = {} THEN <<>> ELSE Compacted(it[s \ {Max(s)}], q[Max(s)])]
           it == CHOOSE it : Folds(it)
<1>1. n \in Nat /\ DOMAIN q = 1..n /\ <<>> \in X
  BY LinesPlaces
<1>2. ASSUME NEW p \in X, NEW k \in 1..n
      PROVE  <<p, k>> \in X \X (1..n) /\ step[<<p, k>>] = Compacted(p, q[k])
             /\ Compacted(p, q[k]) \in X
  <2>1. Compacted(p, q[k]) \in X
    BY <1>1, CompactTyped, LinesPlaces
  <2>2. <<p, k>> \in X \X (1..n) /\ <<p, k>>[1] = p /\ <<p, k>>[2] = k
    OBVIOUS
  <2> HIDE DEF X, n
  <2> QED
    BY <2>1, <2>2
<1>3. step \in [X \X (1..n) -> X]
  <2>1. ASSUME NEW p \in X \X (1..n)
        PROVE  Compacted(p[1], q[p[2]]) \in X
    <3>1. p[1] \in X /\ p[2] \in 1..n
      OBVIOUS
    <3> HIDE DEF X
    <3> QED
      BY <1>2, <3>1
  <2> QED
    BY <2>1
<1>4. compactResumeLines(q) = it[1..n]
  <2>1. compactResumeLines(q) = it[DOMAIN q]
    BY DEF compactResumeLines, FoldLeft, MapThenFoldSet
  <2> HIDE DEF it
  <2> QED
    BY <1>1, <2>1
<1> HIDE DEF step, n, X
<1>5. PICK g : FoldsSets(g, n, X, <<>>, step)
  BY <1>1, <1>3, FoldRecursion
<1>6. ASSUME NEW s \in SUBSET (1..n), s # {}
      PROVE  Max(s) \in 1..n /\ s \ {Max(s)} \in SUBSET (1..n)
  <2>1. s \subseteq Nat /\ \A x \in s : x <= n
    BY <1>1
  <2>2. Max(s) \in s
    BY <1>1, <1>6, <2>1, NatMax
  <2> QED
    BY <2>2
<1>7. Folds(g)
  <2>1. ASSUME NEW s \in SUBSET (1..n)
        PROVE  g[s] = IF s = {} THEN <<>> ELSE Compacted(g[s \ {Max(s)}], q[Max(s)])
    <3>1. CASE s = {}
      BY <1>5, <3>1 DEF FoldsSets
    <3>2. CASE s # {}
      <4>1. Max(s) \in 1..n /\ g[s \ {Max(s)}] \in X
        BY <1>5, <1>6, <3>2 DEF FoldsSets
      <4>2. g[s] = step[<<g[s \ {Max(s)}], Max(s)>>]
        BY <1>5, <3>2 DEF FoldsSets
      <4>3. step[<<g[s \ {Max(s)}], Max(s)>>] = Compacted(g[s \ {Max(s)}], q[Max(s)])
        BY <1>2, <4>1
      <4> QED
        BY <3>2, <4>2, <4>3
    <3> QED
      BY <3>1, <3>2
  <2>2. g \in [SUBSET (1..n) -> X]
    BY <1>5 DEF FoldsSets
  <2> QED
    BY <1>1, <2>1, <2>2
<1>8. Folds(it)
  <2> HIDE DEF Folds
  <2> QED
    BY <1>7
<1>9. \A s \in SUBSET (1..n) :
         it[s] = IF s = {} THEN <<>> ELSE Compacted(it[s \ {Max(s)}], q[Max(s)])
  <2> HIDE DEF it
  <2> QED
    BY <1>1, <1>8
<1> HIDE DEF it, Folds
<1>10. SolvesFold(it, n, X, <<>>, step)
  <2>1. {} \in SUBSET (1..n)
    OBVIOUS
  <2>2. ASSUME NEW s \in SUBSET (1..n), s # {}, it[s \ {Max(s)}] \in X
        PROVE  it[s] = step[<<it[s \ {Max(s)}], Max(s)>>]
    <3>1. Max(s) \in 1..n
      BY <1>6, <2>2
    <3>2. it[s] = Compacted(it[s \ {Max(s)}], q[Max(s)])
      BY <1>9, <2>2
    <3>3. step[<<it[s \ {Max(s)}], Max(s)>>] = Compacted(it[s \ {Max(s)}], q[Max(s)])
      BY <1>2, <2>2, <3>1
    <3> QED
      BY <3>2, <3>3
  <2> QED
    BY <1>9, <2>1, <2>2 DEF SolvesFold
<1>11. PICK F : FoldsUp(F, it, n, X, <<>>, step)
  BY <1>1, <1>3, <1>10, FoldCourse
<1>12. ASSUME NEW k \in 1..n
       PROVE  F[k] \in X /\ F[k - 1] \in X /\ F[k] = Compacted(F[k - 1], q[k])
  <2>1. F[k] = step[<<F[k - 1], k>>] /\ F[k - 1] \in X /\ F[k] \in X
    BY <1>11 DEF FoldsUp
  <2>2. F[k] = Compacted(F[k - 1], q[k])
    BY <1>2, <2>1
  <2> QED
    BY <2>1, <2>2
<1>13. F[0] = <<>> /\ F[n] = it[1..n] /\ F[n] \in X
  <2>1. n \in 0..n
    BY <1>1
  <2> QED
    BY <1>11, <2>1 DEF FoldsUp
<1> QED
  BY <1>4, <1>12, <1>13 DEF CompactCourse, n, X

LEMMA CompactAll ==
  ASSUME call.in \in ResumeInputs, NEW q \in Seq(LineSet), Rising(q, Less)
  PROVE  compactResumeLines(q) \in Seq(LineSet) /\ CompactHolds(q, compactResumeLines(q), Len(q))
<1> DEFINE n == Len(q)
<1>1. n \in Nat /\ \A k \in 1..n : q[k] \in LineSet
  BY LinesPlaces
<1>2. PICK F : CompactCourse(F, q) /\ compactResumeLines(q) = F[n]
  BY CompactFold
<1>3. /\ F[0] = <<>> /\ F[n] \in Seq(LineSet)
      /\ \A k \in 1..n : F[k] \in Seq(LineSet) /\ F[k - 1] \in Seq(LineSet) /\ F[k] = Compacted(F[k - 1], q[k])
  BY <1>2 DEF CompactCourse
<1> DEFINE G == {k \in 0..n : CompactHolds(q, F[k], k)}
<1>4. 0 \in G
  <2>1. CompactHolds(q, <<>>, 0)
    BY DEF CompactHolds, Rising, ToSet
  <2> HIDE DEF n
  <2> QED
    BY <1>1, <1>3, <2>1
<1>5. ASSUME NEW k \in 0..(n - 1), k \in G
      PROVE  k + 1 \in G
  <2> DEFINE m == k + 1
  <2>1. m \in 1..n /\ m - 1 = k /\ m \in 0..n
    BY <1>1
  <2> HIDE DEF m
  <2>2. F[m] = Compacted(F[k], q[m]) /\ F[k] \in Seq(LineSet)
    BY <1>3, <2>1
  <2>3. CompactHolds(q, F[k], m - 1)
    BY <1>5, <2>1
  <2>4. CompactHolds(q, F[m], m)
    BY <2>1, <2>2, <2>3, CompactStep
  <2> HIDE DEF n
  <2> QED
    BY <2>1, <2>4 DEF m
<1>6. 0..n \subseteq G
  <2> HIDE DEF G, n
  <2> QED
    BY <1>1, <1>4, <1>5, CountingUp
<1> HIDE DEF n
<1>7. CompactHolds(q, F[n], n)
  BY <1>1, <1>6
<1> QED
  BY <1>2, <1>3, <1>7 DEF n

\* The entries hold the lines in their order.
EntriesHold(q, es, k) ==
  /\ \A i \in 1..Len(es) : Rising(es[i], Less)
  /\ \A i, j \in 1..Len(es) : i < j => Before(es[i], es[j])
  /\ \A i \in 1..Len(es) : \A x \in ToSet(es[i]) : \E j \in 1..k : q[j] = x
  /\ \A j \in 1..k : \E i \in 1..Len(es) : q[j] \in ToSet(es[i])

LEMMA EntriesTyped ==
  ASSUME call.in \in ResumeInputs, NEW es \in Seq(Seq(LineSet)), NEW k \in LineSet
  PROVE  AddToEntries(es, k) \in Seq(Seq(LineSet))
<1>1. <<k>> \in Seq(LineSet)
  BY SingleIs
<1>2. Append(es, <<k>>) \in Seq(Seq(LineSet))
  BY <1>1, AppendProperties
<1>3. CASE es = <<>>
  BY <1>2, <1>3 DEF AddToEntries
<1>4. CASE es # <<>>
  <2> DEFINE n == Len(es)
             e == Append(es[n], k)
  <2>1. n \in 1..Len(es)
    BY <1>4, LenProperties, EmptySeq
  <2>2. e \in Seq(LineSet)
    BY <2>1, ElementOfSeq, AppendProperties
  <2> HIDE DEF e
  <2>3. [es EXCEPT ![n] = e] \in Seq(Seq(LineSet))
    BY <2>1, <2>2, ListExcept
  <2> QED
    BY <1>2, <2>3 DEF AddToEntries, e
<1> QED
  BY <1>3, <1>4

LEMMA EntriesStep ==
  ASSUME call.in \in ResumeInputs, NEW q \in Seq(LineSet), Rising(q, Less), NEW es \in Seq(Seq(LineSet)),
         NEW k \in 1..Len(q), EntriesHold(q, es, k - 1)
  PROVE  EntriesHold(q, AddToEntries(es, q[k]), k)
<1> DEFINE x == q[k]
           t == AddToEntries(es, x)
           n == Len(es)
<1>1. Len(q) \in Nat /\ k \in Nat /\ x \in LineSet /\ LineSet \subseteq Nat /\ x \in Nat
  <2>1. Len(q) \in Nat
    BY LenProperties
  <2>2. x \in LineSet
    BY ElementOfSeq
  <2>3. LineSet \subseteq Nat
    BY ResumeTyped
  <2> HIDE DEF x
  <2> QED
    BY <2>1, <2>2, <2>3
<1>2. /\ \A j \in 1..k : j \in 1..(k - 1) \/ j = k
      /\ \A j \in 1..(k - 1) : j \in 1..k
      /\ k \in 1..k
  BY <1>1
<1>3. /\ \A i \in 1..n : Rising(es[i], Less)
      /\ \A i, j \in 1..n : i < j => Before(es[i], es[j])
      /\ \A i \in 1..n : \A y \in ToSet(es[i]) : \E j \in 1..(k - 1) : q[j] = y
      /\ \A j \in 1..(k - 1) : \E i \in 1..n : q[j] \in ToSet(es[i])
  BY DEF EntriesHold
<1>4. n \in Nat /\ \A i \in 1..n : es[i] \in Seq(LineSet)
  BY LenProperties, ElementOfSeq
<1>5. \A i \in 1..n : \A y \in ToSet(es[i]) : y < x /\ <<y, x>> \in Less
  <2>1. ASSUME NEW i \in 1..n, NEW y \in ToSet(es[i])
        PROVE  y < x /\ <<y, x>> \in Less
    <3>1. PICK j \in 1..(k - 1) : q[j] = y
      BY <1>3
    <3>2. j \in 1..Len(q) /\ j < k
      BY <1>1, <3>1
    <3>3. <<y, x>> \in Less
      BY <3>1, <3>2 DEF Rising
    <3>4. y \in Nat
      BY <1>1, <1>4, InList
    <3> QED
      BY <1>1, <3>3, <3>4, LessIs
  <2> QED
    BY <2>1
<1>6. CASE t = Append(es, <<x>>)
  <2> HIDE DEF t
  <2>1. <<x>> \in Seq(LineSet) /\ Rising(<<x>>, Less) /\ \A y : y \in ToSet(<<x>>) <=> y = x
    BY <1>1, SingleIs
  <2> HIDE DEF x
  <2>2. /\ Len(t) = n + 1 /\ t[n + 1] = <<x>>
        /\ \A i \in 1..n : i \in 1..(n + 1) /\ t[i] = es[i]
    BY <1>6, <2>1, AppendIs
  <2> HIDE DEF n
  <2>3. /\ \A i \in 1..(n + 1) : i \in 1..n \/ i = n + 1
        /\ \A i, j \in 1..(n + 1) : i < j => i \in 1..n
        /\ n + 1 \in 1..(n + 1)
    BY <1>4
  <2>4. \A i \in 1..(n + 1) : Rising(t[i], Less)
    BY <1>3, <2>1, <2>2, <2>3
  <2>5. \A i, j \in 1..(n + 1) : i < j => Before(t[i], t[j])
    <3>1. \A i \in 1..n : Before(es[i], <<x>>)
      BY <1>5, <2>1 DEF Before
    <3> QED
      BY <1>3, <2>2, <2>3, <3>1
  <2>6. \A i \in 1..(n + 1) : \A y \in ToSet(t[i]) : \E j \in 1..k : q[j] = y
    BY <1>2, <1>3, <2>1, <2>2, <2>3 DEF x
  <2>7. \A j \in 1..k : \E i \in 1..(n + 1) : q[j] \in ToSet(t[i])
    BY <1>2, <1>3, <2>1, <2>2, <2>3 DEF x
  <2> QED
    BY <2>2, <2>4, <2>5, <2>6, <2>7 DEF EntriesHold, t, x
<1>7. CASE es # <<>> /\ t = [es EXCEPT ![n] = Append(es[n], x)]
  <2> DEFINE e == Append(es[n], x)
  <2> HIDE DEF t
  <2>1. n \in 1..n
    BY <1>4, <1>7, EmptySeq
  <2>2. es[n] \in Seq(LineSet) /\ Rising(es[n], Less) /\ \A y \in ToSet(es[n]) : y < x
    BY <1>3, <1>4, <1>5, <2>1
  <2> HIDE DEF x
  <2>3. e \in Seq(LineSet) /\ \A y : y \in ToSet(e) <=> y \in ToSet(es[n]) \/ y = x
    BY <1>1, <2>2, AppendIs
  <2>4. Rising(e, Less)
    BY <1>1, <2>2, AppendRises
  <2> HIDE DEF e
  <2>5. Len(t) = n /\ \A i \in 1..n : t[i] = IF i = n THEN e ELSE es[i]
    <3>1. t = [es EXCEPT ![n] = e]
      BY <1>7 DEF e
    <3> QED
      BY <2>1, <2>3, <3>1, ListExcept
  <2>6. \A i \in 1..n : \A y : y \in ToSet(t[i]) <=> y \in ToSet(es[i]) \/ (i = n /\ y = x)
    BY <2>3, <2>5
  <2> HIDE DEF n
  <2>7. \A i \in 1..n : Rising(t[i], Less)
    BY <1>3, <2>4, <2>5
  <2>8. \A i, j \in 1..n : i < j => Before(t[i], t[j])
    <3>1. ASSUME NEW i \in 1..n, NEW j \in 1..n, i < j
          PROVE  Before(t[i], t[j])
      <4>1. i # n
        BY <1>4, <3>1
      <4>2. Before(es[i], es[j]) /\ \A y \in ToSet(es[i]) : <<y, x>> \in Less
        BY <1>3, <1>5, <3>1
      <4> QED
        BY <2>6, <3>1, <4>1, <4>2 DEF Before
    <3> QED
      BY <3>1
  <2>9. \A i \in 1..n : \A y \in ToSet(t[i]) : \E j \in 1..k : q[j] = y
    BY <1>2, <1>3, <2>6 DEF x
  <2>10. \A j \in 1..k : \E i \in 1..n : q[j] \in ToSet(t[i])
    BY <1>2, <1>3, <2>1, <2>6 DEF x
  <2> QED
    BY <2>5, <2>7, <2>8, <2>9, <2>10 DEF EntriesHold, t, x
<1>8. t = Append(es, <<x>>) \/ (es # <<>> /\ t = [es EXCEPT ![n] = Append(es[n], x)])
  BY DEF AddToEntries
<1> QED
  BY <1>6, <1>7, <1>8

EntriesCourse(F, q) ==
  /\ F[0] = <<>> /\ F[Len(q)] \in Seq(Seq(LineSet))
  /\ \A k \in 1..Len(q) :
       F[k] \in Seq(Seq(LineSet)) /\ F[k - 1] \in Seq(Seq(LineSet)) /\ F[k] = AddToEntries(F[k - 1], q[k])

LEMMA EntriesFold ==
  ASSUME call.in \in ResumeInputs, NEW q \in Seq(LineSet)
  PROVE  \E F : EntriesCourse(F, q) /\ splitResumeEntries(q) = F[Len(q)]
<1> DEFINE n == Len(q)
           X == Seq(Seq(LineSet))
           step == [p \in X \X (1..n) |-> AddToEntries(p[1], q[p[2]])]
           Folds(it) == it = [s \in SUBSET (DOMAIN q) |->
                                IF s = {} THEN <<>> ELSE AddToEntries(it[s \ {Max(s)}], q[Max(s)])]
           it == CHOOSE it : Folds(it)
<1>1. n \in Nat /\ DOMAIN q = 1..n /\ <<>> \in X
  BY LinesPlaces
<1>2. ASSUME NEW p \in X, NEW k \in 1..n
      PROVE  <<p, k>> \in X \X (1..n) /\ step[<<p, k>>] = AddToEntries(p, q[k])
             /\ AddToEntries(p, q[k]) \in X
  <2>1. AddToEntries(p, q[k]) \in X
    BY <1>1, EntriesTyped, LinesPlaces
  <2>2. <<p, k>> \in X \X (1..n) /\ <<p, k>>[1] = p /\ <<p, k>>[2] = k
    OBVIOUS
  <2> HIDE DEF X, n
  <2> QED
    BY <2>1, <2>2
<1>3. step \in [X \X (1..n) -> X]
  <2>1. ASSUME NEW p \in X \X (1..n)
        PROVE  AddToEntries(p[1], q[p[2]]) \in X
    <3>1. p[1] \in X /\ p[2] \in 1..n
      OBVIOUS
    <3> HIDE DEF X
    <3> QED
      BY <1>2, <3>1
  <2> QED
    BY <2>1
<1>4. splitResumeEntries(q) = it[1..n]
  <2>1. splitResumeEntries(q) = it[DOMAIN q]
    BY DEF splitResumeEntries, FoldLeft, MapThenFoldSet
  <2> HIDE DEF it
  <2> QED
    BY <1>1, <2>1
<1> HIDE DEF step, n, X
<1>5. PICK g : FoldsSets(g, n, X, <<>>, step)
  BY <1>1, <1>3, FoldRecursion
<1>6. ASSUME NEW s \in SUBSET (1..n), s # {}
      PROVE  Max(s) \in 1..n /\ s \ {Max(s)} \in SUBSET (1..n)
  <2>1. s \subseteq Nat /\ \A x \in s : x <= n
    BY <1>1
  <2>2. Max(s) \in s
    BY <1>1, <1>6, <2>1, NatMax
  <2> QED
    BY <2>2
<1>7. Folds(g)
  <2>1. ASSUME NEW s \in SUBSET (1..n)
        PROVE  g[s] = IF s = {} THEN <<>> ELSE AddToEntries(g[s \ {Max(s)}], q[Max(s)])
    <3>1. CASE s = {}
      BY <1>5, <3>1 DEF FoldsSets
    <3>2. CASE s # {}
      <4>1. Max(s) \in 1..n /\ g[s \ {Max(s)}] \in X
        BY <1>5, <1>6, <3>2 DEF FoldsSets
      <4>2. g[s] = step[<<g[s \ {Max(s)}], Max(s)>>]
        BY <1>5, <3>2 DEF FoldsSets
      <4>3. step[<<g[s \ {Max(s)}], Max(s)>>] = AddToEntries(g[s \ {Max(s)}], q[Max(s)])
        BY <1>2, <4>1
      <4> QED
        BY <3>2, <4>2, <4>3
    <3> QED
      BY <3>1, <3>2
  <2>2. g \in [SUBSET (1..n) -> X]
    BY <1>5 DEF FoldsSets
  <2> QED
    BY <1>1, <2>1, <2>2
<1>8. Folds(it)
  <2> HIDE DEF Folds
  <2> QED
    BY <1>7
<1>9. \A s \in SUBSET (1..n) :
         it[s] = IF s = {} THEN <<>> ELSE AddToEntries(it[s \ {Max(s)}], q[Max(s)])
  <2> HIDE DEF it
  <2> QED
    BY <1>1, <1>8
<1> HIDE DEF it, Folds
<1>10. SolvesFold(it, n, X, <<>>, step)
  <2>1. {} \in SUBSET (1..n)
    OBVIOUS
  <2>2. ASSUME NEW s \in SUBSET (1..n), s # {}, it[s \ {Max(s)}] \in X
        PROVE  it[s] = step[<<it[s \ {Max(s)}], Max(s)>>]
    <3>1. Max(s) \in 1..n
      BY <1>6, <2>2
    <3>2. it[s] = AddToEntries(it[s \ {Max(s)}], q[Max(s)])
      BY <1>9, <2>2
    <3>3. step[<<it[s \ {Max(s)}], Max(s)>>] = AddToEntries(it[s \ {Max(s)}], q[Max(s)])
      BY <1>2, <2>2, <3>1
    <3> QED
      BY <3>2, <3>3
  <2> QED
    BY <1>9, <2>1, <2>2 DEF SolvesFold
<1>11. PICK F : FoldsUp(F, it, n, X, <<>>, step)
  BY <1>1, <1>3, <1>10, FoldCourse
<1>12. ASSUME NEW k \in 1..n
       PROVE  F[k] \in X /\ F[k - 1] \in X /\ F[k] = AddToEntries(F[k - 1], q[k])
  <2>1. F[k] = step[<<F[k - 1], k>>] /\ F[k - 1] \in X /\ F[k] \in X
    BY <1>11 DEF FoldsUp
  <2>2. F[k] = AddToEntries(F[k - 1], q[k])
    BY <1>2, <2>1
  <2> QED
    BY <2>1, <2>2
<1>13. F[0] = <<>> /\ F[n] = it[1..n] /\ F[n] \in X
  <2>1. n \in 0..n
    BY <1>1
  <2> QED
    BY <1>11, <2>1 DEF FoldsUp
<1> QED
  BY <1>4, <1>12, <1>13 DEF EntriesCourse, n, X

LEMMA EntriesAll ==
  ASSUME call.in \in ResumeInputs, NEW q \in Seq(LineSet), Rising(q, Less)
  PROVE  splitResumeEntries(q) \in Seq(Seq(LineSet)) /\ EntriesHold(q, splitResumeEntries(q), Len(q))
<1> DEFINE n == Len(q)
<1>1. n \in Nat /\ \A k \in 1..n : q[k] \in LineSet
  BY LinesPlaces
<1>2. PICK F : EntriesCourse(F, q) /\ splitResumeEntries(q) = F[n]
  BY EntriesFold
<1>3. /\ F[0] = <<>> /\ F[n] \in Seq(Seq(LineSet))
      /\ \A k \in 1..n : F[k] \in Seq(Seq(LineSet)) /\ F[k - 1] \in Seq(Seq(LineSet)) /\ F[k] = AddToEntries(F[k - 1], q[k])
  BY <1>2 DEF EntriesCourse
<1> DEFINE G == {k \in 0..n : EntriesHold(q, F[k], k)}
<1>4. 0 \in G
  <2>1. EntriesHold(q, <<>>, 0)
    BY DEF EntriesHold, Rising, ToSet
  <2> HIDE DEF n
  <2> QED
    BY <1>1, <1>3, <2>1
<1>5. ASSUME NEW k \in 0..(n - 1), k \in G
      PROVE  k + 1 \in G
  <2> DEFINE m == k + 1
  <2>1. m \in 1..n /\ m - 1 = k /\ m \in 0..n
    BY <1>1
  <2> HIDE DEF m
  <2>2. F[m] = AddToEntries(F[k], q[m]) /\ F[k] \in Seq(Seq(LineSet))
    BY <1>3, <2>1
  <2>3. EntriesHold(q, F[k], m - 1)
    BY <1>5, <2>1
  <2>4. EntriesHold(q, F[m], m)
    BY <2>1, <2>2, <2>3, EntriesStep
  <2> HIDE DEF n
  <2> QED
    BY <2>1, <2>4 DEF m
<1>6. 0..n \subseteq G
  <2> HIDE DEF G, n
  <2> QED
    BY <1>1, <1>4, <1>5, CountingUp
<1> HIDE DEF n
<1>7. EntriesHold(q, F[n], n)
  BY <1>1, <1>6
<1> QED
  BY <1>2, <1>3, <1>7 DEF n

\* Sections in the order they appear in.
SectionList == Seq(ResumeSections)

ResumeNumbers == [k \in 1..N |-> k]

LEMMA SectionTyped ==
  ASSUME call.in \in ResumeInputs, NEW k \in LineSet
  PROVE  SectionAt(k) \in ResumeSections
<1> DEFINE heads == {j \in 1..k : Head0(j)}
<1>1. N \in Nat /\ k \in Nat /\ \A j \in 1..k : j \in LineSet
  <2>1. N \in Nat /\ k \in 1..N
    BY ResumeTyped DEF LineSet
  <2> QED
    BY <2>1 DEF LineSet
<1>2. CASE heads = {}
  BY <1>2 DEF SectionAt, ResumeSections
<1>3. CASE heads # {}
  <2>1. heads \subseteq Nat /\ \A m \in heads : m <= k
    BY <1>1
  <2>2. Max(heads) \in heads
    <3> HIDE DEF heads
    <3> QED
      BY <1>1, <1>3, <2>1, NatMax
  <2>3. Max(heads) \in LineSet /\ Lines[Max(heads)].head # ""
    BY <1>1, <2>2 DEF Head0
  <2>4. SectionAt(k) = Lines[Max(heads)].head
    BY <1>3 DEF SectionAt
  <2> HIDE DEF heads
  <2>5. Lines[Max(heads)] \in ResumeLine
    BY <2>3, ResumeTyped
  <2> QED
    BY <2>3, <2>4, <2>5 DEF ResumeLine
<1> QED
  BY <1>2, <1>3

LEMMA ResumePlaces ==
  ASSUME call.in \in ResumeInputs
  PROVE  /\ N \in Nat /\ Len(ResumeNumbers) = N /\ Len(ResumeNumbers) \in Nat
         /\ DOMAIN ResumeNumbers = 1..Len(ResumeNumbers) /\ <<Basic>> \in SectionList
         /\ \A k \in 1..Len(ResumeNumbers) : ResumeNumbers[k] = k /\ k \in LineSet /\ ResumeNumbers[k] \in LineSet
<1>1. N \in Nat
  BY ResumeTyped
<1>2. Len(ResumeNumbers) = N /\ DOMAIN ResumeNumbers = 1..N /\ \A k \in 1..N : ResumeNumbers[k] = k
  BY <1>1, ListUpTo DEF ResumeNumbers
<1>3. <<Basic>> \in SectionList
  BY SingleIs DEF SectionList, ResumeSections
<1> QED
  BY <1>1, <1>2, <1>3 DEF LineSet

LEMMA SectionEnsured ==
  ASSUME call.in \in ResumeInputs, NEW o \in SectionList, NEW k \in LineSet
  PROVE  ensureSection(o, k) \in SectionList
<1>1. Append(o, SectionAt(k)) \in SectionList
  BY SectionTyped, AppendProperties DEF SectionList
<1> QED
  BY <1>1 DEF ensureSection

\* No section is listed twice, and that of every line so far is listed.
OrderHolds(o, k) ==
  Rising(o, Unequal(ResumeSections)) /\ \A j \in 1..k : SectionAt(j) \in ToSet(o)

LEMMA OrderHoldsStep ==
  ASSUME call.in \in ResumeInputs, NEW o \in SectionList, NEW k \in LineSet, OrderHolds(o, k - 1)
  PROVE  OrderHolds(ensureSection(o, k), k)
<1> DEFINE x == SectionAt(k)
           t == ensureSection(o, k)
           R == Unequal(ResumeSections)
<1>1. k \in Nat /\ x \in ResumeSections /\ o \in Seq(ResumeSections)
  BY ResumeTyped, SectionTyped DEF SectionList
<1>2. \A j \in 1..k : j \in 1..(k - 1) \/ j = k
  BY <1>1
<1>3. Contains(o, x) <=> x \in ToSet(o)
  BY <1>1, ToSetOf DEF Contains
<1>4. t = IF Contains(o, x) THEN o ELSE Append(o, x)
  BY DEF ensureSection
<1>5. Rising(o, R) /\ \A j \in 1..(k - 1) : SectionAt(j) \in ToSet(o)
  BY DEF OrderHolds
<1> HIDE DEF t
<1>6. CASE x \in ToSet(o)
  BY <1>2, <1>3, <1>4, <1>5, <1>6 DEF OrderHolds, t
<1>7. CASE x \notin ToSet(o)
  <2>1. t = Append(o, x)
    BY <1>3, <1>4, <1>7
  <2> HIDE DEF x
  <2>2. /\ Len(t) = Len(o) + 1 /\ Len(o) \in Nat /\ t[Len(o) + 1] = x
        /\ \A y : y \in ToSet(t) <=> y \in ToSet(o) \/ y = x
        /\ \A i \in 1..Len(o) : t[i] = o[i]
    BY <1>1, <2>1, AppendIs
  <2>3. ASSUME NEW i \in 1..Len(t), NEW j \in 1..Len(t), i < j
        PROVE  <<t[i], t[j]>> \in R
    <3>1. i \in 1..Len(o) /\ t[i] = o[i]
      BY <2>2, <2>3
    <3>2. CASE j \in 1..Len(o)
      BY <1>5, <2>2, <2>3, <3>1, <3>2 DEF Rising
    <3>3. CASE j = Len(o) + 1
      <4>1. o[i] \in ToSet(o) /\ o[i] \in ResumeSections
        BY <1>1, <3>1, ToSetOf, ElementOfSeq
      <4>2. <<o[i], x>> \in R
        BY <1>1, <1>7, <4>1, UnequalIs
      <4> QED
        BY <2>2, <3>1, <3>3, <4>2
    <3> QED
      BY <2>2, <3>2, <3>3
  <2>4. \A j \in 1..k : SectionAt(j) \in ToSet(t)
    BY <1>2, <1>5, <2>2 DEF x
  <2> QED
    BY <2>3, <2>4 DEF OrderHolds, Rising, t
<1> QED
  BY <1>6, <1>7

OrderCourse(F, numbers) ==
  /\ F[0] = <<Basic>> /\ F[Len(numbers)] \in SectionList
  /\ \A k \in 1..Len(numbers) :
       F[k] \in SectionList /\ F[k - 1] \in SectionList /\ F[k] = ensureSection(F[k - 1], numbers[k])

LEMMA OrderIs ==
  Order = FoldLeft(ensureSection, <<Basic>>, ResumeNumbers)
  BY DEF Order, ResumeNumbers

OrderMade == FoldLeft(ensureSection, <<Basic>>, ResumeNumbers)

LEMMA OrderFold ==
  ASSUME call.in \in ResumeInputs
  PROVE  \E F : OrderCourse(F, ResumeNumbers) /\ OrderMade = F[Len(ResumeNumbers)]
<1> DEFINE n == Len(ResumeNumbers)
           X == SectionList
           step == [p \in X \X (1..n) |-> ensureSection(p[1], ResumeNumbers[p[2]])]
           Folds(it) == it = [s \in SUBSET (DOMAIN ResumeNumbers) |->
                                IF s = {} THEN <<Basic>> ELSE ensureSection(it[s \ {Max(s)}], ResumeNumbers[Max(s)])]
           it == CHOOSE it : Folds(it)
<1>1. n \in Nat /\ DOMAIN ResumeNumbers = 1..n /\ <<Basic>> \in X
  BY ResumePlaces
<1>2. ASSUME NEW p \in X, NEW k \in 1..n
      PROVE  <<p, k>> \in X \X (1..n) /\ step[<<p, k>>] = ensureSection(p, ResumeNumbers[k])
             /\ ensureSection(p, ResumeNumbers[k]) \in X
  <2>1. ensureSection(p, ResumeNumbers[k]) \in X
    BY <1>1, SectionEnsured, ResumePlaces
  <2>2. <<p, k>> \in X \X (1..n) /\ <<p, k>>[1] = p /\ <<p, k>>[2] = k
    OBVIOUS
  <2> HIDE DEF X, n
  <2> QED
    BY <2>1, <2>2
<1>3. step \in [X \X (1..n) -> X]
  <2>1. ASSUME NEW p \in X \X (1..n)
        PROVE  ensureSection(p[1], ResumeNumbers[p[2]]) \in X
    <3>1. p[1] \in X /\ p[2] \in 1..n
      OBVIOUS
    <3> HIDE DEF X
    <3> QED
      BY <1>2, <3>1
  <2> QED
    BY <2>1
<1>4. OrderMade = it[1..n]
  <2>1. OrderMade = it[DOMAIN ResumeNumbers]
    BY DEF OrderMade, FoldLeft, MapThenFoldSet
  <2> HIDE DEF it
  <2> QED
    BY <1>1, <2>1
<1> HIDE DEF step, n, X
<1>5. PICK g : FoldsSets(g, n, X, <<Basic>>, step)
  BY <1>1, <1>3, FoldRecursion
<1>6. ASSUME NEW s \in SUBSET (1..n), s # {}
      PROVE  Max(s) \in 1..n /\ s \ {Max(s)} \in SUBSET (1..n)
  <2>1. s \subseteq Nat /\ \A x \in s : x <= n
    BY <1>1
  <2>2. Max(s) \in s
    BY <1>1, <1>6, <2>1, NatMax
  <2> QED
    BY <2>2
<1>7. Folds(g)
  <2>1. ASSUME NEW s \in SUBSET (1..n)
        PROVE  g[s] = IF s = {} THEN <<Basic>> ELSE ensureSection(g[s \ {Max(s)}], ResumeNumbers[Max(s)])
    <3>1. CASE s = {}
      BY <1>5, <3>1 DEF FoldsSets
    <3>2. CASE s # {}
      <4>1. Max(s) \in 1..n /\ g[s \ {Max(s)}] \in X
        BY <1>5, <1>6, <3>2 DEF FoldsSets
      <4>2. g[s] = step[<<g[s \ {Max(s)}], Max(s)>>]
        BY <1>5, <3>2 DEF FoldsSets
      <4>3. step[<<g[s \ {Max(s)}], Max(s)>>] = ensureSection(g[s \ {Max(s)}], ResumeNumbers[Max(s)])
        BY <1>2, <4>1
      <4> QED
        BY <3>2, <4>2, <4>3
    <3> QED
      BY <3>1, <3>2
  <2>2. g \in [SUBSET (1..n) -> X]
    BY <1>5 DEF FoldsSets
  <2> QED
    BY <1>1, <2>1, <2>2
<1>8. Folds(it)
  <2> HIDE DEF Folds
  <2> QED
    BY <1>7
<1>9. \A s \in SUBSET (1..n) :
         it[s] = IF s = {} THEN <<Basic>> ELSE ensureSection(it[s \ {Max(s)}], ResumeNumbers[Max(s)])
  <2> HIDE DEF it
  <2> QED
    BY <1>1, <1>8
<1> HIDE DEF it, Folds
<1>10. SolvesFold(it, n, X, <<Basic>>, step)
  <2>1. {} \in SUBSET (1..n)
    OBVIOUS
  <2>2. ASSUME NEW s \in SUBSET (1..n), s # {}, it[s \ {Max(s)}] \in X
        PROVE  it[s] = step[<<it[s \ {Max(s)}], Max(s)>>]
    <3>1. Max(s) \in 1..n
      BY <1>6, <2>2
    <3>2. it[s] = ensureSection(it[s \ {Max(s)}], ResumeNumbers[Max(s)])
      BY <1>9, <2>2
    <3>3. step[<<it[s \ {Max(s)}], Max(s)>>] = ensureSection(it[s \ {Max(s)}], ResumeNumbers[Max(s)])
      BY <1>2, <2>2, <3>1
    <3> QED
      BY <3>2, <3>3
  <2> QED
    BY <1>9, <2>1, <2>2 DEF SolvesFold
<1>11. PICK F : FoldsUp(F, it, n, X, <<Basic>>, step)
  BY <1>1, <1>3, <1>10, FoldCourse
<1>12. ASSUME NEW k \in 1..n
       PROVE  F[k] \in X /\ F[k - 1] \in X /\ F[k] = ensureSection(F[k - 1], ResumeNumbers[k])
  <2>1. F[k] = step[<<F[k - 1], k>>] /\ F[k - 1] \in X /\ F[k] \in X
    BY <1>11 DEF FoldsUp
  <2>2. F[k] = ensureSection(F[k - 1], ResumeNumbers[k])
    BY <1>2, <2>1
  <2> QED
    BY <2>1, <2>2
<1>13. F[0] = <<Basic>> /\ F[n] = it[1..n] /\ F[n] \in X
  <2>1. n \in 0..n
    BY <1>1
  <2> QED
    BY <1>11, <2>1 DEF FoldsUp
<1> QED
  BY <1>4, <1>12, <1>13 DEF OrderCourse, n, X

LEMMA OrderAll ==
  ASSUME call.in \in ResumeInputs
  PROVE  Order \in Seq(ResumeSections) /\ OrderHolds(Order, N)
<1>1. N \in Nat /\ Len(ResumeNumbers) = N /\ \A k \in 1..N : ResumeNumbers[k] = k /\ k \in LineSet
  BY ResumePlaces
<1>2. PICK F : OrderCourse(F, ResumeNumbers) /\ OrderMade = F[Len(ResumeNumbers)]
  BY OrderFold
<1>3. /\ F[0] = <<Basic>> /\ F[N] \in SectionList
      /\ \A k \in 1..N : F[k] \in SectionList /\ F[k - 1] \in SectionList /\ F[k] = ensureSection(F[k - 1], k)
  BY <1>1, <1>2 DEF OrderCourse
<1> DEFINE G == {k \in 0..N : OrderHolds(F[k], k)}
<1>4. 0 \in G
  <2>1. OrderHolds(<<Basic>>, 0)
    <3>1. Len(<<Basic>>) = 1
      OBVIOUS
    <3> QED
      BY <3>1 DEF OrderHolds, Rising
  <2> QED
    BY <1>1, <1>3, <2>1
<1>5. ASSUME NEW k \in 0..(N - 1), k \in G
      PROVE  k + 1 \in G
  <2> DEFINE m == k + 1
  <2>1. m \in 1..N /\ m - 1 = k /\ m \in 0..N
    BY <1>1
  <2> HIDE DEF m
  <2>2. F[m] = ensureSection(F[k], m) /\ F[k] \in SectionList /\ m \in LineSet
    BY <1>1, <1>3, <2>1
  <2>3. OrderHolds(F[k], m - 1)
    BY <1>5, <2>1
  <2>4. OrderHolds(F[m], m)
    BY <2>2, <2>3, OrderHoldsStep
  <2> QED
    BY <2>1, <2>4 DEF m
<1>6. 0..N \subseteq G
  <2> HIDE DEF G
  <2> QED
    BY <1>1, <1>4, <1>5, CountingUp
<1>7. OrderHolds(F[N], N)
  BY <1>1, <1>6
<1> QED
  BY <1>1, <1>2, <1>3, <1>7, OrderIs DEF OrderMade, SectionList

\* The lines of a section, and a line that repeats the one before it there.
SectionText(x) == {k \in 1..N : ~Head0(k) /\ SectionAt(k) = x}

Repeats(k) ==
  \E j \in 1..(k - 1) :
    /\ Lines[j].says = Lines[k].says /\ SectionAt(j) = SectionAt(k)
    /\ \A m \in (j + 1)..(k - 1) : SectionAt(m) = SectionAt(k) => Head0(m) \/ Lines[m].says = Lines[k].says

LEMMA SectionLinesKeep ==
  ASSUME call.in \in ResumeInputs, NEW x
  PROVE  /\ SectionLines(x) \in Seq(LineSet) /\ Rising(SectionLines(x), Less)
         /\ \A k \in ToSet(SectionLines(x)) : k \in SectionText(x)
         /\ \A k \in SectionText(x) : k \in ToSet(SectionLines(x)) \/ Repeats(k)
<1> DEFINE T == SectionText(x)
           q == Ascending(T)
           c == SectionLines(x)
           n == Len(q)
<1>1. N \in Nat /\ T \subseteq 1..N /\ LineSet = 1..N /\ LineSet \subseteq Nat
  BY ResumeTyped DEF SectionText, LineSet
<1>2. c = compactResumeLines(q)
  BY DEF SectionLines, SectionText
<1> HIDE DEF c
<1>3. q \in Seq(T) /\ Rising(q, Less) /\ \A y : y \in ToSet(q) <=> y \in T
  <2> HIDE DEF T
  <2> QED
    BY <1>1, AscendingIs
<1> HIDE DEF q
<1>4. q \in Seq(LineSet)
  <2> HIDE DEF T
  <2> QED
    BY <1>1, <1>3, ListWider
<1>5. c \in Seq(LineSet) /\ CompactHolds(q, c, n)
  BY <1>2, <1>3, <1>4, CompactAll
<1>6. /\ Rising(c, Less)
      /\ \A y \in ToSet(c) : \E j \in 1..n : q[j] = y
      /\ \A j \in 1..n : q[j] \in ToSet(c) \/ \E i \in 1..(j - 1) : \A l \in i..j : Word(q[l]) = Word(q[i])
  BY <1>5 DEF CompactHolds
<1>7. n \in Nat /\ \A y : y \in T <=> \E j \in 1..n : q[j] = y
  <2>1. \A y : y \in ToSet(q) <=> \E j \in 1..n : q[j] = y
    BY <1>4, ToSetOf
  <2> HIDE DEF T
  <2> QED
    BY <1>3, <1>4, <2>1, LenProperties
<1>8. \A i, j \in 1..n : q[i] \in Nat /\ (i < j => q[i] < q[j])
  <2>1. \A i \in 1..n : q[i] \in Nat
    BY <1>1, <1>4, ElementOfSeq
  <2> QED
    BY <1>3, <2>1, LessIs DEF Rising
<1> HIDE DEF n
<1>9. ASSUME NEW k \in T, k \notin ToSet(c)
      PROVE  Repeats(k)
  <2>1. PICK j \in 1..n : q[j] = k
    BY <1>7
  <2>2. PICK i \in 1..(j - 1) : \A l \in i..j : Word(q[l]) = Word(q[i])
    BY <1>6, <1>9, <2>1
  <2>3. i \in 1..n /\ i < j /\ i \in i..j /\ j \in i..j
    BY <1>7, <2>1, <2>2
  <2>4. q[i] \in T /\ q[i] \in Nat /\ k \in Nat /\ q[i] < k
    <3>1. q[i] \in T
      BY <1>7, <2>3
    <3> HIDE DEF T
    <3> QED
      BY <1>8, <2>1, <2>3, <3>1
  <2>5. Lines[q[i]].says = Lines[k].says
    <3>1. Word(q[j]) = Word(q[i])
      BY <2>2, <2>3
    <3> QED
      BY <2>1, <3>1 DEF Word
  <2>6. SectionAt(q[i]) = x /\ SectionAt(k) = x /\ k \in 1..N
    BY <1>9, <2>4 DEF SectionText
  <2>7. ASSUME NEW m \in (q[i] + 1)..(k - 1), SectionAt(m) = x, ~Head0(m)
        PROVE  Lines[m].says = Lines[k].says
    <3>1. m \in T
      BY <1>1, <2>4, <2>6, <2>7 DEF SectionText
    <3>2. PICK l \in 1..n : q[l] = m
      BY <1>7, <3>1
    <3>3. q[i] < q[l] /\ q[l] < q[j] /\ q[i] \in Nat /\ q[l] \in Nat /\ q[j] \in Nat
      BY <2>1, <2>4, <2>7, <3>2
    <3>4. l \in i..j
      <4>1. ~(l < i) /\ ~(j < l)
        <5>1. l < i => q[l] < q[i]
          BY <1>8, <2>3
        <5>2. j < l => q[j] < q[l]
          BY <1>8
        <5> QED
          BY <3>3, <5>1, <5>2
      <4> QED
        BY <1>7, <2>3, <4>1
    <3>5. Word(q[l]) = Word(q[i])
      BY <2>2, <3>4
    <3> QED
      BY <2>5, <3>2, <3>5 DEF Word
  <2>8. q[i] \in 1..(k - 1)
    BY <1>1, <2>4 DEF SectionText
  <2> QED
    BY <2>5, <2>6, <2>7, <2>8 DEF Repeats
<1>10. \A k \in ToSet(c) : k \in T
  BY <1>6, <1>7
<1> QED
  BY <1>5, <1>6, <1>9, <1>10 DEF c

\* The groups of one section.
SectionParts(x) ==
  IF SectionLines(x) = <<>> THEN <<>>
  ELSE IF x \in EntrySections THEN splitResumeEntries(SectionLines(x)) ELSE <<SectionLines(x)>>

LEMMA SectionPartsKeep ==
  ASSUME call.in \in ResumeInputs, NEW x
  PROVE  LET parts == SectionParts(x)
         IN  /\ parts \in Seq(Seq(LineSet))
             /\ \A i \in 1..Len(parts) : Rising(parts[i], Less)
             /\ \A i, j \in 1..Len(parts) : i < j => Before(parts[i], parts[j])
             /\ \A i \in 1..Len(parts) : \A k \in ToSet(parts[i]) : k \in SectionText(x)
             /\ \A k \in ToSet(SectionLines(x)) : \E i \in 1..Len(parts) : k \in ToSet(parts[i])
<1> DEFINE c == SectionLines(x)
           parts == SectionParts(x)
<1>1. c \in Seq(LineSet) /\ Rising(c, Less) /\ \A k \in ToSet(c) : k \in SectionText(x)
  BY SectionLinesKeep
<1>2. parts = IF c = <<>> THEN <<>> ELSE IF x \in EntrySections THEN splitResumeEntries(c) ELSE <<c>>
  BY DEF SectionParts
<1> HIDE DEF c, parts
<1>3. CASE c = <<>>
  <2>1. parts = <<>> /\ ToSet(c) = {} /\ Len(<<>>) = 0 /\ <<>> \in Seq(Seq(LineSet))
    BY <1>2, <1>3 DEF ToSet
  <2> QED
    BY <2>1 DEF parts, c
<1>4. CASE parts = <<c>>
  <2>1. <<c>> \in Seq(Seq(LineSet)) /\ Len(<<c>>) = 1 /\ <<c>>[1] = c /\ 1..1 = {1}
    BY <1>1
  <2>2. \A i \in 1..Len(parts) : parts[i] = c /\ i = 1
    BY <1>4, <2>1
  <2>3. 1 \in 1..Len(parts) /\ parts[1] = c
    BY <1>4, <2>1
  <2>4. \A i, j \in 1..Len(parts) : ~(i < j)
    BY <2>2
  <2> QED
    BY <1>1, <1>4, <2>1, <2>2, <2>3, <2>4 DEF parts, c
<1>5. CASE parts = splitResumeEntries(c)
  <2>1. parts \in Seq(Seq(LineSet)) /\ EntriesHold(c, parts, Len(c))
    BY <1>1, <1>5, EntriesAll
  <2>2. /\ \A i \in 1..Len(parts) : Rising(parts[i], Less)
        /\ \A i, j \in 1..Len(parts) : i < j => Before(parts[i], parts[j])
        /\ \A i \in 1..Len(parts) : \A k \in ToSet(parts[i]) : \E j \in 1..Len(c) : c[j] = k
        /\ \A j \in 1..Len(c) : \E i \in 1..Len(parts) : c[j] \in ToSet(parts[i])
    BY <2>1 DEF EntriesHold
  <2>3. \A k : k \in ToSet(c) <=> \E j \in 1..Len(c) : c[j] = k
    BY <1>1, ToSetOf
  <2>4. \A k \in ToSet(c) : \E i \in 1..Len(parts) : k \in ToSet(parts[i])
    <3>1. ASSUME NEW k \in ToSet(c)
          PROVE  \E i \in 1..Len(parts) : k \in ToSet(parts[i])
      <4>1. PICK j \in 1..Len(c) : c[j] = k
        BY <2>3
      <4> QED
        BY <2>2, <4>1
    <3> QED
      BY <3>1
  <2>5. \A i \in 1..Len(parts) : \A k \in ToSet(parts[i]) : k \in SectionText(x)
    <3>1. ASSUME NEW i \in 1..Len(parts), NEW k \in ToSet(parts[i])
          PROVE  k \in SectionText(x)
      <4>1. PICK j \in 1..Len(c) : c[j] = k
        BY <2>2
      <4> QED
        BY <1>1, <2>3, <4>1
    <3> QED
      BY <3>1
  <2> QED
    BY <2>1, <2>2, <2>4, <2>5 DEF parts, c
<1> QED
  BY <1>2, <1>3, <1>4, <1>5

RuleGroups == [section : ResumeSections, lines : Seq(LineSet)]

Apart == {p \in RuleGroups \X RuleGroups : \A a \in ToSet(p[1].lines) : \A b \in ToSet(p[2].lines) : a # b}

LEMMA ApartIs ==
  ASSUME NEW g \in RuleGroups, NEW h \in RuleGroups
  PROVE  <<g, h>> \in Apart <=> \A a \in ToSet(g.lines) : \A b \in ToSet(h.lines) : a # b
  BY DEF Apart

LEMMA SectionGroupsKeep ==
  ASSUME call.in \in ResumeInputs, NEW x \in ResumeSections
  PROVE  /\ SectionGroups(x) \in Seq(RuleGroups) /\ Rising(SectionGroups(x), Apart)
         /\ \A i \in 1..Len(SectionGroups(x)) : /\ SectionGroups(x)[i].section = x
                                                /\ Rising(SectionGroups(x)[i].lines, Less)
         /\ \A i \in 1..Len(SectionGroups(x)) : \A k \in ToSet(SectionGroups(x)[i].lines) : k \in SectionText(x)
         /\ \A k \in SectionText(x) :
              Repeats(k) \/ \E i \in 1..Len(SectionGroups(x)) : k \in ToSet(SectionGroups(x)[i].lines)
<1> DEFINE parts == SectionParts(x)
           n == Len(parts)
           g == SectionGroups(x)
           f == [i \in 1..n |-> [section |-> x, lines |-> parts[i]]]
<1>1. /\ parts \in Seq(Seq(LineSet))
      /\ \A i \in 1..n : Rising(parts[i], Less)
      /\ \A i, j \in 1..n : i < j => Before(parts[i], parts[j])
      /\ \A i \in 1..n : \A k \in ToSet(parts[i]) : k \in SectionText(x)
      /\ \A k \in ToSet(SectionLines(x)) : \E i \in 1..n : k \in ToSet(parts[i])
  BY SectionPartsKeep
<1>2. g = [i \in DOMAIN parts |-> [section |-> x, lines |-> parts[i]]]
  BY DEF SectionGroups, SectionParts
<1> HIDE DEF parts, g
<1>3. n \in Nat /\ DOMAIN parts = 1..n /\ \A i \in 1..n : parts[i] \in Seq(LineSet)
  BY <1>1, LenProperties, ElementOfSeq
<1>4. g = f /\ f \in [1..n -> RuleGroups]
  BY <1>2, <1>3 DEF RuleGroups
<1>5. \A i \in 1..n : f[i].section = x /\ f[i].lines = parts[i]
  OBVIOUS
<1> HIDE DEF f
<1>6. g \in Seq(RuleGroups) /\ Len(g) = n
  BY <1>3, <1>4, ListOf
<1>7. \A i \in 1..n : g[i].section = x /\ g[i].lines = parts[i] /\ g[i] \in RuleGroups
  BY <1>4, <1>5
<1>8. Rising(g, Apart)
  <2>1. ASSUME NEW i \in 1..n, NEW j \in 1..n, i < j
        PROVE  <<g[i], g[j]>> \in Apart
    <3>1. Before(parts[i], parts[j]) /\ parts[i] \in Seq(LineSet) /\ parts[j] \in Seq(LineSet)
      BY <1>1, <1>3, <2>1
    <3>2. ASSUME NEW a \in ToSet(parts[i]), NEW b \in ToSet(parts[j])
          PROVE  a # b
      <4>1. a \in LineSet /\ b \in LineSet
        BY <3>1, InList
      <4>2. a \in Nat /\ b \in Nat
        BY <4>1, ResumeTyped
      <4>3. <<a, b>> \in Less
        BY <3>1 DEF Before
      <4> QED
        BY <4>2, <4>3, LessIs
    <3> QED
      BY <1>7, <3>2, ApartIs
  <2> QED
    BY <1>6, <2>1 DEF Rising
<1>9. \A k \in SectionText(x) : k \in ToSet(SectionLines(x)) \/ Repeats(k)
  BY SectionLinesKeep
<1> HIDE DEF n
<1> QED
  BY <1>1, <1>6, <1>7, <1>8, <1>9 DEF g

LEMMA RulesKeep ==
  ASSUME call.in \in ResumeInputs, NEW groups, groups = groupResumeAtoms
  PROVE  /\ groups \in Seq(RuleGroups) /\ Rising(groups, Apart)
         /\ \A g \in ToSet(groups) : Rising(g.lines, Less) /\ \A k \in ToSet(g.lines) : SectionAt(k) = g.section
         /\ \A k \in 1..N : ~Head0(k) => Repeats(k) \/ \E g \in ToSet(groups) : k \in ToSet(g.lines)
<1> DEFINE o == Order
           n == Len(o)
           seqs == [i \in 1..n |-> SectionGroups(o[i])]
<1>1. o \in Seq(ResumeSections) /\ OrderHolds(o, N)
  BY OrderAll
<1>2. groups = FlattenSeq([i \in DOMAIN o |-> SectionGroups(o[i])])
  BY DEF groupResumeAtoms
<1> HIDE DEF o
<1>3. n \in Nat /\ DOMAIN o = 1..n /\ \A i \in 1..n : o[i] \in ResumeSections
  BY <1>1, LenProperties, ElementOfSeq
<1>4. groups = FlattenSeq(seqs)
  BY <1>2, <1>3
<1>5. \A i \in 1..n : SectionGroups(o[i]) \in Seq(RuleGroups)
  BY <1>3, SectionGroupsKeep
<1>6. seqs \in [1..n -> Seq(RuleGroups)] /\ \A i \in 1..n : seqs[i] = SectionGroups(o[i])
  BY <1>5
<1> HIDE DEF seqs
<1>7. seqs \in Seq(Seq(RuleGroups)) /\ Len(seqs) = n
  BY <1>3, <1>6, ListOf
<1>8. \A i \in 1..n : Rising(seqs[i], Apart)
  BY <1>3, <1>6, SectionGroupsKeep

\* Every group of a section holds lines of that section.
<1>9. ASSUME NEW i \in 1..n, NEW g \in ToSet(seqs[i])
      PROVE  /\ g \in RuleGroups /\ g.section = o[i] /\ Rising(g.lines, Less)
             /\ \A k \in ToSet(g.lines) : k \in 1..N /\ SectionAt(k) = o[i]
  <2>1. seqs[i] \in Seq(RuleGroups) /\ seqs[i] = SectionGroups(o[i]) /\ o[i] \in ResumeSections
    BY <1>3, <1>5, <1>6
  <2>2. PICK j \in 1..Len(seqs[i]) : seqs[i][j] = g
    BY <2>1, ToSetOf
  <2>3. g \in RuleGroups
    BY <2>1, <2>2, ElementOfSeq
  <2>4. g.section = o[i] /\ Rising(g.lines, Less) /\ \A k \in ToSet(g.lines) : k \in SectionText(o[i])
    BY <2>1, <2>2, SectionGroupsKeep
  <2> QED
    BY <2>3, <2>4 DEF SectionText
<1>10. ASSUME NEW i \in 1..n, NEW j \in 1..n, i < j, NEW g \in ToSet(seqs[i]), NEW h \in ToSet(seqs[j])
       PROVE  <<g, h>> \in Apart
  <2>1. o[i] # o[j]
    <3>1. <<o[i], o[j]>> \in Unequal(ResumeSections)
      BY <1>1, <1>10 DEF OrderHolds, Rising
    <3> QED
      BY <1>3, <3>1, UnequalIs
  <2>2. g \in RuleGroups /\ h \in RuleGroups
    BY <1>9
  <2>3. \A a \in ToSet(g.lines) : \A b \in ToSet(h.lines) : a # b
    <3>1. \A a \in ToSet(g.lines) : SectionAt(a) = o[i]
      BY <1>9
    <3>2. \A b \in ToSet(h.lines) : SectionAt(b) = o[j]
      BY <1>9
    <3> QED
      BY <2>1, <3>1, <3>2
  <2> QED
    BY <2>2, <2>3, ApartIs
<1>11. /\ groups \in Seq(RuleGroups) /\ Rising(groups, Apart)
       /\ \A g : g \in ToSet(groups) <=> \E i \in 1..n : g \in ToSet(seqs[i])
  <2> HIDE DEF n
  <2> QED
    BY <1>4, <1>7, <1>8, <1>10, FlattenRises
<1>12. ASSUME NEW g \in ToSet(groups)
       PROVE  Rising(g.lines, Less) /\ \A k \in ToSet(g.lines) : SectionAt(k) = g.section
  <2>1. PICK i \in 1..n : g \in ToSet(seqs[i])
    BY <1>11
  <2> QED
    BY <1>9, <2>1
<1>13. ASSUME NEW k \in 1..N, ~Head0(k), ~Repeats(k)
       PROVE  \E g \in ToSet(groups) : k \in ToSet(g.lines)
  <2>1. SectionAt(k) \in ToSet(o)
    BY <1>1, <1>13 DEF OrderHolds
  <2>2. PICK i \in 1..n : o[i] = SectionAt(k)
    BY <1>1, <2>1, ToSetOf
  <2>3. k \in SectionText(o[i])
    BY <1>13, <2>2 DEF SectionText
  <2>4. PICK j \in 1..Len(SectionGroups(o[i])) : k \in ToSet(SectionGroups(o[i])[j].lines)
    BY <1>3, <1>13, <2>3, SectionGroupsKeep
  <2>5. SectionGroups(o[i])[j] \in ToSet(seqs[i])
    BY <1>5, <1>6, <2>4, ToSetOf
  <2> QED
    BY <1>11, <2>4, <2>5
<1> QED
  BY <1>11, <1>12, <1>13

-----------------------------------------------------------------------------
(* The lines of a resume.                                                  *)

\* Groups that share no line hold each line once.
LEMMA LinesTogether ==
  ASSUME N \in Nat, NEW G, \A g \in G : g.lines \in Seq(1..N), NEW groups \in Seq(G),
         \A i \in 1..Len(groups) : Rising(groups[i].lines, Less),
         \A i, j \in 1..Len(groups) : i < j =>
           \A a \in ToSet(groups[i].lines) : \A b \in ToSet(groups[j].lines) : a # b,
         NEW all, all = FlattenSeq([i \in DOMAIN groups |-> groups[i].lines])
  PROVE  /\ Cardinality(ToSet(all)) = Len(all)
         /\ \A x : x \in ToSet(all) <=> \E i \in 1..Len(groups) : x \in ToSet(groups[i].lines)
<1> DEFINE n == Len(groups)
           seqs == [i \in 1..n |-> groups[i].lines]
           R == Unequal(1..N)
<1>1. n \in Nat /\ DOMAIN groups = 1..n /\ \A i \in 1..n : groups[i].lines \in Seq(1..N)
  BY LenProperties, ElementOfSeq
<1>2. all = FlattenSeq(seqs)
  BY <1>1
<1>3. seqs \in [1..n -> Seq(1..N)] /\ \A i \in 1..n : seqs[i] = groups[i].lines
  BY <1>1
<1> HIDE DEF seqs
<1>4. seqs \in Seq(Seq(1..N)) /\ Len(seqs) = n
  BY <1>1, <1>3, ListOf
<1>5. ASSUME NEW i \in 1..n
      PROVE  Rising(seqs[i], R)
  <2> DEFINE q == seqs[i]
  <2>1. q \in Seq(1..N) /\ Rising(q, Less)
    BY <1>1, <1>3
  <2> HIDE DEF q
  <2>2. ASSUME NEW a \in 1..Len(q), NEW b \in 1..Len(q), a < b
        PROVE  <<q[a], q[b]>> \in R
    <3>1. q[a] \in 1..N /\ q[b] \in 1..N /\ <<q[a], q[b]>> \in Less
      BY <2>1, <2>2, ElementOfSeq DEF Rising
    <3>2. q[a] < q[b]
      BY <3>1, LessIs
    <3>3. q[a] # q[b]
      BY <3>1, <3>2
    <3> QED
      BY <3>1, <3>3, UnequalIs
  <2>3. Rising(q, R)
    BY <2>2 DEF Rising
  <2> QED
    BY <2>3 DEF q
<1>6. ASSUME NEW i \in 1..n, NEW j \in 1..n, i < j, NEW a \in ToSet(seqs[i]), NEW b \in ToSet(seqs[j])
      PROVE  <<a, b>> \in R
  <2>1. seqs[i] \in Seq(1..N) /\ seqs[j] \in Seq(1..N)
    BY <1>1, <1>3
  <2>2. a \in 1..N /\ b \in 1..N
    BY <2>1, InList
  <2>3. a # b
    BY <1>3, <1>6
  <2> QED
    BY <2>2, <2>3, UnequalIs
<1>7. /\ all \in Seq(1..N) /\ Rising(all, R)
      /\ \A x : x \in ToSet(all) <=> \E i \in 1..n : x \in ToSet(seqs[i])
  <2> DEFINE S == 1..N
  <2>1. seqs \in Seq(Seq(S))
    BY <1>4
  <2>2. \A i, j \in 1..Len(seqs) : i < j => \A a \in ToSet(seqs[i]), b \in ToSet(seqs[j]) : <<a, b>> \in R
    BY <1>4, <1>6
  <2>3. \A i \in 1..Len(seqs) : Rising(seqs[i], R)
    BY <1>4, <1>5
  <2> HIDE DEF R, n, S
  <2>4. /\ FlattenSeq(seqs) \in Seq(S) /\ Rising(FlattenSeq(seqs), R)
        /\ \A x : x \in ToSet(FlattenSeq(seqs)) <=> \E i \in 1..Len(seqs) : x \in ToSet(seqs[i])
    BY <2>1, <2>2, <2>3, FlattenRises
  <2> QED
    BY <1>2, <1>4, <2>4 DEF S
<1>8. Cardinality(ToSet(all)) = Len(all)
  BY <1>7, DistinctCount
<1> QED
  BY <1>3, <1>7, <1>8

LEMMA ResumeStands ==
  ASSUME call.in \in ResumeInputs, Result = materializeResumeChunks(call.in)
  PROVE  ResumeKeepsText
<1> DEFINE chosen == extractResumeGroups(call.in)
           groups == Result.groups
<1>1. N \in Nat /\ LineSet = 1..N
  BY ResumeTyped DEF LineSet
<1>2. Result = IF chosen = <<>>
               THEN [by |-> "rules", groups |-> groupResumeAtoms, name |-> call.in.found]
               ELSE [by |-> "model", groups |-> chosen, name |-> validateResumeIdentity(call.in.said, call.in.found)]
  BY DEF materializeResumeChunks
<1>3. All = FlattenSeq([i \in DOMAIN groups |-> groups[i].lines])
  BY DEF All
<1>4. ASSUME Result.by = "model"
      PROVE  ModelOnlySelects
  <2>1. groups = chosen /\ Result.name = validateResumeIdentity(call.in.said, call.in.found) /\ chosen # <<>>
    BY <1>2, <1>4
  <2>2. groups = selectionsToResumeGroups(call.in.replies)
    BY <2>1 DEF extractResumeGroups
  <2> HIDE DEF groups
  <2>3. /\ groups \in Seq(GroupsMade)
        /\ \A i \in 1..Len(groups) : Rising(groups[i].lines, Less)
        /\ \A i, j \in 1..Len(groups) : i < j =>
             \A a \in ToSet(groups[i].lines) : \A b \in ToSet(groups[j].lines) : a # b
        /\ \A k \in 1..N : ~Head0(k) => \E i \in 1..Len(groups) : k \in ToSet(groups[i].lines)
    BY <2>2, SelectionKeeps
  <2>4. \A g \in GroupsMade : g.lines \in Seq(1..N)
    BY <1>1 DEF GroupsMade
  <2>5. /\ Cardinality(ToSet(All)) = Len(All)
        /\ \A x : x \in ToSet(All) <=> \E i \in 1..Len(groups) : x \in ToSet(groups[i].lines)
    BY <1>1, <1>3, <2>3, <2>4, LinesTogether
  <2>6. {k \in 1..N : ~Head0(k)} \subseteq ToSet(All)
    BY <2>3, <2>5
  <2>7. \A i \in DOMAIN groups : IsSorted(groups[i].lines, <)
    <3>1. ASSUME NEW i \in DOMAIN groups
          PROVE  IsSorted(groups[i].lines, <)
      <4> DEFINE q == groups[i].lines
      <4>1. i \in 1..Len(groups)
        BY <2>3, LenProperties
      <4>2. q \in Seq(1..N) /\ Rising(q, Less)
        BY <2>3, <2>4, <4>1, ElementOfSeq
      <4> HIDE DEF q
      <4>3. \A a \in 1..Len(q) : q[a] \in Nat
        <5>1. \A a \in 1..Len(q) : q[a] \in 1..N
          BY <4>2, ElementOfSeq
        <5> QED
          BY <1>1, <5>1
      <4>4. IsSorted(q, <)
        BY <4>2, <4>3, LessIs DEF Rising, IsSorted
      <4> QED
        BY <4>4 DEF q
    <3> QED
      BY <3>1
  <2>8. Result.name # "invented"
    <3>1. call.in.found \in {"", "in text"}
      BY ResumeTyped
    <3> QED
      BY <2>1, <3>1 DEF validateResumeIdentity
  <2> QED
    BY <2>5, <2>6, <2>7, <2>8 DEF ModelOnlySelects, groups
<1>5. ASSUME Result.by = "rules"
      PROVE  RulesKeepText
  <2>1. groups = groupResumeAtoms
    BY <1>2, <1>5
  <2> HIDE DEF groups
  <2>2. /\ groups \in Seq(RuleGroups) /\ Rising(groups, Apart)
        /\ \A g \in ToSet(groups) : Rising(g.lines, Less) /\ \A k \in ToSet(g.lines) : SectionAt(k) = g.section
        /\ \A k \in 1..N : ~Head0(k) => Repeats(k) \/ \E g \in ToSet(groups) : k \in ToSet(g.lines)
    BY <2>1, RulesKeep
  <2>3. /\ DOMAIN groups = 1..Len(groups)
        /\ \A i \in 1..Len(groups) : groups[i] \in RuleGroups /\ groups[i] \in ToSet(groups)
        /\ \A g : g \in ToSet(groups) <=> \E i \in 1..Len(groups) : groups[i] = g
    BY <2>2, LenProperties, ElementOfSeq, ToSetOf
  <2>4. \A g \in RuleGroups : g.lines \in Seq(1..N)
    BY <1>1 DEF RuleGroups
  <2>5. \A i \in 1..Len(groups) : Rising(groups[i].lines, Less)
    BY <2>2, <2>3
  <2>6. \A i, j \in 1..Len(groups) : i < j =>
          \A a \in ToSet(groups[i].lines) : \A b \in ToSet(groups[j].lines) : a # b
    BY <2>2, <2>3, ApartIs DEF Rising
  <2>7. /\ Cardinality(ToSet(All)) = Len(All)
        /\ \A x : x \in ToSet(All) <=> \E i \in 1..Len(groups) : x \in ToSet(groups[i].lines)
    BY <1>1, <1>3, <2>2, <2>4, <2>5, <2>6, LinesTogether
  <2>8. \A i \in DOMAIN groups : \A k \in ToSet(groups[i].lines) : groups[i].section = SectionAt(k)
    BY <2>2, <2>3
  <2>9. ASSUME NEW k \in 1..N, ~Head0(k), k \notin ToSet(All)
        PROVE  Repeats(k)
    <3>1. ~\E g \in ToSet(groups) : k \in ToSet(g.lines)
      BY <2>3, <2>7, <2>9
    <3> QED
      BY <2>2, <2>9, <3>1
  <2> QED
    BY <2>7, <2>8, <2>9 DEF RulesKeepText, Repeats, groups
<1>6. (Result.by = "model" => ModelOnlySelects) /\ (Result.by # "model" => ModelOnlySelects)
  BY <1>4 DEF ModelOnlySelects
<1>7. (Result.by = "rules" => RulesKeepText) /\ (Result.by # "rules" => RulesKeepText)
  BY <1>5 DEF RulesKeepText
<1> QED
  BY <1>6, <1>7 DEF ResumeKeepsText

\* Whatever numbers the model returns for a resume, every line of its
\* sections ends in exactly one group and the groups keep the order of the
\* text; without the model, a line stands in the section of its heading and
\* only a repeated line is left out (materializeResumeChunks).
THEOREM ResumesStandWhole == TemplatesSpec => []ResumeKeepsText
<1>1. TemplateAnswered => ResumeKeepsText
  <2> SUFFICES ASSUME TemplateAnswered, Grouped
               PROVE  ResumeKeepsText
    BY DEF ResumeKeepsText, ModelOnlySelects, RulesKeepText
  <2>1. call.in \in ResumeInputs
    BY TemplateInputOf DEF Grouped, Returned
  <2>2. Result = materializeResumeChunks(call.in)
    BY DEF TemplateAnswered, Grouped, Returned
  <2> QED
    BY <2>1, <2>2, ResumeStands
<1> QED
  BY <1>1, TemplateAnsweredAlways, PTL

\* The templates that regroup a text lose nothing of it, for any text and any
\* replies of the model (worker/resume.go, worker/qa.go, parser/markdown.go).
THEOREM TemplatesStand == TemplatesSpec => []TemplatesKeepText
<1>1. ResumeKeepsText /\ PairsAreWhole /\ MarkdownKept => TemplatesKeepText
  BY DEF TemplatesKeepText
<1> QED
  BY <1>1, MarkdownKeepsAll, PairsStandWhole, ResumesStandWhole, PTL
=============================================================================
