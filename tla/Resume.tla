------------------------------- MODULE Resume -------------------------------
(***************************************************************************)
(* The resume template: four questions to a language model select line     *)
(* numbers of the text, which are mapped back to the lines; rules group    *)
(* the lines when the model fails.  Lines are numbered from 1 here.        *)
(***************************************************************************)
EXTENDS Calls, FiniteSets, FiniteSetsExt, SequencesExt

CONSTANTS
  EntrySections,       \* work and projects: a group for every entry
  Basic,               \* the section a resume starts with
  ResumeInputs         \* [lines, replies, said, found] as they occur

ResumeSections == EntrySections \cup {Basic, "education", "skills", "other"}

ASSUME ResumeAssumption ==
  \A in \in ResumeInputs :
    /\ in.lines \in Seq([head : ResumeSections \cup {""}, says : Nat, numbered : BOOLEAN, dated : BOOLEAN])
    /\ \A t \in {"basic", "education", "work", "project"} :
         in.replies[t].tries \in Nat /\ in.replies[t].picks \in Seq(Seq(Int))
    /\ Len(in.replies.basic.picks) = 3
    /\ in.found \in {"", "in text"}

\* A line is [head, says, numbered, dated]: the section it is a heading of
\* or "", its words, and the marks an entry starts with.
\* A reply is [tries, picks]: how many answers it took (3: none of the two
\* was valid) and the entries selected, sequences of line numbers; those of
\* the basic task are its three fields: basic, skills and other.
Lines == call.in.lines
N == Len(Lines)
Head0(k) == Lines[k].head # ""

Ascending(T) == CHOOSE q \in SetToSeqs(T) : \A i, j \in DOMAIN q : i < j => q[i] < q[j]

\* Mutated: a line may be selected again.
Reusable(picks, used) == Ascending(ToSet(picks) \cap (1..N))
\* Valid, unused line numbers, in the order of the text.
resumeLinesAt(picks, used) == Ascending((ToSet(picks) \cap (1..N)) \ used)

AppendGroup(s, g) ==
  LET lines == resumeLinesAt(g.picks, s.used)
  IN  IF lines = <<>> THEN s
      ELSE [groups |-> Append(s.groups, [section |-> g.section, lines |-> lines]),
            used |-> s.used \cup ToSet(lines)]

Unassigned(used) == Ascending({k \in 1..N : k \notin used /\ ~Head0(k)})

Select(section, entries) == [i \in DOMAIN entries |-> [section |-> section, picks |-> entries[i]]]

\* Education is one group, work and projects a group for every entry.
Asked(r) ==
  Select("basic", <<r.basic.picks[1]>>)
  \o Select("education", <<FlattenSeq(r.education.picks)>>)
  \o Select("skills", <<r.basic.picks[2]>>)
  \o Select("work", r.work.picks)
  \o Select("project", r.project.picks)
  \o Select("other", <<r.basic.picks[3]>>)
selectionsToResumeGroups(r) ==
  LET s == FoldLeft(AppendGroup, [groups |-> <<>>, used |-> {}], Asked(r))
  IN  AppendGroup(s, [section |-> "other", picks |-> Unassigned(s.used)]).groups

\* completeResumeTask asks once more; one task without an answer is enough
\* to leave the model's way.
extractResumeGroups(in) ==
  IF N = 0 \/ \E t \in DOMAIN in.replies : in.replies[t].tries > 2 THEN <<>>
  ELSE selectionsToResumeGroups(in.replies)

\* The section a line stands under.
SectionAt(k) ==
  LET heads == {j \in 1..k : Head0(j)}
  IN  IF heads = {} THEN Basic ELSE Lines[Max(heads)].head

\* Sections in the order of their first appearance, the basic one first.
ensureSection(order, k) == IF Contains(order, SectionAt(k)) THEN order ELSE Append(order, SectionAt(k))
Order == FoldLeft(ensureSection, <<Basic>>, [k \in 1..N |-> k])

\* Mutated: equal lines are dropped wherever they are.
Unlike(out, k) == IF \E j \in ToSet(out) : Lines[j].says = Lines[k].says THEN out ELSE Append(out, k)
DropEqual(lines) == FoldLeft(Unlike, <<>>, lines)
Compacted(out, k) == IF out # <<>> /\ Lines[Last(out)].says = Lines[k].says THEN out ELSE Append(out, k)
compactResumeLines(lines) == FoldLeft(Compacted, <<>>, lines)

\* A number starts an entry; so does a date, when the entry before starts
\* with one.
AddToEntries(es, k) ==
  IF es = <<>> \/ Lines[k].numbered
     \/ (Lines[k].dated /\ Lines[Last(es)[1]].dated)
  THEN Append(es, <<k>>) ELSE [es EXCEPT ![Len(es)] = Append(@, k)]
splitResumeEntries(lines) == FoldLeft(AddToEntries, <<>>, lines)

\* A section without lines makes no group.
SectionLines(section) == compactResumeLines(Ascending({k \in 1..N : ~Head0(k) /\ SectionAt(k) = section}))
SectionGroups(section) ==
  LET lines == SectionLines(section)
      parts == IF lines = <<>> THEN <<>>
               ELSE IF section \in EntrySections THEN splitResumeEntries(lines) ELSE <<lines>>
  IN  [i \in DOMAIN parts |-> [section |-> section, lines |-> parts[i]]]

groupResumeAtoms == FlattenSeq([i \in DOMAIN Order |-> SectionGroups(Order[i])])

\* A field that is not in the text is replaced by what the rules find there.
validateResumeIdentity(said, found) == IF said = "in text" THEN said ELSE found

materializeResumeChunks(in) ==
  LET chosen == extractResumeGroups(in)
  IN  IF chosen = <<>>
      THEN [by |-> "rules", groups |-> groupResumeAtoms, name |-> in.found]
      ELSE [by |-> "model", groups |-> chosen, name |-> validateResumeIdentity(in.said, in.found)]

ResumeStep == Return("materializeResumeChunks", materializeResumeChunks(call.in))

-----------------------------------------------------------------------------
(* Properties.                                                             *)

Grouped == Returned("materializeResumeChunks")
All == FlattenSeq([i \in DOMAIN Result.groups |-> Result.groups[i].lines])

\* Whatever numbers the model returns - out of range, repeated, of other
\* sections, out of order - every line that is no heading is in exactly one
\* group, and groups keep the order of the text.
ModelOnlySelects ==
  Grouped /\ Result.by = "model" =>
    /\ Cardinality(ToSet(All)) = Len(All)
    /\ {k \in 1..N : ~Head0(k)} \subseteq ToSet(All)
    /\ \A i \in DOMAIN Result.groups : IsSorted(Result.groups[i].lines, <)
    /\ Result.name # "invented"

\* Without the model, a line is in the section whose heading it stands
\* under, and only a line that repeats the one before it is left out.
RulesKeepText ==
  Grouped /\ Result.by = "rules" =>
    /\ Cardinality(ToSet(All)) = Len(All)
    /\ \A i \in DOMAIN Result.groups : \A k \in ToSet(Result.groups[i].lines) :
         Result.groups[i].section = SectionAt(k)
    /\ \A k \in 1..N : ~Head0(k) /\ k \notin ToSet(All) =>
         \E j \in 1..(k - 1) : /\ Lines[j].says = Lines[k].says /\ SectionAt(j) = SectionAt(k)
                               /\ \A m \in (j + 1)..(k - 1) :
                                    SectionAt(m) = SectionAt(k) => Head0(m) \/ Lines[m].says = Lines[k].says

\* A resume's groups hold its lines, whoever chose them.
ResumeKeepsText == ModelOnlySelects /\ RulesKeepText
=============================================================================
