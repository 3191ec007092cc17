------------------------------ MODULE Sections ------------------------------
(***************************************************************************)
(* The book and paper templates: the lines of the parsed atoms become      *)
(* texts under the path of the headings they stand under.  A line is the   *)
(* level of a heading (1..6), Plain, Empty, or Abstract, the heading of a  *)
(* paper's summary; its identity is <<atom, index>>.                       *)
(***************************************************************************)
EXTENDS Calls, FiniteSets, FiniteSetsExt, SequencesExt

CONSTANTS
  Plain, Empty,        \* lines that are no headings
  Abstract,            \* level-1 heading of a paper's summary
  SectionInputs        \* [atoms, paper] as they occur

\* An atom is [lines, structured, title, parser]: whether it is text, has
\* been marked a heading by its parser, and carries a page and coordinates.
LineKind == 1..6 \cup {Plain, Empty, Abstract}
SectionAtom == [lines : Seq(LineKind), structured : BOOLEAN, title : BOOLEAN, parser : BOOLEAN]

\* All texts of a document come from one parser: MinerU, which names itself
\* on each of them, or one that does not.  A picture may have been named by
\* another, as those in a Markdown file are.
ASSUME SectionAssumption ==
  \A in \in SectionInputs :
    /\ in.atoms \in Seq(SectionAtom) /\ in.paper \in BOOLEAN
    /\ \A n, m \in {k \in DOMAIN in.atoms : in.atoms[k].structured} :
         in.atoms[n].parser = in.atoms[m].parser

LineOf(in, id) == in.atoms[id[1]].lines[id[2]]

\* What recipeHeading makes of a line: a level, or 0.  The level of the mark
\* in the text comes first, then the element.
Level(atom, line) ==
  IF line \in 1..6 THEN line ELSE IF line = Abstract \/ atom.title THEN 1 ELSE 0

\* The heading of each level, or none; from the coarsest to the finest.
NoHeadings == [level \in 1..6 |-> <<>>]
Path(headings) == FlattenSeq(headings)

IsAbstract(in, path) == path # <<>> /\ LineOf(in, Last(path)) = Abstract

StartAt == [out |-> <<>>, headings |-> NoHeadings, body |-> <<>>, base |-> 0]

Text(base, lines, path, noSplit) ==
  [base |-> base, lines |-> lines, path |-> path, noSplit |-> noSplit]

Flush(in, s) ==
  IF s.body = <<>> THEN s
  ELSE [s EXCEPT !.body = <<>>, !.base = 0,
          !.out = Append(@, Text(s.base, s.body, Path(s.headings),
                                 in.paper /\ IsAbstract(in, Path(s.headings))))]

\* Mutated: only the heading of the same level is replaced.
KeepDeeper(headings, level) == [headings EXCEPT ![level] = <<>>]
\* A heading ends those of its level and below.
Outer(headings, level) == [l \in 1..6 |-> IF l < level THEN headings[l] ELSE <<>>]

\* Mutated: a heading drops the text before it.
DropBefore(in, s, level, id) ==
  [s EXCEPT !.body = <<>>, !.base = 0, !.headings = [Outer(@, level) EXCEPT ![level] = <<id>>]]
setHeading(in, s, level, id) ==
  [Flush(in, s) EXCEPT !.headings = [Outer(@, level) EXCEPT ![level] = <<id>>]]

AddLine(in, s, id) ==
  LET level == Level(in.atoms[id[1]], LineOf(in, id))
  IN  IF LineOf(in, id) = Empty THEN s
      ELSE IF level > 0 THEN setHeading(in, s, level, id)
      ELSE [s EXCEPT !.body = Append(@, id), !.base = IF @ = 0 THEN id[1] ELSE @]

\* Mutated: texts are gathered over atoms that have places of their own.
Gather(in, s, atom) == s
\* An atom with a page and coordinates is not merged with the next.
EndAtom(in, s, atom) == IF atom.parser THEN Flush(in, s) ELSE s

AddSectionAtom(in, s, n) ==
  LET atom == in.atoms[n]
      ids == [i \in DOMAIN atom.lines |-> <<n, i>>]
  IN  IF atom.structured
      THEN EndAtom(in, FoldLeft(LAMBDA t, id : AddLine(in, t, id), s, ids), atom)
      ELSE LET t == Flush(in, s)
           IN  [t EXCEPT !.out = Append(@, Text(n, ids, Path(t.headings), FALSE))]

prepareStructuredAtoms(in) ==
  Flush(in, FoldLeft(LAMBDA s, n : AddSectionAtom(in, s, n), StartAt,
                     [n \in DOMAIN in.atoms |-> n])).out

SectionStep == Return("prepareStructuredAtoms", prepareStructuredAtoms(call.in))

-----------------------------------------------------------------------------
(* Properties.                                                             *)

LineIds(in) == UNION {{<<n, i>> : i \in DOMAIN in.atoms[n].lines} : n \in DOMAIN in.atoms}
AtomOf(in, id) == in.atoms[id[1]]
LevelOf(in, id) == Level(AtomOf(in, id), LineOf(in, id))
Heading(in, id) == AtomOf(in, id).structured /\ LineOf(in, id) # Empty /\ LevelOf(in, id) > 0
AtomsBefore(a, b) == a[1] < b[1] \/ (a[1] = b[1] /\ a[2] < b[2])

\* A heading encloses the lines up to the next heading of its level or a
\* coarser one.
Encloses(in, h, id) ==
  /\ Heading(in, h) /\ AtomsBefore(h, id)
  /\ \A g \in LineIds(in) : Heading(in, g) /\ AtomsBefore(h, g) /\ AtomsBefore(g, id) =>
       LevelOf(in, g) > LevelOf(in, h)

\* A line that is to be in a text: any line of an atom that is not text, and
\* those of a text that say something and are no headings.
KeptLine(in, id) == AtomOf(in, id).structured => LineOf(in, id) # Empty /\ ~Heading(in, id)

Sectioned == Returned("prepareStructuredAtoms")

\* Each text carries exactly the headings that enclose it, coarsest first:
\* no chunk is found under a chapter it does not belong to.
PathIsEnclosing ==
  Sectioned => \A i \in DOMAIN Result : \A id \in ToSet(Result[i].lines) :
    /\ ToSet(Result[i].path) = {h \in LineIds(call.in) : Encloses(call.in, h, id)}
    /\ \A j, k \in DOMAIN Result[i].path : j < k => AtomsBefore(Result[i].path[j], Result[i].path[k])

\* Every line that says something and is no heading is in one text, in the
\* order of the document.
LinesKept ==
  Sectioned =>
    LET all == FlattenSeq([i \in DOMAIN Result |-> Result[i].lines])
    IN  /\ {id \in LineIds(call.in) : KeptLine(call.in, id)} = ToSet(all)
        /\ \A j, k \in DOMAIN all : j < k => AtomsBefore(all[j], all[k])

\* A text that was parsed with coordinates has lines of one atom only, the
\* one whose page and box it shows.
PlacesAreTrue ==
  Sectioned => \A i \in DOMAIN Result : \A id \in ToSet(Result[i].lines) :
    AtomOf(call.in, id).parser => id[1] = Result[i].base

\* Texts stand under the headings that enclose them, all of them and in order,
\* at the place they were parsed from.
SectionsAreTrue == PathIsEnclosing /\ LinesKept /\ PlacesAreTrue
=============================================================================
