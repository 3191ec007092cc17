---------------------------- MODULE Materialize ----------------------------
(***************************************************************************)
(* From parsed atoms to chunks: texts without a place of their own are     *)
(* gathered and split together, everything else is cut by itself, images   *)
(* go through the vision model and are stored.  The atoms of a document    *)
(* are parts of one text of kinds of runes, see Splitting, in its order;   *)
(* the paragraph break the gathering writes between two stands there.      *)
(***************************************************************************)
EXTENDS Tables

CONSTANT MaterializeInputs
  \* [text, target, overlap, atoms, vision, visionFails, putFails] as they occur

AtomType == [first : Nat, last : Nat, image : BOOLEAN, scanned : BOOLEAN, parser : BOOLEAN, kind : STRING]

\* One rune stands between an atom and the next.
Laid(in) ==
  \A n \in DOMAIN in.atoms :
    /\ in.atoms[n].first = (IF n = 1 THEN 1 ELSE in.atoms[n - 1].last + 2)
    /\ in.atoms[n].last \in (in.atoms[n].first - 1)..Len(in.text)
    /\ n > 1 => BlankRune(in, in.atoms[n].first - 1)

ASSUME MaterializeAssumption ==
  \A in \in MaterializeInputs :
    /\ in.text \in Seq(Runes) /\ in.target \in Nat \ {0} /\ in.overlap \in Nat
    /\ in.atoms \in Seq(AtomType) /\ Laid(in)
    /\ in.vision \in BOOLEAN /\ in.visionFails \in BOOLEAN /\ in.putFails \in BOOLEAN

\* An atom is [first, last, image, scanned, parser, kind]: its part of the
\* text, which may be empty, whether it has image data, is a page that only a
\* vision model can read, and comes with a place; its kind is "text", "table",
\* "picture" (a picture without data), "formula", or a section of a template,
\* "section", or "whole" when it must not be split.
Atom(in, n) == in.atoms[n]
Stretch(first, last) == [k \in 1..(last - first + 1) |-> first + k - 1]
TextOf(in, n) == Stretch(Atom(in, n).first, Atom(in, n).last)

\* A chunk is [head, runes, image]: the header it repeats of a table, its own
\* part of the text, and the atom whose picture it holds, or 0.
Chunk(piece) == [head |-> piece.head, runes |-> piece.runes, image |-> 0]
ChunksOfPieces(pieces) == [i \in DOMAIN pieces |-> Chunk(pieces[i])]
splitText(in, part) == ChunksOfPieces(Pieces(splitRecursive(in, part)))

Begin == [ok |-> TRUE, chunks |-> <<>>, buf |-> <<>>, stored |-> {}]
Fail(s) == [s EXCEPT !.ok = FALSE, !.chunks = <<>>, !.buf = <<>>]

\* Mutated: an image is put before the text that precedes it.
HoldText(in, s) == s
flushText(in, s) == [s EXCEPT !.chunks = @ \o splitText(in, s.buf), !.buf = <<>>]

AppendChunks(s, chunks) == [s EXCEPT !.chunks = @ \o chunks]

\* What a vision failure is for: a picture that another parser has placed
\* keeps what is known of it.
Tolerated(in, n) == Atom(in, n).parser /\ ~Atom(in, n).scanned

\* The picture is saved before its chunk, with its caption, is made.
Store(in, s, n) ==
  IF in.putFails THEN Fail(s)
  ELSE [AppendChunks(s, <<[head |-> <<>>, runes |-> TrimRunes(in, TextOf(in, n)), image |-> n]>>)
          EXCEPT !.stored = @ \cup {n}]

imageChunk(in, s, n) ==
  IF in.vision /\ Atom(in, n).kind # "formula" /\ in.visionFails /\ ~Tolerated(in, n)
  THEN Fail(s)
  ELSE Store(in, s, n)

\* Nothing is known of a picture.
Unknown(in, n) == ~Atom(in, n).parser /\ TrimRunes(in, TextOf(in, n)) = <<>>

\* Mutated: a scanned page is treated like any picture.
ScansSkipped(in, s, n) ==
  IF ~in.vision /\ (Atom(in, n).scanned \/ Unknown(in, n)) THEN s ELSE imageChunk(in, s, n)
\* Without a vision model a scanned page is an error, and a picture that
\* nothing is known of is left out.
AddImage(in, s, n) ==
  IF ~in.vision /\ Atom(in, n).scanned THEN Fail(s)
  ELSE IF ~in.vision /\ Unknown(in, n) THEN s
  ELSE imageChunk(in, s, n)

\* A picture without data is its caption, which may be empty.
CaptionOf(in, n) ==
  LET text == TrimRunes(in, TextOf(in, n))
  IN  IF text = <<>> THEN <<>> ELSE <<Chunk(Piece(text))>>

\* Mutated: a picture without data is nothing.
NoCaption(in, n) == IF Atom(in, n).kind = "picture" THEN <<>> ELSE splitText(in, TextOf(in, n))
\* An atom with text of its own is cut by itself.
Own(in, n) ==
  CASE Atom(in, n).kind = "table" -> ChunksOfPieces(splitTableKeepHeader(in, TextOf(in, n)))
    [] Atom(in, n).kind = "picture" -> CaptionOf(in, n)
    [] Atom(in, n).kind = "whole" -> <<Chunk(Piece(TextOf(in, n)))>>
    [] OTHER -> splitText(in, TextOf(in, n))

\* Mutated: texts with a place are gathered with the others.
GatheredKind(in, n) == Atom(in, n).kind = "text"
Gathered(in, n) == Atom(in, n).kind = "text" /\ ~Atom(in, n).parser

\* With the paragraph break before it, unless it is the first.
JoinText(in, s, n) ==
  [s EXCEPT !.buf = IF @ = <<>> THEN TextOf(in, n) ELSE @ \o Stretch(Last(@) + 1, Atom(in, n).last)]

AddAtom(in, s, n) ==
  IF ~s.ok THEN s
  ELSE IF Atom(in, n).image THEN AddImage(in, flushText(in, s), n)
  ELSE IF Gathered(in, n) THEN JoinText(in, s, n)
  ELSE AppendChunks(flushText(in, s), Own(in, n))

standaloneImage(in) ==
  /\ Len(in.atoms) = 1 /\ Atom(in, 1).image /\ ~Atom(in, 1).scanned /\ ~Atom(in, 1).parser

materializeChunks(in) ==
  IF standaloneImage(in) /\ ~in.vision THEN Fail(Begin)
  ELSE LET s == FoldLeft(LAMBDA t, n : AddAtom(in, t, n), Begin, [n \in DOMAIN in.atoms |-> n])
       IN  IF s.ok THEN flushText(in, s) ELSE s

MaterializeStep == Return("materializeChunks", materializeChunks(call.in))

-----------------------------------------------------------------------------
(* Properties.                                                             *)

Materialized == Returned("materializeChunks") /\ Result.ok
Of(in, n) == Atom(in, n).first..Atom(in, n).last

\* What a document loses: what its tables lose when they are cut.
LostInTables(in) ==
  UNION {OutsideRows(in, TextOf(in, n)) :
           n \in {m \in DOMAIN in.atoms : Atom(in, m).kind = "table" /\ ~Atom(in, m).image}}

\* The chunks hold all the text of the document, but for what is outside the
\* rows of an HTML table that is cut, and hold it in its order: the buffered
\* text never overtakes or is overtaken by what is cut by itself.  Only the
\* overlap of two chunks and the header of a table are there twice, and
\* a picture is between the texts it is between in the document.
TextInOrder ==
  Materialized =>
    LET runes == [i \in DOMAIN Result.chunks |-> Result.chunks[i].runes]
        heads == [i \in DOMAIN Result.chunks |-> Result.chunks[i].head]
    IN  /\ \A n \in DOMAIN call.in.atoms : \A p \in Of(call.in, n) \ LostInTables(call.in) :
             ~BlankRune(call.in, p) => \E i \in DOMAIN runes : p \in ToSet(runes[i]) \cup ToSet(heads[i])
        /\ GoesForwards(runes, call.in.overlap)
        /\ \A i, j \in DOMAIN Result.chunks : i < j =>
             LET a == Result.chunks[i] b == Result.chunks[j]
             IN  /\ a.image # 0 => a.image # b.image /\ \A p \in ToSet(b.runes) : p > Atom(call.in, a.image).last
                 /\ b.image # 0 => \A p \in ToSet(a.runes) : p < Atom(call.in, b.image).first

\* A document that is done has every scanned page: without a vision model,
\* or when it fails, the parsing fails.
ScansAreRead ==
  Materialized => \A n \in DOMAIN call.in.atoms : Atom(call.in, n).image /\ Atom(call.in, n).scanned =>
    /\ call.in.vision /\ (~call.in.visionFails \/ Atom(call.in, n).kind = "formula")
    /\ \E i \in DOMAIN Result.chunks : Result.chunks[i].image = n

HasPlace(in, n) == Atom(in, n).kind # "text" \/ Atom(in, n).parser

\* A chunk that shows a page, a table or a section has nothing from elsewhere
\* in it, the header it repeats is its own table's, and a chunk that names
\* a picture has its object in the store.
ChunksAreSourced ==
  Materialized => \A i \in DOMAIN Result.chunks :
    LET c == Result.chunks[i]
        all == ToSet(c.runes) \cup ToSet(c.head)
    IN  /\ \A n, m \in DOMAIN call.in.atoms :
             n # m /\ all \cap Of(call.in, n) # {} /\ all \cap Of(call.in, m) # {} =>
               ~Atom(call.in, n).image /\ ~HasPlace(call.in, n)
        /\ \A n \in DOMAIN call.in.atoms :
             ToSet(c.head) \cap Of(call.in, n) # {} => Atom(call.in, n).kind = "table"
        /\ c.image # 0 => c.image \in Result.stored

\* The chunks of a document are its content: its text in order, its scanned
\* pages, and nothing without a source.
ChunksAreTrue == TextInOrder /\ ScansAreRead /\ ChunksAreSourced
=============================================================================
