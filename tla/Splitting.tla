----------------------------- MODULE Splitting -----------------------------
(***************************************************************************)
(* The recursive splitter of the chunker: cut at the coarsest separator,   *)
(* gather pieces up to the target, cut what is still too long at the next  *)
(* separator, and repeat the tail of a chunk at the head of the next.      *)
(* A text is a sequence of kinds of runes; a piece or a chunk is the       *)
(* sequence of the positions it copies from the text.  A paragraph break,  *)
(* two newlines in the code, is one rune here.                             *)
(***************************************************************************)
EXTENDS Calls, FiniteSets, FiniteSetsExt, SequencesExt

CONSTANTS
  Runes,               \* the kinds of runes
  Separators,          \* those that separate, coarsest first
  Blanks,              \* those that TrimRunes removes
  Texts,               \* texts to split
  Targets, Overlaps    \* chunkTargetRunes, chunkOverlapRunes: 512 and 50

ASSUME SplitAssumption ==
  /\ Separators \in Seq(Runes) /\ Texts \subseteq Seq(Runes)
  /\ Targets \subseteq Nat \ {0} /\ Overlaps \subseteq Nat

SplitInputs == [text : Texts, target : Targets, overlap : Overlaps]
Parts(in) == Seq(DOMAIN in.text)

BlankRune(in, p) == in.text[p] \in Blanks

TrimRunes(in, part) ==
  LET solid == {i \in DOMAIN part : ~BlankRune(in, part[i])}
  IN  IF solid = {} THEN <<>> ELSE SubSeq(part, Min(solid), Max(solid))

\* A separator, one of seps, ends the piece before it.
NextRune(in, seps, pieces, p) ==
  IF pieces = <<>> \/ in.text[Last(Last(pieces))] \in seps THEN Append(pieces, <<p>>)
  ELSE [pieces EXCEPT ![Len(pieces)] = Append(@, p)]

splitKeepSeparator(in, part, seps) ==
  FoldLeft(LAMBDA pieces, p : NextRune(in, seps, pieces, p), <<>>, part)

hardSplit(part, target) ==
  [n \in 1..((Len(part) + target - 1) \div target) |->
     SubSeq(part, (n - 1) * target + 1, Min({n * target, Len(part)}))]

\* Mutated: the head of the chunk before is repeated.
headRunes(part, n) == IF Len(part) <= n THEN part ELSE SubSeq(part, 1, n)
tailRunes(part, n) == IF Len(part) <= n THEN part ELSE SubSeq(part, Len(part) - n + 1, Len(part))

\* What the next chunk starts with.
Carried(chunks, overlap) ==
  IF overlap > 0 /\ chunks # <<>> THEN tailRunes(Last(chunks), overlap) ELSE <<>>

\* Mutated: an oversized part that finer separators could cut is kept.
NeverFiner(part, target) == FALSE
Finer(part, target) == Len(part) > target

\* Mutated: a piece that does not fit is left out.
Refuse(current, piece) == current
Take(current, piece) == current \o piece

\* How the finer separators cut what is still too long is a function of it;
\* when there are none it is kept.
Whole(in) == [part \in Parts(in) |-> <<part>>]

FlushPart(in, finer, chunks, current) ==
  LET trimmed == TrimRunes(in, current)
  IN  IF trimmed = <<>> THEN chunks
      ELSE chunks \o (IF Finer(trimmed, in.target) THEN finer[trimmed] ELSE <<trimmed>>)

AddPiece(in, finer, s, piece) ==
  IF Len(s.current) + Len(piece) > in.target /\ s.current # <<>>
  THEN LET chunks == FlushPart(in, finer, s.chunks, s.current)
       IN  [chunks |-> chunks, current |-> Carried(chunks, in.overlap) \o piece]
  ELSE [s EXCEPT !.current = Take(@, piece)]

GatherPieces(in, finer, pieces) ==
  LET s == FoldLeft(LAMBDA t, piece : AddPiece(in, finer, t, piece),
                    [chunks |-> <<>>, current |-> <<>>], pieces)
  IN  FlushPart(in, finer, s.chunks, s.current)

\* From the last separator, the empty string, to the coarsest.
splitHard(in) ==
  [part \in Parts(in) |-> GatherPieces(in, Whole(in), hardSplit(part, in.target))]
SplitAt(in, finer, sep) ==
  [part \in Parts(in) |-> GatherPieces(in, finer, splitKeepSeparator(in, part, {sep}))]
splitWithSeparators(in) ==
  FoldLeft(LAMBDA finer, sep : SplitAt(in, finer, sep), splitHard(in), Reverse(Separators))

splitRecursive(in, part) ==
  LET text == TrimRunes(in, part)
  IN  IF text = <<>> THEN <<>>
      ELSE IF Len(text) <= in.target THEN <<text>>
      ELSE splitWithSeparators(in)[text]

\* A text as the sequence of all its positions.
AllOf(in) == [p \in DOMAIN in.text |-> p]

SplitStep == Return("splitRecursive", splitRecursive(call.in, AllOf(call.in)))

-----------------------------------------------------------------------------
(* Properties.                                                             *)

Splitted == Returned("splitRecursive")

\* Cutting, trimming and recursing lose nothing but blanks.
NothingLost ==
  Splitted =>
    {p \in DOMAIN call.in.text : ~BlankRune(call.in, p)} \subseteq UNION {ToSet(Result[i]) : i \in DOMAIN Result}

\* Chunks go forwards through a text: the positions ascend within a chunk, a
\* chunk repeats at most as much of the one before it as the overlap, and what
\* no earlier chunk has comes after all that they have.
GoesForwards(chunks, overlap) ==
  /\ \A i \in DOMAIN chunks : \A k \in 1..(Len(chunks[i]) - 1) : chunks[i][k] < chunks[i][k + 1]
  /\ \A i \in 1..(Len(chunks) - 1) :
       Cardinality(ToSet(chunks[i]) \cap ToSet(chunks[i + 1])) <= overlap
  /\ \A i \in DOMAIN chunks :
       LET earlier == UNION {ToSet(chunks[j]) : j \in 1..(i - 1)}
       IN  \A p \in ToSet(chunks[i]) \ earlier, q \in earlier : q < p

\* Chunks copy the text forwards; the runes missing between two of a chunk are
\* blank, and a chunk does not begin before the one before it.
TextOrder ==
  Splitted =>
    /\ GoesForwards(Result, call.in.overlap)
    /\ \A i \in DOMAIN Result : \A k \in 1..(Len(Result[i]) - 1) :
         \A p \in (Result[i][k] + 1)..(Result[i][k + 1] - 1) : BlankRune(call.in, p)
    /\ \A i \in 1..(Len(Result) - 1) : Head(Result[i]) <= Head(Result[i + 1])

\* No chunk is blank or longer than the target and the overlap together,
\* whatever the separators of the text.  The comment at splitter.go:17 allows
\* the target only: see ChunkWithinTarget.
ChunksBounded ==
  Splitted =>
    \A i \in DOMAIN Result :
      Result[i] # <<>> /\ Len(Result[i]) <= call.in.target + call.in.overlap

\* What the comment at splitter.go:17 says, no chunk is longer than the target:
\* it is not so, the overlap is put before a piece that fills the target and
\* there may be no finer separator left to cut the two.
ChunkWithinTarget == Splitted => \A i \in DOMAIN Result : Len(Result[i]) <= call.in.target

\* The splitter is sound: all the text, in its order, within the bounds.
SplittingIsSound == NothingLost /\ TextOrder /\ ChunksBounded
=============================================================================
