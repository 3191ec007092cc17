------------------------------ MODULE Markdown ------------------------------
(***************************************************************************)
(* Markdown is cut into texts and tables.                                  *)
(***************************************************************************)
EXTENDS Calls, FiniteSets, FiniteSetsExt, SequencesExt

CONSTANT MarkdownInputs      \* sequences of kinds of lines

\* "row" and "separator" of a pipe table, "tick" and "tilde" (a bare fence),
\* "tickinfo" (a fence with a language, which cannot close one), "open",
\* "close" and "oneline" of an HTML table.
LineKinds == {"text", "blank", "row", "separator", "tick", "tilde", "tickinfo",
              "open", "close", "oneline"}

ASSUME MarkdownAssumption == MarkdownInputs \subseteq Seq(LineKinds)

Kind(k) == call.in[k]
Numbers == DOMAIN call.in

OpensFence(k) == Kind(k) \in {"tick", "tickinfo", "tilde"}
Marker(k) == IF Kind(k) = "tilde" THEN "tilde" ELSE "tick"
isClosingFence(k, marker) == Kind(k) \in {"tick", "tilde"} /\ Marker(k) = marker

isMarkdownTableRow(k) == Kind(k) \in {"row", "separator"}
isMarkdownTableStart(k) ==
  isMarkdownTableRow(k) /\ k + 1 \in Numbers /\ Kind(k + 1) = "separator"

\* The line after a table that starts at k.
markdownTableEnd(k) ==
  Min({j \in (k + 2)..(Len(call.in) + 1) : j \notin Numbers \/ ~isMarkdownTableRow(j)})
htmlTableEnd(k) ==
  LET closing == {j \in Numbers : j >= k /\ Kind(j) \in {"close", "oneline"}}
  IN  IF closing = {} THEN Len(call.in) + 1 ELSE Min(closing) + 1

FlushLines(s) ==
  [s EXCEPT !.buf = <<>>,
     !.atoms = IF \E i \in DOMAIN s.buf : Kind(s.buf[i]) # "blank"
               THEN Append(@, [table |-> FALSE, lines |-> s.buf]) ELSE @]

TakeTable(s, k, end) ==
  LET t == FlushLines(s)
  IN  [t EXCEPT !.next = end,
         !.atoms = Append(@, [table |-> TRUE, lines |-> [i \in 1..(end - k) |-> k + i - 1]])]

Buffer(s, k) == [s EXCEPT !.buf = Append(@, k), !.next = k + 1]

\* Mutated: any fence closes the one that is open.
AnyFence(s, k) ==
  IF OpensFence(k) THEN Buffer([s EXCEPT !.fence = "none"], k) ELSE Buffer(s, k)
\* Inside a fence only the line that closes it matters.
InFence(s, k) ==
  Buffer(IF isClosingFence(k, s.fence) THEN [s EXCEPT !.fence = "none"] ELSE s, k)

\* Lines before s.next belong to a table that has been taken.
ReadLine(s, k) ==
  IF k < s.next THEN s
  ELSE IF s.fence # "none" THEN InFence(s, k)
  ELSE IF OpensFence(k) THEN Buffer([s EXCEPT !.fence = Marker(k)], k)
  ELSE IF Kind(k) \in {"open", "oneline"} THEN TakeTable(s, k, htmlTableEnd(k))
  ELSE IF isMarkdownTableStart(k) THEN TakeTable(s, k, markdownTableEnd(k))
  ELSE Buffer(s, k)

extractMarkdownAtoms(in) ==
  FlushLines(FoldLeft(ReadLine, [atoms |-> <<>>, buf |-> <<>>, fence |-> "none", next |-> 1],
                      [k \in DOMAIN in |-> k])).atoms

MarkdownStep == Return("extractMarkdownAtoms", extractMarkdownAtoms(call.in))

-----------------------------------------------------------------------------
(* Properties.                                                             *)

Extracted == Returned("extractMarkdownAtoms")

\* The fence line k stands in, for a text without HTML tables.
FenceBefore(k) ==
  FoldLeft(LAMBDA f, j : IF f = "none" THEN IF OpensFence(j) THEN Marker(j) ELSE f
                         ELSE IF isClosingFence(j, f) THEN "none" ELSE f,
           "none", [j \in 1..(k - 1) |-> j])

\* Cutting keeps every line that is not blank, once and in order, and
\* a table is whole: outside code its rows are not divided among atoms, and
\* what only looks like a table in a code block stays in the text.
MarkdownKept ==
  Extracted =>
    LET all == FlattenSeq([i \in DOMAIN Result |-> Result[i].lines])
        html == \E k \in Numbers : Kind(k) \in {"open", "oneline"}
    IN  /\ \A i, j \in DOMAIN all : i < j => all[i] < all[j]
        /\ {k \in Numbers : Kind(k) # "blank"} \subseteq ToSet(all)
        /\ \A i \in DOMAIN Result : \A k \in ToSet(Result[i].lines) :
             ~html => Result[i].table =
               (FenceBefore(k) = "none" /\
                \E s \in 1..k : /\ isMarkdownTableStart(s) /\ FenceBefore(s) = "none"
                                /\ \A j \in s..k : isMarkdownTableRow(j))
=============================================================================
