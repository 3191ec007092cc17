------------------------------- MODULE Tables -------------------------------
(***************************************************************************)
(* A table that is too long for a chunk is cut between its rows and        *)
(* repeats its header; where no header is recognised it is split like a    *)
(* text.  A table is a part of a text of kinds of runes, see Splitting; a  *)
(* tag of HTML and a caption are one rune each.                            *)
(***************************************************************************)
EXTENDS Splitting

CONSTANTS
  LineEnds,            \* a newline and a paragraph break, which is two
  Newline, Dash,       \* the line of dashes under the header of a pipe table
  OpenTable, Caption, OpenRow, HeadCell, CloseRow, CloseTable,
  TableInputs          \* [text, target]

ASSUME TableAssumption ==
  /\ Newline \in LineEnds /\ LineEnds \subseteq Blanks /\ OpenRow # CloseRow
  /\ LineEnds \cap {Dash, OpenTable, Caption, OpenRow, HeadCell, CloseRow, CloseTable} = {}
  /\ \A in \in TableInputs : in.text \in Seq(Runes) /\ in.target \in Nat \ {0}

Without(in) == [text |-> in.text, target |-> in.target, overlap |-> 0]

Places(in, part, kind) == {p \in ToSet(part) : in.text[p] = kind}
First(places) == IF places = {} THEN <<>> ELSE <<Min(places)>>

\* A piece is [head, runes]: what it repeats of the table and its own part.
Piece(runes) == [head |-> <<>>, runes |-> runes]
Pieces(parts) == [i \in DOMAIN parts |-> Piece(parts[i])]

\* Rows are joined with newlines: the last one of a piece ends in none.
Chomp(in, part) ==
  IF part # <<>> /\ in.text[Last(part)] \in LineEnds THEN Front(part) ELSE part

Room(in, head, closing) == in.target - Len(head) - closing

AddRow(in, room, bodies, row) ==
  IF row = <<>> THEN bodies
  ELSE IF bodies = <<>> \/ Len(Last(bodies)) + Len(Chomp(in, row)) > room THEN Append(bodies, row)
  ELSE [bodies EXCEPT ![Len(bodies)] = @ \o row]

\* closing is the length of what is written after the rows.
CutRows(in, head, rows, closing) ==
  LET bodies == FoldLeft(LAMBDA s, row : AddRow(in, Room(in, head, closing), s, row), <<>>, rows)
  IN  [i \in DOMAIN bodies |-> [head |-> head, runes |-> Chomp(in, bodies[i])]]

\* From the tag of a row to the next that closes one: the text between two of
\* the latter holds a row or, <<>>, none.
RowIn(in, part) ==
  LET begin == {i \in DOMAIN part : in.text[part[i]] = OpenRow}
  IN  IF begin = {} \/ in.text[Last(part)] # CloseRow THEN <<>>
      ELSE SubSeq(part, Min(begin), Len(part))
HtmlRows(in, part) ==
  LET parts == splitKeepSeparator(in, part, {CloseRow})
  IN  [i \in DOMAIN parts |-> RowIn(in, parts[i])]

\* Mutated: a table is cut whatever it holds.
AnyTable(in, text) == Places(in, text, CloseTable) # {}
\* Only one table that ends is cut: rows of one within another are not.
PlainTable(in, text) ==
  Cardinality(Places(in, text, OpenTable)) = 1 /\ Places(in, text, CloseTable) # {}

splitHTMLTableKeepHeader(in, text) ==
  LET rows == HtmlRows(in, text)
      body == {i \in DOMAIN rows : rows[i] # <<>> /\ Places(in, rows[i], HeadCell) = {}}
      top == First(Places(in, text, OpenTable)) \o First(Places(in, text, Caption))
  IN  IF ~PlainTable(in, text) \/ body = {} THEN <<Piece(text)>>
      ELSE CutRows(in, top \o FlattenSeq(SubSeq(rows, 1, Min(body) - 1)),
                   SubSeq(rows, Min(body), Len(rows)), 1)

\* A line, the line of dashes, and more.
Headed(in, lines) ==
  /\ Len(lines) >= 3 /\ in.text[Last(lines[1])] = Newline
  /\ {in.text[p] : p \in ToSet(Chomp(in, lines[2]))} = {Dash}

splitTableKeepHeader(in, part) ==
  LET text == TrimRunes(in, part)
      lines == splitKeepSeparator(in, text, LineEnds)
  IN  IF text = <<>> THEN <<>>
      ELSE IF Len(text) <= in.target THEN <<Piece(text)>>
      ELSE IF Places(in, text, OpenTable) # {} THEN splitHTMLTableKeepHeader(in, text)
      ELSE IF ~Headed(in, lines) THEN Pieces(splitRecursive(Without(in), text))
      ELSE CutRows(in, lines[1] \o lines[2], SubSeq(lines, 3, Len(lines)), 0)

TableStep == Return("splitTableKeepHeader", splitTableKeepHeader(call.in, AllOf(call.in)))

-----------------------------------------------------------------------------
(* Properties.                                                             *)

Tabled == Returned("splitTableKeepHeader")
Table == TrimRunes(call.in, AllOf(call.in))
IsHtml(in, text) == Places(in, text, OpenTable) # {}
Single(in, text) ==
  /\ \E p \in ToSet(text) : in.text[p] = CloseTable
  /\ \A p, q \in ToSet(text) : in.text[p] = OpenTable /\ in.text[q] = OpenTable => p = q
IsCut == Tabled /\ Result # <<>> /\ Result[1].head # <<>>

\* Rows as sets of positions: in HTML from a tag that opens a row, where none
\* is open, to the next that closes one; the lines of a table of lines.
RowsOf(in, text) ==
  LET all == ToSet(text)
      closed(a, b) == \E c \in Places(in, text, CloseRow) : a <= c /\ c < b
  IN  {{p \in all : ab[1] <= p /\ p <= ab[2]} :
         ab \in {ab \in Places(in, text, OpenRow) \X Places(in, text, CloseRow) :
                  /\ ab[1] < ab[2] /\ ~closed(ab[1], ab[2])
                  /\ \A a \in Places(in, text, OpenRow) : a < ab[1] => closed(a, ab[1])}}
LinesOf(in, text) ==
  {{q \in ToSet(text) : \A x \in ToSet(text) :
       in.text[x] \in LineEnds => ~(p <= x /\ x < q) /\ ~(q <= x /\ x < p)} : p \in ToSet(text)}

HeadRow(in, row) == \E p \in row : in.text[p] = HeadCell
BodyRows(in, text) == {row \in RowsOf(in, text) : ~HeadRow(in, row)}
\* The header of an HTML table: tag, caption and the rows before the first
\* without a header cell; that of another: its first two lines.
HeaderOf(in, text) ==
  IF IsHtml(in, text)
  THEN ToSet(First(Places(in, text, OpenTable))) \cup ToSet(First(Places(in, text, Caption)))
       \cup UNION {row \in RowsOf(in, text) : \A b \in BodyRows(in, text) : Max(row) < Min(b)}
  ELSE {p \in ToSet(text) : Cardinality({x \in ToSet(text) : x < p /\ in.text[x] \in LineEnds}) < 2}

\* What a table that is cut loses: the text of an HTML table that is neither
\* header nor row, and the tag that ends it, which is written again.
OutsideRows(in, part) ==
  LET text == TrimRunes(in, part)
  IN  IF Len(text) > in.target /\ IsHtml(in, text) /\ Single(in, text) /\ BodyRows(in, text) # {}
      THEN ToSet(text) \ (HeaderOf(in, text) \cup UNION RowsOf(in, text))
      ELSE {}

\* The header and the rows of a table are in its pieces, and all of a table
\* whose rows are not recognised; the rows are in order and in one piece each.
TablesKeepText ==
  Tabled =>
    /\ {p \in ToSet(Table) : ~BlankRune(call.in, p)} \ OutsideRows(call.in, AllOf(call.in))
         \subseteq UNION {ToSet(Result[i].head) \cup ToSet(Result[i].runes) : i \in DOMAIN Result}
    /\ LET all == FlattenSeq([i \in DOMAIN Result |-> Result[i].runes])
       IN  \A i, j \in DOMAIN all : i < j => all[i] < all[j]

\* A table that is cut keeps its rows whole, each piece repeats all of the
\* header, and only a piece of one row is, with it, over the target; what has
\* no header to repeat is within the target or HTML that stays whole.
RowsUnderHeads ==
  Tabled =>
    LET in == call.in
        rows == IF IsHtml(in, Table) THEN RowsOf(in, Table) ELSE LinesOf(in, Table)
        Within(row, piece) == {p \in row : in.text[p] \notin LineEnds} \subseteq ToSet(piece.runes)
        closing == IF IsHtml(in, Table) THEN 1 ELSE 0
    IN  \A i \in DOMAIN Result :
          IF IsCut
          THEN /\ ToSet(Result[i].head) = HeaderOf(in, Table)
               /\ \A row \in rows : row \cap ToSet(Result[i].runes) # {} => Within(row, Result[i])
               /\ \/ Len(Result[i].head) + Len(Result[i].runes) + closing <= in.target
                  \/ \E row \in rows : ToSet(Result[i].runes) \subseteq row
          ELSE Len(Result[i].runes) <= in.target \/ (IsHtml(in, Table) /\ Len(Result) = 1)

=============================================================================
