--------------------------- MODULE MinerUArchive ---------------------------
(***************************************************************************)
(* Reading the archive MinerU returns: the content list when there is one, *)
(* else the Markdown file.  A path is [dir, base]; readMinerUZipFile fails *)
(* for an entry that is too large or damaged.                              *)
(***************************************************************************)
EXTENDS ParseRoute, FiniteSets, FiniteSetsExt, SequencesExt

CONSTANT
  ArchiveInputs        \* [entries, list, markdown] as they occur
\* [entries, items, wellformed, markdown]: entries are [dir, base, safe, readable]
\* with base "list", "md" or an image; items are what the content list holds,
\* [type, text, image], when it is wellformed; markdown says whether full.md
\* has text.

Furniture == {"header", "footer", "page_number", "discarded"}
Pictures == {"image", "chart", "formula"}

ASSUME ArchiveAssumption ==
  \A in \in ArchiveInputs :
    /\ in.entries \in Seq([dir : Int, base : STRING, safe : BOOLEAN, readable : BOOLEAN])
    /\ in.items \in Seq([type : STRING, text : BOOLEAN, image : [dir : Int, base : STRING]])
    /\ in.wellformed \in BOOLEAN /\ in.markdown \in BOOLEAN

Entries == DOMAIN call.in.entries
Entry(k) == call.in.entries[k]
Safe == {k \in Entries : Entry(k).safe}
\* The last entry of a kind wins, 0 for none.
LastOf(base) == Max({0} \cup {k \in Safe : Entry(k).base = base})

\* Mutated: a name in any directory will do.
ByBase(path) == {k \in Safe : Entry(k).base = path.base}
\* Mutated: an entry in another directory is not looked for.
OnlyExact(path) ==
  LET exact == {k \in Safe : Entry(k).dir = path.dir /\ Entry(k).base = path.base}
  IN  IF path.base = "" \/ exact = {} THEN {} ELSE {Max(exact)}
\* The entry of that very path, else any entry that ends like it: the code
\* takes the first in the order of a map, which is any.
findMinerUAsset(path) ==
  LET exact == {k \in Safe : Entry(k).dir = path.dir /\ Entry(k).base = path.base}
  IN  IF path.base = "" THEN {}
      ELSE IF exact # {} THEN {Max(exact)} ELSE {k \in Safe : Entry(k).base = path.base}

\* Mutated: a picture without a caption is nothing.
HasWords(item, picture) == item.text
HasContent(item, picture) == item.text \/ picture # 0

\* The pictures item i may get, 0 for none.
PictureOf(items, i) ==
  LET found == IF items[i].type \in Pictures THEN findMinerUAsset(items[i].image) ELSE {}
  IN  IF found = {} THEN {0} ELSE {IF Entry(k).readable THEN k ELSE 0 : k \in found}

InOrder(T) == CHOOSE q \in SetToSeqs(T) : \A i, j \in DOMAIN q : i < j => q[i] < q[j]

\* Atoms name the item they are made of and its picture.
minerUItemsToAtoms(items, picture) ==
  LET kept == InOrder({i \in DOMAIN items :
                         items[i].type \notin Furniture /\ HasContent(items[i], picture[i])})
  IN  [n \in DOMAIN kept |-> [item |-> kept[n], picture |-> picture[kept[n]]]]

NoArchive == [ok |-> FALSE, from |-> "none", atoms |-> <<>>]

\* Mutated: a content list that gives no atoms is the answer.
ListIsFinal(atoms) == [ok |-> atoms # <<>>, from |-> "list", atoms |-> atoms]
FromMarkdown ==
  LET md == LastOf("md")
  IN  IF md # 0 /\ Entry(md).readable /\ call.in.markdown
      THEN [ok |-> TRUE, from |-> "markdown", atoms |-> <<[item |-> 0, picture |-> 0]>>]
      ELSE NoArchive
FromList(atoms) ==
  IF atoms # <<>> THEN [ok |-> TRUE, from |-> "list", atoms |-> atoms] ELSE FromMarkdown

ParseArchive ==
  LET list == LastOf("list")
      items == call.in.items
  IN  IF list = 0 THEN {FromMarkdown}
      ELSE IF ~Entry(list).readable \/ ~call.in.wellformed THEN {NoArchive}
      ELSE {FromList(minerUItemsToAtoms(items, picture)) :
              picture \in {p \in [DOMAIN items -> 0..Len(call.in.entries)] :
                             \A i \in DOMAIN items : p[i] \in PictureOf(items, i)}}

ArchiveStep ==
  /\ call.of = "parseMinerUArchive"
  /\ \E value \in ParseArchive : Return("parseMinerUArchive", value)

-----------------------------------------------------------------------------
(* Properties.                                                             *)

Unpacked == Returned("parseMinerUArchive")

\* The entries of a path and those of its name in any directory.
EntriesAt(path) == {k \in Safe : Entry(k).dir = path.dir /\ Entry(k).base = path.base}
EntriesNamed(path) == {k \in Safe : Entry(k).base = path.base}

\* Figures keep their pictures: with the exact path in the archive, an item
\* gets that entry, so that two figures never swap theirs, and else one that
\* has at least its name; a picture that cannot be read is none.
PicturesAreOwn ==
  Unpacked => \A n \in DOMAIN Result.atoms :
    LET a == Result.atoms[n]
        path == call.in.items[a.item].image
    IN  a.picture # 0 =>
          /\ call.in.items[a.item].type \in Pictures /\ Entry(a.picture).readable
          /\ a.picture \in EntriesNamed(path)
          /\ EntriesAt(path) # {} => a.picture = Max(EntriesAt(path))

\* Reading a list keeps, in the order of the pages, every item with words and
\* every figure whose picture can be read, and nothing that is printed on
\* every page.  The picture is the last of the entries of its path or, when
\* there is none, any that has its name.
ItemsKept ==
  Unpacked /\ Result.from = "list" =>
    LET items == call.in.items
        kept == [n \in DOMAIN Result.atoms |-> Result.atoms[n].item]
        Shown(i) == /\ items[i].type \in Pictures /\ items[i].image.base # ""
                    /\ IF EntriesAt(items[i].image) # {}
                       THEN Entry(Max(EntriesAt(items[i].image))).readable
                       ELSE /\ EntriesNamed(items[i].image) # {}
                            /\ \A k \in EntriesNamed(items[i].image) : Entry(k).readable
    IN  /\ \A n, m \in DOMAIN kept : n < m => kept[n] < kept[m]
        /\ \A i \in DOMAIN items :
             /\ i \in ToSet(kept) => items[i].type \notin Furniture
             /\ (items[i].text \/ Shown(i)) /\ items[i].type \notin Furniture => i \in ToSet(kept)

\* An archive is refused only when there is nothing in it: with a readable
\* Markdown file the parse fails only on a content list that cannot be read.
NothingElseToRead ==
  Unpacked /\ ~Result.ok =>
    LET md == LastOf("md")
        list == LastOf("list")
    IN  \/ md = 0 \/ ~Entry(md).readable \/ ~call.in.markdown
        \/ list # 0 /\ (~Entry(list).readable \/ ~call.in.wellformed)

\* Parsing hides no failure: neither the choice of a parser with its fallbacks
\* nor the reading of a MinerU archive gives up what can be had.
ParsingIsSound ==
  /\ NoSilentLoss /\ RetryableIsRetried
  /\ PicturesAreOwn /\ ItemsKept /\ NothingElseToRead
=============================================================================
