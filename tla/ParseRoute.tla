----------------------------- MODULE ParseRoute -----------------------------
(***************************************************************************)
(* Which parser reads a document: by its extension, the template of its    *)
(* data set and, for a PDF, by what the local parser made of it.           *)
(***************************************************************************)
EXTENDS Calls

CONSTANTS
  Counts,              \* numbers of runes, all and undecodable, of a text layer
  MinerUOutcomes       \* "atoms", "transient" or "permanent"

ASSUME RouteAssumption ==
  Counts \subseteq Nat /\ MinerUOutcomes \subseteq {"atoms", "transient", "permanent"}

Extensions == {"txt", "csv", "md", "pdf", "docx", "xlsx", "image", "other"}
Strategies == {"general", "qa", "book", "paper", "resume"}

\* What the local parser makes of a PDF: an error, or a text layer with
\* scanned pages in it or not; the file may embed pictures.
LocalResults ==
  {r \in [fails : BOOLEAN, scanned : BOOLEAN, total : Counts, invalid : Counts, images : BOOLEAN] :
     r.invalid <= r.total /\ (r.fails => r.total = 0 /\ ~r.scanned)}
Unread(fails) == [fails |-> fails, scanned |-> FALSE, total |-> 0, invalid |-> 0, images |-> FALSE]

RouteInputs ==
  [ext : Extensions \ {"pdf"}, strategy : Strategies, getFails : BOOLEAN, mineru : {FALSE},
   local : {Unread(FALSE), Unread(TRUE)}, outcome : {"atoms"}]
  \cup [ext : {"pdf"}, strategy : Strategies, getFails : {FALSE}, mineru : BOOLEAN,
        local : LocalResults, outcome : MinerUOutcomes]

Parsed(by) == [result |-> "atoms", by |-> by]
Permanent == [result |-> "permanent", by |-> "nobody"]
Transient == [result |-> "transient", by |-> "nobody"]

atomsTextIsPoor(r) == r.invalid >= 3 /\ r.invalid * 100 >= r.total

bookImages(in) == in.strategy = "book" /\ in.local.images

\* Some reason to leave the local result.
minerUReason(in) ==
  in.local.fails \/ in.local.scanned \/ atomsTextIsPoor(in.local) \/ bookImages(in)

\* Mutated: MinerU's failures are all for good.
GivenUp(in) == IF in.outcome = "atoms" THEN Parsed("mineru") ELSE Permanent
parsePDFWithMinerU(in) ==
  CASE in.outcome = "atoms" -> Parsed("mineru")
    [] in.outcome = "permanent" -> Permanent
    [] OTHER -> Transient

\* Mutated: without MinerU the local result has to do.
LocalInstead(in) ==
  IF in.strategy = "paper" \/ minerUReason(in)
  THEN IF in.mineru THEN parsePDFWithMinerU(in)
       ELSE IF in.local.fails THEN Permanent ELSE Parsed("local")
  ELSE Parsed("local")
parsePDFByStrategy(in) ==
  IF in.strategy = "paper"
  THEN IF in.mineru THEN parsePDFWithMinerU(in) ELSE Permanent
  ELSE IF minerUReason(in) /\ in.mineru THEN parsePDFWithMinerU(in)
  ELSE IF in.local.fails THEN Permanent
  ELSE IF atomsTextIsPoor(in.local) \/ (bookImages(in) /\ ~in.local.scanned) THEN Permanent
  ELSE Parsed("local")

\* Texts, notes and pictures are taken as they are.
Fallible(in) ==
  in.ext \in {"docx", "xlsx"} \/ (in.strategy = "qa" /\ in.ext \in {"txt", "csv"})

\* Mutated: a failed download is like a file that cannot be read.
GiveUp(in) ==
  IF in.getFails THEN Permanent
  ELSE IF in.ext = "pdf" THEN parsePDFByStrategy(in) ELSE Parsed("local")
fetchAndParse(in) ==
  IF in.getFails THEN Transient
  ELSE IF in.ext = "pdf" THEN parsePDFByStrategy(in)
  ELSE IF in.ext = "other" \/ (in.ext = "csv" /\ in.strategy # "qa") THEN Permanent
  ELSE IF in.local.fails /\ Fallible(in) THEN Permanent
  ELSE Parsed(IF in.strategy = "qa" /\ in.ext \in {"txt", "csv", "xlsx"} THEN "qa" ELSE "local")

RouteStep == Return("fetchAndParse", fetchAndParse(call.in))

-----------------------------------------------------------------------------
(* Properties.                                                             *)

Routed == Returned("fetchAndParse")

\* What a template cannot do without is never given up silently: no garbled
\* text layer, no paper's layout and no book's pictures are read by the
\* local parser.  A book that has scanned pages, too, is excepted: it loses
\* the pictures of its other pages, although README.md:51 of the worker says
\* that a book with pictures fails without MinerU.
NoSilentLoss ==
  Routed /\ call.in.ext = "pdf" /\ Result.by = "local" =>
    /\ ~call.in.local.fails
    /\ 100 * call.in.local.invalid < call.in.local.total \/ call.in.local.invalid < 3
    /\ call.in.strategy # "paper"
    /\ call.in.strategy = "book" /\ call.in.local.images => call.in.local.scanned
    /\ call.in.mineru => ~call.in.local.scanned

\* MinerU reads a PDF of a paper, and one the local parser is not enough for.
AsksMinerU(in) ==
  in.ext = "pdf" /\ ~in.getFails /\ in.mineru /\ (in.strategy = "paper" \/ minerUReason(in))

\* A document fails for good only for what it is and how the system is set
\* up: what failed and may succeed later, the download or MinerU, leads to
\* a retry, and nothing else does.
RetryableIsRetried ==
  Routed =>
    (Result.result = "transient" <=>
       call.in.getFails \/ (AsksMinerU(call.in) /\ call.in.outcome = "transient"))
=============================================================================
