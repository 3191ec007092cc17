SPECIFICATION MCSpec
CONSTANTS
  Queries = {}
  Subqueries = {}
  MaxQueries = 3
  Chunks = {1, 2, 3, 4, 5}
  RrfK = 2
  MaxTopK = 3
  DefaultTopK = 2
  Unit = 420
  SearchInputs = {}
  Separators <- MCSeparators
  Blanks = {"break", "newline"}
  Runes = {"break", "newline", "stop", "letter", "dash", "caption", "<table>", "</table>", "<tr>", "<th>", "</tr>"}
  Texts <- MCTexts
  Targets = {3}
  Overlaps = {1}
  Plain = 0
  Empty = 9
  Abstract = 8
  SectionInputs = {}
  MaterializeInputs = {}
  Counts = {}
  MinerUOutcomes = {"atoms", "transient", "permanent"}
  Basic = "basic"
  EntrySections = {"work"}
  ResumeInputs = {}
  QAInputs = {}
  MarkdownInputs = {}
  LineEnds = {"break", "newline"}
  Newline = "newline"
  Dash = "dash"
  OpenTable = "<table>"
  Caption = "caption"
  OpenRow = "<tr>"
  HeadCell = "<th>"
  CloseRow = "</tr>"
  CloseTable = "</table>"
  TableInputs = {}
  RouteTypes = {"none", "direct", "rewrite"}
  One = 2520
  EvidenceInputs = {}
  AttemptInputs = {}
  DurationInputs = {}
  ArchiveInputs = {}
  ConfigInputs = {}
INVARIANT ChunkWithinTarget
CHECK_DEADLOCK FALSE
