SPECIFICATION MCSpec
CONSTANTS
  Queries <- MCQueries
  Subqueries = {0, 2}
  MaxQueries = 3
  Chunks = {1, 2, 3, 4, 5}
  RrfK = 2
  MaxTopK = 3
  DefaultTopK = 2
  Unit = 420
  SearchInputs <- MCSearchInputs
  Separators <- MCSeparators
  Blanks = {"break", "newline"}
  Runes = {"break", "newline", "stop", "letter", "dash", "caption", "<table>", "</table>", "<tr>", "<th>", "</tr>"}
  Texts <- MCTexts
  Targets = {2, 3}
  Overlaps = {0, 1, 2}
  Plain = 0
  Empty = 9
  Abstract = 8
  SectionInputs <- MCSectionInputs
  MaterializeInputs <- MCMaterializeInputs
  Counts = {0, 2, 3, 299, 300, 301}
  MinerUOutcomes = {"atoms", "transient", "permanent"}
  Basic = "basic"
  EntrySections = {"work"}
  ResumeInputs <- MCResumeInputs
  QAInputs <- MCQAInputs
  MarkdownInputs <- MCMarkdownInputs
  LineEnds = {"break", "newline"}
  Newline = "newline"
  Dash = "dash"
  OpenTable = "<table>"
  Caption = "caption"
  OpenRow = "<tr>"
  HeadCell = "<th>"
  CloseRow = "</tr>"
  CloseTable = "</table>"
  TableInputs <- MCTableInputs
  RouteTypes = {"none", "direct", "rewrite"}
  One = 2520
  EvidenceInputs <- MCEvidenceInputs
  AttemptInputs <- MCAttemptInputs
  DurationInputs <- MCDurationInputs
  ArchiveInputs <- MCArchiveInputs
  ConfigInputs <- MCConfigInputs
INVARIANTS PlanIsSound FusionIsSound SplittingIsSound  SectionsAreTrue ChunksAreTrue TemplatesKeepText ParsingIsSound MetricsAreSound ConfigIsSound
CHECK_DEADLOCK FALSE
