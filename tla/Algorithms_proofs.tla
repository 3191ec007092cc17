-------------------------- MODULE Algorithms_proofs --------------------------
(***************************************************************************)
(* Theorems about the functions without state: what the plan of a          *)
(* question, the choice of a parser, the reading of an archive, the        *)
(* reading of the configuration, the fusion of rankings, the filing of     *)
(* texts under their headings, the splitter, the cutting of tables, the    *)
(* making of chunks and the evaluation return for every input.             *)
(***************************************************************************)
EXTENDS QueryPlan, MinerUArchive, Config, Materialize, Retrieval, Sections, Evaluation,
        DataLemmas, SequenceTheorems

AlgorithmsInit ==
  /\ CallInit
  /\ \/ Called("Plan", PlanInputs)
     \/ Called("fetchAndParse", RouteInputs)
     \/ Called("parseMinerUArchive", ArchiveInputs)
     \/ Called("Load", ConfigInputs)
     \/ Called("materializeChunks", MaterializeInputs)
     \/ Called("SearchQueries", SearchInputs)
     \/ Called("prepareStructuredAtoms", SectionInputs)
     \/ Called("splitRecursive", SplitInputs)
     \/ Called("splitTableKeepHeader", TableInputs)
     \/ Called("evaluateEvidence", EvidenceInputs)
     \/ Called("Summarize", AttemptInputs)
     \/ Called("durationStats", DurationInputs)

AlgorithmsNext ==
  PlanStep \/ RouteStep \/ ArchiveStep \/ ConfigStep \/ MaterializeStep \/ SearchStep
  \/ SectionStep \/ SplitStep \/ TableStep \/ EvaluationStep

AlgorithmsSpec == AlgorithmsInit /\ [][AlgorithmsNext]_callVars

\* A call has one of the inputs, and its answer is what the code computes
\* from that input.
Answered ==
  /\ \/ Called("Plan", PlanInputs)
     \/ Called("fetchAndParse", RouteInputs)
     \/ Called("parseMinerUArchive", ArchiveInputs)
     \/ Called("Load", ConfigInputs)
     \/ Called("materializeChunks", MaterializeInputs)
     \/ Called("SearchQueries", SearchInputs)
     \/ Called("prepareStructuredAtoms", SectionInputs)
     \/ Called("splitRecursive", SplitInputs)
     \/ Called("splitTableKeepHeader", TableInputs)
     \/ Called("evaluateEvidence", EvidenceInputs)
     \/ Called("Summarize", AttemptInputs)
     \/ Called("durationStats", DurationInputs)
  /\ answer # <<>> =>
       /\ call.of = "Plan" => Result = Plan(call.in)
       /\ call.of = "fetchAndParse" => Result = fetchAndParse(call.in)
       /\ call.of = "parseMinerUArchive" => Result \in ParseArchive
       /\ call.of = "Load" => Result = Load(call.in)
       /\ call.of = "materializeChunks" => Result = materializeChunks(call.in)
       /\ call.of = "SearchQueries" => Result = SearchQueries(call.in)
       /\ call.of = "prepareStructuredAtoms" => Result = prepareStructuredAtoms(call.in)
       /\ call.of = "splitRecursive" => Result = splitRecursive(call.in, AllOf(call.in))
       /\ call.of = "splitTableKeepHeader" => Result = splitTableKeepHeader(call.in, AllOf(call.in))
       /\ call.of = "evaluateEvidence" => Result = evaluateEvidence(call.in.hits, call.in.wanted)
       /\ call.of = "Summarize" => Result = Summarize(call.in)
       /\ call.of = "durationStats" => Result = durationStats(call.in)

LEMMA AnsweredInit == AlgorithmsInit => Answered
  BY DEF AlgorithmsInit, Answered, CallInit

LEMMA AnsweredNext == Answered /\ [AlgorithmsNext]_callVars => Answered'
<1> SUFFICES ASSUME Answered, [AlgorithmsNext]_callVars
             PROVE  Answered'
  OBVIOUS
<1>a. call' = call
  BY DEF AlgorithmsNext, PlanStep, RouteStep, ConfigStep, ArchiveStep, MaterializeStep, SearchStep,
     SectionStep, SplitStep, TableStep, EvaluationStep, Return, callVars
<1>b. ParseArchive' = ParseArchive
  <2>1. Entries' = Entries /\ Safe' = Safe
    BY <1>a DEF Entries, Safe, Entry
  <2>2. FromMarkdown' = FromMarkdown
    BY <1>a DEF FromMarkdown, LastOf, Safe, Entries, Entry
  <2>3. ASSUME NEW items, NEW i
        PROVE  PictureOf(items, i)' = PictureOf(items, i)
    BY <1>a DEF PictureOf, findMinerUAsset, Safe, Entries, Entry
  <2> QED
    BY <1>a, <2>1, <2>2, <2>3, Zenon DEF ParseArchive, LastOf, Entry, FromList
<1>1. CASE UNCHANGED callVars
  BY <1>1, <1>b DEF Answered, callVars, Called, Result
<1>2. CASE PlanStep
  BY <1>2 DEF Answered, PlanStep, Return, Called, Result
<1>3. CASE RouteStep
  BY <1>3 DEF Answered, RouteStep, Return, Called, Result
<1>4. CASE ConfigStep
  BY <1>4 DEF Answered, ConfigStep, Return, Called, Result
<1>5. CASE MaterializeStep
  BY <1>5 DEF Answered, MaterializeStep, Return, Called, Result
<1>6. CASE SearchStep
  BY <1>6 DEF Answered, SearchStep, Return, Called, Result
<1>7. CASE SectionStep
  BY <1>7 DEF Answered, SectionStep, Return, Called, Result
<1>8. CASE SplitStep
  BY <1>8 DEF Answered, SplitStep, Return, Called, Result
<1>9. CASE ArchiveStep
  <2>1. PICK value \in ParseArchive : Return("parseMinerUArchive", value)
    BY <1>9 DEF ArchiveStep
  <2> QED
    BY <1>b, <2>1 DEF Answered, Return, Called, Result
<1>10. CASE Return("evaluateEvidence", evaluateEvidence(call.in.hits, call.in.wanted))
  BY <1>10 DEF Answered, Return, Called, Result
<1>11. CASE Return("Summarize", Summarize(call.in))
  BY <1>11 DEF Answered, Return, Called, Result
<1>12. CASE Return("durationStats", durationStats(call.in))
  BY <1>12 DEF Answered, Return, Called, Result
<1>13. CASE EvaluationStep
  BY <1>10, <1>11, <1>12, <1>13 DEF EvaluationStep
<1>14. CASE TableStep
  BY <1>14 DEF Answered, TableStep, Return, Called, Result
<1> QED
  BY <1>1, <1>2, <1>3, <1>4, <1>5, <1>6, <1>7, <1>8, <1>9, <1>13, <1>14 DEF AlgorithmsNext

\* The input of a call is one of those of its function.
LEMMA InputOf ==
  ASSUME Answered
  PROVE  /\ call.of = "Plan" => call.in \in PlanInputs
         /\ call.of = "fetchAndParse" => call.in \in RouteInputs
         /\ call.of = "parseMinerUArchive" => call.in \in ArchiveInputs
         /\ call.of = "Load" => call.in \in ConfigInputs
         /\ call.of = "materializeChunks" => call.in \in MaterializeInputs
         /\ call.of = "SearchQueries" => call.in \in SearchInputs
         /\ call.of = "prepareStructuredAtoms" => call.in \in SectionInputs
         /\ call.of = "splitRecursive" => call.in \in SplitInputs
         /\ call.of = "splitTableKeepHeader" => call.in \in TableInputs
         /\ call.of = "evaluateEvidence" => call.in \in EvidenceInputs
         /\ call.of = "Summarize" => call.in \in AttemptInputs
         /\ call.of = "durationStats" => call.in \in DurationInputs
<1>1. ASSUME NEW f, NEW inputs, Called(f, inputs)
      PROVE  call.of = f /\ call.in \in inputs
  BY <1>1 DEF Called
<1>2. \/ Called("Plan", PlanInputs)
      \/ Called("fetchAndParse", RouteInputs)
      \/ Called("parseMinerUArchive", ArchiveInputs)
      \/ Called("Load", ConfigInputs)
      \/ Called("materializeChunks", MaterializeInputs)
      \/ Called("SearchQueries", SearchInputs)
      \/ Called("prepareStructuredAtoms", SectionInputs)
      \/ Called("splitRecursive", SplitInputs)
     \/ Called("splitTableKeepHeader", TableInputs)
      \/ Called("evaluateEvidence", EvidenceInputs)
      \/ Called("Summarize", AttemptInputs)
      \/ Called("durationStats", DurationInputs)
  BY DEF Answered
<1>3. CASE Called("Plan", PlanInputs)
  BY <1>1, <1>3
<1>4. CASE Called("fetchAndParse", RouteInputs)
  BY <1>1, <1>4
<1>5. CASE Called("parseMinerUArchive", ArchiveInputs)
  BY <1>1, <1>5
<1>6. CASE Called("Load", ConfigInputs)
  BY <1>1, <1>6
<1>7. CASE Called("materializeChunks", MaterializeInputs)
  BY <1>1, <1>7
<1>8. CASE Called("SearchQueries", SearchInputs)
  BY <1>1, <1>8
<1>9. CASE Called("prepareStructuredAtoms", SectionInputs)
  BY <1>1, <1>9
<1>10. CASE Called("splitRecursive", SplitInputs)
  BY <1>1, <1>10
<1>11. CASE Called("evaluateEvidence", EvidenceInputs)
  BY <1>1, <1>11
<1>12. CASE Called("Summarize", AttemptInputs)
  BY <1>1, <1>12
<1>13. CASE Called("durationStats", DurationInputs)
  BY <1>1, <1>13
<1>14. CASE Called("splitTableKeepHeader", TableInputs)
  BY <1>1, <1>14
<1> QED
  BY <1>2, <1>3, <1>4, <1>5, <1>6, <1>7, <1>8, <1>9, <1>10, <1>11, <1>12, <1>13, <1>14

LEMMA AnsweredAlways == AlgorithmsSpec => []Answered
  BY AnsweredInit, AnsweredNext, PTL DEF AlgorithmsSpec

-----------------------------------------------------------------------------
(* The configuration.                                                      *)

\* The directories above a path are its prefixes: walkParents lists them.
LEMMA ParentsArePrefixes ==
  ASSUME NEW start \in Paths, NEW p \in Paths
  PROVE  (Len(p) <= Len(start) /\ p = SubSeq(start, 1, Len(p)))
         <=> \E k \in 0..Len(start) : p = walkParents(start)[k] /\ Len(p) = Len(start) - k
<1>1. Len(start) \in Nat /\ Len(p) \in Nat
  BY LenProperties DEF Paths
<1>2. ASSUME NEW k \in 0..Len(start)
      PROVE  walkParents(start)[k] = SubSeq(start, 1, Len(start) - k)
  BY DEF walkParents
<1>3. ASSUME Len(p) <= Len(start), p = SubSeq(start, 1, Len(p))
      PROVE  \E k \in 0..Len(start) : p = walkParents(start)[k] /\ Len(p) = Len(start) - k
  <2>1. Len(start) - Len(p) \in 0..Len(start)
    BY <1>1, <1>3
  <2>2. Len(start) - (Len(start) - Len(p)) = Len(p)
    BY <1>1
  <2>3. p = walkParents(start)[Len(start) - Len(p)]
    BY <1>2, <1>3, <2>1, <2>2
  <2> QED
    BY <2>1, <2>2, <2>3
<1>4. ASSUME NEW k \in 0..Len(start), p = walkParents(start)[k], Len(p) = Len(start) - k
      PROVE  Len(p) <= Len(start) /\ p = SubSeq(start, 1, Len(p))
  BY <1>1, <1>2, <1>4
<1> QED
  BY <1>3, <1>4

\* Going up k directories takes k names off a path.
LEMMA ParentLength ==
  ASSUME NEW start \in Paths, NEW k \in 0..Len(start)
  PROVE  walkParents(start)[k] \in Paths /\ Len(walkParents(start)[k]) = Len(start) - k
<1>1. Len(start) \in Nat
  BY LenProperties DEF Paths
<1>2. \A i \in 1..(Len(start) - k) : start[i] \in STRING
  BY <1>1, ElementOfSeq DEF Paths
<1>3. walkParents(start)[k] = SubSeq(start, 1, Len(start) - k)
  BY DEF walkParents
<1>4. Len(start) - k \in Int /\ 1 \in Int
  BY <1>1
<1>5. SubSeq(start, 1, Len(start) - k) \in Seq(STRING)
      /\ Len(SubSeq(start, 1, Len(start) - k)) = IF 1 <= Len(start) - k THEN Len(start) - k - 1 + 1 ELSE 0
  BY <1>2, <1>4, SubSeqProperties
<1> QED
  BY <1>1, <1>3, <1>5 DEF Paths

PrefixIn(present, dir) == {p \in present : Len(p) <= Len(dir) /\ p = SubSeq(dir, 1, Len(p))}

\* The file found from a directory is the nearest one above it.
LEMMA NearestInFinds ==
  ASSUME NEW present, present \subseteq Paths, NEW start \in Paths
  PROVE  \/ PrefixIn(present, start) = {} /\ NearestIn(present, start) = <<>>
         \/ \E p \in PrefixIn(present, start) :
              /\ NearestIn(present, start) = <<p>>
              /\ \A q \in PrefixIn(present, start) : Len(q) <= Len(p)
<1> DEFINE steps == {k \in 0..Len(start) : walkParents(start)[k] \in present}
<1>1. Len(start) \in Nat
  BY LenProperties DEF Paths
<1>2. ASSUME NEW q \in PrefixIn(present, start)
      PROVE  \E k \in steps : q = walkParents(start)[k] /\ Len(q) = Len(start) - k
  BY <1>2, ParentsArePrefixes DEF PrefixIn
<1>3. ASSUME NEW k \in steps
      PROVE  walkParents(start)[k] \in PrefixIn(present, start)
  <2>1. walkParents(start)[k] \in Paths /\ Len(walkParents(start)[k]) = Len(start) - k
    BY ParentLength
  <2>2. \A p \in Paths : p = walkParents(start)[k] /\ Len(p) = Len(start) - k
          => Len(p) <= Len(start) /\ p = SubSeq(start, 1, Len(p))
    BY ParentsArePrefixes
  <2> QED
    BY <2>1, <2>2 DEF PrefixIn
<1>4. CASE steps = {}
  BY <1>2, <1>4 DEF NearestIn
<1>5. CASE steps # {}
  <2>1. steps \subseteq Nat
    BY <1>1
  <2>2. PICK k \in steps : \A m \in steps : k <= m
    <3> HIDE DEF steps
    <3> QED
      BY <1>5, <2>1, NatMin
  <2>3. Min(steps) \in steps /\ \A m \in steps : Min(steps) <= m
    BY <2>2 DEF Min
  <2>4. NearestIn(present, start) = <<walkParents(start)[Min(steps)]>>
    BY <1>5 DEF NearestIn
  <2>5. ASSUME NEW q \in PrefixIn(present, start)
        PROVE  Len(q) <= Len(walkParents(start)[Min(steps)])
    <3>1. PICK m \in steps : Len(q) = Len(start) - m
      BY <1>2
    <3>2. Len(walkParents(start)[Min(steps)]) = Len(start) - Min(steps)
      BY <2>3, ParentLength
    <3>3. Min(steps) <= m /\ Min(steps) \in Nat /\ m \in Nat
      BY <2>1, <2>3
    <3> HIDE DEF steps
    <3> QED
      BY <1>1, <3>1, <3>2, <3>3
  <2>6. walkParents(start)[Min(steps)] \in PrefixIn(present, start)
    BY <1>3, <2>3
  <2> HIDE DEF steps
  <2> QED
    BY <2>4, <2>5, <2>6
<1> QED
  BY <1>4, <1>5

\* What Load returns, as far as its sources go.
LEMMA LoadTyped ==
  ASSUME NEW in \in ConfigInputs,
         NEW given, given = [s \in Settings |-> EnvOverFile(in.env[s],
           (IF resolveConfigPath(in) = <<>> \/ ~in.readable
            THEN [t \in Settings |-> Unset] ELSE in.file)[s])]
  PROVE  /\ given \in [Settings -> Int]
         /\ Load(in).from = resolveConfigPath(in)
         /\ Load(in).ok <=> CanRead(in, resolveConfigPath(in)) /\ \A s \in Settings : given[s] # NotANumber
         /\ Load(in).ok => Load(in).cfg = applyDefaults([s \in Settings |->
                             IF given[s] = Unset THEN defaultConfig[s] ELSE given[s]])
<1>1. given \in [Settings -> Int]
  BY ConfigAssumption DEF EnvOverFile, Unset
<1>2. Load(in) = IF ~CanRead(in, resolveConfigPath(in)) \/ \E s \in Settings : given[s] = NotANumber
                 THEN [ok |-> FALSE, from |-> resolveConfigPath(in)]
                 ELSE [ok |-> TRUE, from |-> resolveConfigPath(in),
                       cfg |-> applyDefaults([s \in Settings |->
                                 IF given[s] = Unset THEN defaultConfig[s] ELSE given[s]])]
  BY DEF Load
<1> QED
  BY <1>1, <1>2

\* What applyDefaults makes of settings: what is usable stays, what is not
\* becomes the default, and the default of the prefetch is the concurrency.
LEMMA DefaultsApplied ==
  ASSUME NEW cfg \in [Settings -> Int]
  PROVE  /\ \A s \in Settings : Usable(s, applyDefaults(cfg)[s])
         /\ \A s \in Settings : Usable(s, cfg[s]) => applyDefaults(cfg)[s] = cfg[s]
         /\ \A s \in Settings : ~Usable(s, cfg[s]) =>
              applyDefaults(cfg)[s] = IF s = "prefetch" THEN applyDefaults(cfg)["concurrency"]
                                      ELSE Default(s)
<1> DEFINE own == [s \in Settings |-> IF Usable(s, cfg[s]) THEN cfg[s] ELSE Default(s)]
<1>1. \A s \in Settings : Usable(s, Default(s)) /\ Default(s) \in Int
  BY DEF Settings, Usable, Default
<1>2. own \in [Settings -> Int] /\ \A s \in Settings : Usable(s, own[s])
  BY <1>1
<1>3. "prefetch" \in Settings /\ "concurrency" \in Settings
  BY DEF Settings
<1>4. \A v \in Int : Usable("prefetch", v) <=> v > 0
  BY DEF Usable
<1>5. \A v \in Int : Usable("concurrency", v) <=> v > 0
  BY DEF Usable
<1>6. applyDefaults(cfg) =
        [own EXCEPT !["prefetch"] = IF cfg["prefetch"] > 0 THEN cfg["prefetch"] ELSE own["concurrency"]]
  BY DEF applyDefaults
<1>7. \A s \in Settings \ {"prefetch"} : applyDefaults(cfg)[s] = own[s]
  <2> HIDE DEF own
  <2> QED
    BY <1>2, <1>6
<1>8. applyDefaults(cfg)["prefetch"] = IF cfg["prefetch"] > 0 THEN cfg["prefetch"] ELSE own["concurrency"]
  <2> HIDE DEF own
  <2> QED
    BY <1>2, <1>3, <1>6
<1>9. Usable("prefetch", applyDefaults(cfg)["prefetch"])
  <2>1. cfg["prefetch"] \in Int /\ own["concurrency"] \in Int /\ own["concurrency"] > 0
    BY <1>2, <1>3, <1>5
  <2> HIDE DEF own
  <2> QED
    BY <1>4, <1>8, <2>1
<1>10. Usable("prefetch", cfg["prefetch"]) => applyDefaults(cfg)["prefetch"] = cfg["prefetch"]
  BY <1>3, <1>4, <1>8
<1>11. ~Usable("prefetch", cfg["prefetch"]) =>
         applyDefaults(cfg)["prefetch"] = applyDefaults(cfg)["concurrency"]
  <2>1. cfg["prefetch"] \in Int /\ "concurrency" \in Settings \ {"prefetch"}
    BY <1>3
  <2> HIDE DEF own
  <2> QED
    BY <1>4, <1>7, <1>8, <2>1
<1>12. \A s \in Settings \ {"prefetch"} :
         /\ Usable(s, cfg[s]) => own[s] = cfg[s]
         /\ ~Usable(s, cfg[s]) => own[s] = Default(s)
  OBVIOUS
<1> HIDE DEF own
<1> QED
  BY <1>2, <1>7, <1>9, <1>10, <1>11, <1>12

\* Every default is usable, and defaultConfig has it.
LEMMA DefaultConfigTyped ==
  /\ defaultConfig \in [Settings -> Int]
  /\ \A s \in Settings : defaultConfig[s] = Default(s) /\ Usable(s, Default(s))
<1>1. \A s \in Settings : defaultConfig[s] = Default(s) /\ Default(s) \in Int
  BY DEF defaultConfig, Default, Settings
<1>2. \A s \in Settings : Usable(s, Default(s))
  BY DEF Default, Usable, Settings
<1>3. defaultConfig = [s \in Settings |-> defaultConfig[s]]
  BY DEF defaultConfig
<1> QED
  BY <1>1, <1>2, <1>3

\* The environment goes before the file and the file before the defaults, and
\* every setting is usable, however the sources are filled in (Load,
\* applyDefaults); the file is the one that was named or the nearest one
\* (resolveConfigPath), and the program does not start without reading it.
THEOREM SettingsAreSound == AlgorithmsSpec => []ConfigIsSound
<1>1. Answered => ConfigIsSound
  <2> SUFFICES ASSUME Answered, Returned("Load")
               PROVE  ConfigIsSound
    BY DEF ConfigIsSound, SourcesRank, SettingsAreUsable, NearestFileCounts, StartsOnAllOrNothing, Loaded
  <2> DEFINE in == call.in
             file == IF resolveConfigPath(in) = <<>> \/ ~in.readable THEN [t \in Settings |-> Unset] ELSE in.file
             given == [s \in Settings |-> EnvOverFile(in.env[s], file[s])]
             merged == [s \in Settings |-> IF given[s] = Unset THEN defaultConfig[s] ELSE given[s]]
  <2>1. in \in ConfigInputs /\ Result = Load(in)
    BY InputOf DEF Answered, Returned
  <2>2. /\ given \in [Settings -> Int]
        /\ Load(in).from = resolveConfigPath(in)
        /\ Load(in).ok <=> CanRead(in, resolveConfigPath(in)) /\ \A s \in Settings : given[s] # NotANumber
        /\ Load(in).ok => Load(in).cfg = applyDefaults(merged)
    BY <2>1, LoadTyped
  <2>3. merged \in [Settings -> Int]
    <3> HIDE DEF given
    <3> QED
      BY <2>2, DefaultConfigTyped
  <2>4. CanRead(in, resolveConfigPath(in)) => \A s \in Settings : given[s] = Given(s)
    BY <2>1, <2>2 DEF EnvOverFile, FileSays, Given, CanRead
  <2>5. SettingsAreUsable
    <3> HIDE DEF merged
    <3> QED
      BY <2>1, <2>2, <2>3, DefaultsApplied DEF SettingsAreUsable, Loaded
  <2>6. SourcesRank
    <3> SUFFICES ASSUME Loaded, NEW s \in Settings
                 PROVE  Result.cfg[s] =
                          IF given[s] # Unset /\ Usable(s, given[s]) THEN given[s]
                          ELSE IF s = "prefetch" /\ given[s] # Unset THEN Result.cfg["concurrency"]
                          ELSE Default(s)
      <4>1. Loaded => CanRead(in, resolveConfigPath(in))
        <5> HIDE DEF given, merged
        <5> QED
          BY <2>1, <2>2 DEF Loaded
      <4> HIDE DEF given
      <4> QED
        BY <2>4, <4>1 DEF SourcesRank
    <3>1. Result.cfg = applyDefaults(merged)
      <4> HIDE DEF given, merged
      <4> QED
        BY <2>1, <2>2 DEF Loaded
    <3>2. CASE given[s] = Unset
      <4>1. merged[s] = Default(s) /\ Usable(s, merged[s])
        BY <3>2, DefaultConfigTyped
      <4> HIDE DEF merged, given
      <4> QED
        BY <2>3, <3>1, <3>2, <4>1, DefaultsApplied
    <3>3. CASE given[s] # Unset
      <4>1. merged[s] = given[s]
        BY <3>3
      <4> HIDE DEF merged, given
      <4> QED
        BY <2>3, <3>1, <3>3, <4>1, DefaultsApplied
    <3> QED
      BY <3>2, <3>3
  <2>8. StartsOnAllOrNothing
    <3>1. CanRead(in, resolveConfigPath(in)) <=> (Result.from # <<>> => in.readable)
      <4> HIDE DEF given, merged
      <4> QED
        BY <2>1, <2>2 DEF CanRead
    <3> HIDE DEF given, merged
    <3> QED
      BY <2>1, <2>2, <2>4, <3>1 DEF StartsOnAllOrNothing
  <2>7. NearestFileCounts
    <3> DEFINE Above(dir) == {p \in in.present : Len(p) <= Len(dir) /\ p = SubSeq(dir, 1, Len(p))}
               Nearest(dir, p) == p \in Above(dir) /\ \A q \in Above(dir) : Len(q) <= Len(p)
    <3>1. Result.from = resolveConfigPath(in)
      BY <2>1, <2>2
    <3>2. in.configFile \in Seq(Paths) /\ Len(in.configFile) <= 1
      BY <2>1, ConfigAssumption
    <3>3. in.configFile # <<>> => in.configFile = <<in.configFile[1]>>
      <4> SUFFICES ASSUME in.configFile # <<>>
                   PROVE  in.configFile = <<in.configFile[1]>>
        OBVIOUS
      <4> DEFINE named == in.configFile
      <4>1. Len(named) = 1
        <5>1. Len(named) \in Nat \ {0}
          BY <3>2, EmptySeq
        <5>2. Len(named) <= 1
          BY <3>2
        <5>3. \A n \in Nat \ {0} : n <= 1 => n = 1
          OBVIOUS
        <5> QED
          BY <5>1, <5>2, <5>3, Zenon
      <4>2. <<named[1]>> \in Seq(Paths) /\ Len(<<named[1]>>) = 1 /\ <<named[1]>>[1] = named[1]
        BY <3>2, <4>1, ElementOfSeq
      <4> HIDE DEF named
      <4>3. named = <<named[1]>>
        BY <3>2, <4>1, <4>2, SeqEqual DEF named
      <4> QED
        BY <4>3 DEF named
    <3>4. ASSUME NEW dir \in Paths
          PROVE  \/ Above(dir) = {} /\ NearestIn(in.present, dir) = <<>>
                 \/ \E p \in Above(dir) : NearestIn(in.present, dir) = <<p>> /\ Nearest(dir, p)
      <4>1. in.present \subseteq Paths
        BY <2>1, ConfigAssumption
      <4>2. Above(dir) = PrefixIn(in.present, dir)
        BY DEF PrefixIn
      <4> HIDE DEF Above
      <4> QED
        BY <4>1, <4>2, NearestInFinds
    <3>5. in.cwd \in Paths /\ in.exe \in Paths
      BY <2>1, ConfigAssumption
    <3>6. IF resolveConfigPath(in) = <<>>
          THEN \/ in.configFile # <<>> /\ in.configFile[1] \notin in.present
               \/ in.configFile = <<>> /\ Above(in.cwd) = {} /\ Above(in.exe) = {}
          ELSE LET p == resolveConfigPath(in)[1]
               IN  IF in.configFile # <<>> THEN p = in.configFile[1]
                   ELSE IF Above(in.cwd) # {} THEN Nearest(in.cwd, p) ELSE Nearest(in.exe, p)
      <4>1. CASE in.configFile # <<>>
        BY <3>3, <4>1 DEF resolveConfigPath
      <4>2. CASE in.configFile = <<>>
        <5>1. \A p : <<p>> # <<>> /\ <<p>>[1] = p
          OBVIOUS
        <5>2. (\/ Above(in.cwd) = {} /\ NearestIn(in.present, in.cwd) = <<>>
               \/ \E p \in Above(in.cwd) : NearestIn(in.present, in.cwd) = <<p>> /\ Nearest(in.cwd, p))
          BY <3>4, <3>5
        <5>3. (\/ Above(in.exe) = {} /\ NearestIn(in.present, in.exe) = <<>>
               \/ \E p \in Above(in.exe) : NearestIn(in.present, in.exe) = <<p>> /\ Nearest(in.exe, p))
          BY <3>4, <3>5
        <5>4. resolveConfigPath(in) = IF NearestIn(in.present, in.cwd) # <<>>
                                      THEN NearestIn(in.present, in.cwd)
                                      ELSE NearestIn(in.present, in.exe)
          BY <4>2 DEF resolveConfigPath
        <5> HIDE DEF Above, Nearest
        <5> QED
          BY <4>2, <5>1, <5>2, <5>3, <5>4
      <4> QED
        BY <4>1, <4>2
    <3> QED
      BY <3>1, <3>6 DEF NearestFileCounts
  <2> QED
    BY <2>5, <2>6, <2>7, <2>8 DEF ConfigIsSound
<1> QED
  BY <1>1, AnsweredAlways, PTL

-----------------------------------------------------------------------------
(* The choice of a parser.                                                 *)

\* A PDF is read by the local parser, or by MinerU, or by nobody, and each
\* for a reason.
LEMMA PDFRouted ==
  ASSUME NEW in \in RouteInputs, in.ext = "pdf", NEW r, r = parsePDFByStrategy(in)
  PROVE  /\ r.by = "local" =>
              /\ ~in.local.fails /\ in.strategy # "paper" /\ ~atomsTextIsPoor(in.local)
              /\ in.strategy = "book" /\ in.local.images => in.local.scanned
              /\ in.mineru => ~in.local.scanned
         /\ r.result = "transient" <=>
              in.mineru /\ (in.strategy = "paper" \/ minerUReason(in)) /\ in.outcome = "transient"
<1>1. in.outcome \in {"atoms", "transient", "permanent"}
  BY RouteAssumption DEF RouteInputs
<1> DEFINE asks == in.mineru /\ (in.strategy = "paper" \/ minerUReason(in))
<1>2. CASE asks
  <2>1. r = parsePDFWithMinerU(in)
    BY <1>2 DEF parsePDFByStrategy
  <2> QED
    BY <1>1, <1>2, <2>1 DEF parsePDFWithMinerU, Parsed, Permanent, Transient
<1>3. CASE ~asks
  <2>1. r = Permanent \/ r = Parsed("local")
    BY <1>3 DEF parsePDFByStrategy
  <2>2. CASE r = Permanent
    BY <1>3, <2>2 DEF Permanent
  <2>3. CASE r = Parsed("local") /\ r # Permanent
    BY <1>3, <2>3 DEF Parsed, parsePDFByStrategy, minerUReason, bookImages
  <2> QED
    BY <2>1, <2>2, <2>3
<1> QED
  BY <1>2, <1>3

\* What cannot be read without loss is not read silently, and a failure that
\* may pass is retried (fetchAndParse, parsePDFByStrategy).
LEMMA RouteIsSound == Answered => NoSilentLoss /\ RetryableIsRetried
<1> SUFFICES ASSUME Answered, Routed
             PROVE  NoSilentLoss /\ RetryableIsRetried
  BY DEF NoSilentLoss, RetryableIsRetried
<1> DEFINE in == call.in
<1>1. in \in RouteInputs /\ Result = fetchAndParse(in)
  BY InputOf DEF Answered, Routed, Returned
<1>2. CASE in.getFails
  <2>1. Result = Transient
    BY <1>1, <1>2 DEF fetchAndParse
  <2> QED
    BY <1>2, <2>1 DEF Transient, NoSilentLoss, RetryableIsRetried, AsksMinerU
<1>3. CASE ~in.getFails /\ in.ext = "pdf"
  <2>1. Result = parsePDFByStrategy(in)
    BY <1>1, <1>3 DEF fetchAndParse
  <2>2. in.local.invalid \in Nat /\ in.local.total \in Nat
    <3>1. in.local \in LocalResults
      BY <1>1, <1>3 DEF RouteInputs
    <3> QED
      BY <3>1, RouteAssumption DEF LocalResults
  <2>3. ~atomsTextIsPoor(in.local) =>
          100 * in.local.invalid < in.local.total \/ in.local.invalid < 3
    BY <2>2 DEF atomsTextIsPoor
  <2>4. /\ Result.by = "local" =>
             /\ ~in.local.fails /\ in.strategy # "paper" /\ ~atomsTextIsPoor(in.local)
             /\ in.strategy = "book" /\ in.local.images => in.local.scanned
             /\ in.mineru => ~in.local.scanned
        /\ Result.result = "transient" <=>
             in.mineru /\ (in.strategy = "paper" \/ minerUReason(in)) /\ in.outcome = "transient"
    BY <1>1, <1>3, <2>1, PDFRouted
  <2> QED
    BY <1>3, <2>3, <2>4 DEF NoSilentLoss, RetryableIsRetried, AsksMinerU
<1>4. CASE ~in.getFails /\ in.ext # "pdf"
  <2>1. Result = Permanent \/ Result = Parsed("local") \/ Result = Parsed("qa")
    BY <1>1, <1>4 DEF fetchAndParse
  <2> QED
    BY <1>4, <2>1 DEF Permanent, Parsed, NoSilentLoss, RetryableIsRetried, AsksMinerU
<1> QED
  BY <1>2, <1>3, <1>4

-----------------------------------------------------------------------------
(* The archive of MinerU.                                                  *)

EntryType == [dir : Int, base : STRING, safe : BOOLEAN, readable : BOOLEAN]
ItemType == [type : STRING, text : BOOLEAN, image : [dir : Int, base : STRING]]

\* The last entry of a path is one of the archive, and every entry has a
\* number.
LEMMA LastAt ==
  ASSUME Answered, call.of = "parseMinerUArchive", NEW path
  PROVE  /\ EntriesAt(path) # {} => Max(EntriesAt(path)) \in EntriesAt(path)
         /\ EntriesAt(path) \subseteq EntriesNamed(path) /\ 0 \notin EntriesNamed(path)
<1>1. call.in.entries \in Seq(EntryType)
  BY InputOf, ArchiveAssumption DEF EntryType
<1>2. Len(call.in.entries) \in Nat /\ DOMAIN call.in.entries = 1..Len(call.in.entries)
  BY <1>1, LenProperties
<1>3. /\ EntriesAt(path) \subseteq 1..Len(call.in.entries)
      /\ EntriesNamed(path) \subseteq 1..Len(call.in.entries)
      /\ EntriesAt(path) \subseteq EntriesNamed(path)
  BY <1>2 DEF EntriesAt, EntriesNamed, Safe, Entries
<1>4. EntriesAt(path) # {} => Max(EntriesAt(path)) \in EntriesAt(path)
  <2>1. EntriesAt(path) \subseteq Nat /\ \A m \in EntriesAt(path) : m <= Len(call.in.entries)
    BY <1>2, <1>3
  <2> QED
    BY <1>2, <2>1, NatMax
<1> QED
  BY <1>2, <1>3, <1>4

\* An item has a picture to be read: every entry it could be.
Pictured(item) ==
  /\ item.type \in Pictures /\ item.image.base # ""
  /\ IF EntriesAt(item.image) # {} THEN Entry(Max(EntriesAt(item.image))).readable
     ELSE /\ EntriesNamed(item.image) # {}
          /\ \A k \in EntriesNamed(item.image) : Entry(k).readable

\* An item with a path of its own in the archive gets that picture, and
\* another one of its name, if it can be read.
LEMMA OwnPicture ==
  ASSUME Answered, call.of = "parseMinerUArchive", NEW items, NEW i, NEW p, p \in PictureOf(items, i)
  PROVE  /\ p # 0 =>
              /\ items[i].type \in Pictures /\ Entry(p).readable
              /\ p \in EntriesNamed(items[i].image)
              /\ EntriesAt(items[i].image) # {} => p = Max(EntriesAt(items[i].image))
         /\ Pictured(items[i]) => p # 0
<1> DEFINE path == items[i].image
           found == IF items[i].type \in Pictures THEN findMinerUAsset(path) ELSE {}
<1>1. findMinerUAsset(path) = IF path.base = "" THEN {}
                              ELSE IF EntriesAt(path) # {} THEN {Max(EntriesAt(path))}
                              ELSE EntriesNamed(path)
  BY DEF findMinerUAsset, EntriesAt, EntriesNamed
<1>2. /\ EntriesAt(path) # {} => Max(EntriesAt(path)) \in EntriesAt(path)
      /\ EntriesAt(path) \subseteq EntriesNamed(path) /\ 0 \notin EntriesNamed(path)
  BY LastAt
<1>3. CASE found = {}
  <2>1. p = 0
    BY <1>3 DEF PictureOf
  <2>2. ~Pictured(items[i])
    BY <1>1, <1>3 DEF Pictured
  <2> QED
    BY <2>1, <2>2
<1>4. CASE found # {}
  <2>1. PICK k \in found : p = IF Entry(k).readable THEN k ELSE 0
    BY <1>4 DEF PictureOf
  <2>2. /\ items[i].type \in Pictures /\ k \in EntriesNamed(path) /\ k # 0
        /\ EntriesAt(path) # {} => k = Max(EntriesAt(path))
    BY <1>1, <1>2, <2>1
  <2> QED
    BY <2>1, <2>2 DEF Pictured
<1> QED
  BY <1>3, <1>4

\* The items that become atoms of a list.
Kept(items, picture) ==
  {i \in DOMAIN items : items[i].type \notin Furniture /\ HasContent(items[i], picture[i])}

\* The atoms name these items, with their pictures.
AtomsAre(atoms, kept, picture) ==
  /\ DOMAIN atoms = DOMAIN kept
  /\ \A n \in DOMAIN kept : atoms[n].item = kept[n] /\ atoms[n].picture = picture[kept[n]]

\* The atoms of a content list are its kept items, in their order, each with
\* its picture.
LEMMA AtomsOfList ==
  ASSUME NEW items \in Seq(ItemType), NEW picture, NEW atoms, atoms = minerUItemsToAtoms(items, picture)
  PROVE  \E kept : Ascends(kept, Kept(items, picture)) /\ AtomsAre(atoms, kept, picture)
<1> DEFINE kept == InOrder(Kept(items, picture))
<1>1. Len(items) \in Nat /\ DOMAIN items = 1..Len(items)
  BY LenProperties
<1>2. Kept(items, picture) \subseteq 1..Len(items) /\ Kept(items, picture) \subseteq Nat
  BY <1>1 DEF Kept
<1>3. IsFiniteSet(Kept(items, picture))
  <2>1. IsFiniteSet(1..Len(items))
    BY <1>1, FS_Interval
  <2> QED
    BY <1>2, <2>1, FS_Subset
<1>4. Ascends(kept, Kept(items, picture))
  BY <1>2, <1>3, SortedListing DEF InOrder
<1>5. atoms = [n \in DOMAIN kept |-> [item |-> kept[n], picture |-> picture[kept[n]]]]
  BY DEF minerUItemsToAtoms, Kept
<1>6. AtomsAre(atoms, kept, picture)
  <2> HIDE DEF kept
  <2> QED
    BY <1>5 DEF AtomsAre
<1> HIDE DEF kept
<1> QED
  BY <1>4, <1>6

\* Reading a list ends in one of three answers.
LEMMA ArchiveAnswers ==
  ASSUME Answered, Unpacked
  PROVE  \/ Result = NoArchive
         \/ Result = [ok |-> TRUE, from |-> "markdown", atoms |-> <<[item |-> 0, picture |-> 0]>>]
         \/ \E picture \in [DOMAIN call.in.items -> 0..Len(call.in.entries)] :
              /\ \A i \in DOMAIN call.in.items : picture[i] \in PictureOf(call.in.items, i)
              /\ Result = [ok |-> TRUE, from |-> "list",
                           atoms |-> minerUItemsToAtoms(call.in.items, picture)]
<1>1. Result \in ParseArchive
  BY DEF Answered, Unpacked, Returned
<1>2. CASE Result = FromMarkdown
  BY <1>2 DEF FromMarkdown
<1>3. CASE Result = NoArchive
  BY <1>3
<1>4. CASE \E picture \in [DOMAIN call.in.items -> 0..Len(call.in.entries)] :
             /\ \A i \in DOMAIN call.in.items : picture[i] \in PictureOf(call.in.items, i)
             /\ Result = FromList(minerUItemsToAtoms(call.in.items, picture))
  <2>1. PICK picture \in [DOMAIN call.in.items -> 0..Len(call.in.entries)] :
             /\ \A i \in DOMAIN call.in.items : picture[i] \in PictureOf(call.in.items, i)
             /\ Result = FromList(minerUItemsToAtoms(call.in.items, picture))
    BY <1>4
  <2>2. CASE Result = FromMarkdown
    BY <2>2 DEF FromMarkdown
  <2>3. CASE Result # FromMarkdown
    <3>1. Result = [ok |-> TRUE, from |-> "list", atoms |-> minerUItemsToAtoms(call.in.items, picture)]
      BY <2>1, <2>3 DEF FromList
    <3> QED
      BY <2>1, <3>1
  <2> QED
    BY <2>2, <2>3
<1> QED
  BY <1>1, <1>2, <1>3, <1>4, Zenon DEF ParseArchive

\* A figure gets the picture of its own path, or else one of its name.
LEMMA PicturesOwned == Answered => PicturesAreOwn
<1> DEFINE items == call.in.items
           Owns(a) == LET path == items[a.item].image
                      IN  /\ items[a.item].type \in Pictures /\ Entry(a.picture).readable
                          /\ a.picture \in EntriesNamed(path)
                          /\ EntriesAt(path) # {} => a.picture = Max(EntriesAt(path))
<1> SUFFICES ASSUME Answered, Unpacked, NEW n \in DOMAIN Result.atoms, Result.atoms[n].picture # 0
             PROVE  Owns(Result.atoms[n])
  BY DEF PicturesAreOwn
<1> HIDE DEF Owns
<1>1. CASE Result = NoArchive
  BY <1>1 DEF NoArchive
<1>2. CASE Result = [ok |-> TRUE, from |-> "markdown", atoms |-> <<[item |-> 0, picture |-> 0]>>]
  <2>1. n = 1
    BY <1>2
  <2> QED
    BY <1>2, <2>1
<1>3. ASSUME NEW picture \in [DOMAIN items -> 0..Len(call.in.entries)],
             \A i \in DOMAIN items : picture[i] \in PictureOf(items, i),
             Result = [ok |-> TRUE, from |-> "list", atoms |-> minerUItemsToAtoms(items, picture)]
      PROVE  Owns(Result.atoms[n])
  <2>1. items \in Seq(ItemType)
    BY InputOf, ArchiveAssumption DEF Unpacked, Returned, ItemType
  <2>2. PICK kept : Ascends(kept, Kept(items, picture)) /\ AtomsAre(Result.atoms, kept, picture)
    <3>1. Result.atoms = minerUItemsToAtoms(items, picture)
      BY <1>3
    <3> QED
      BY <2>1, <3>1, AtomsOfList
  <2>3. kept[n] \in DOMAIN items
    BY <2>2 DEF Ascends, Kept, AtomsAre
  <2>4. Result.atoms[n].item = kept[n] /\ Result.atoms[n].picture = picture[kept[n]]
    BY <2>2 DEF AtomsAre
  <2>5. picture[kept[n]] \in PictureOf(items, kept[n])
    BY <1>3, <2>3
  <2> QED
    BY <2>4, <2>5, OwnPicture DEF Owns, Unpacked, Returned
<1> QED
  BY <1>1, <1>2, <1>3, ArchiveAnswers

\* A list keeps the items that say or show something, in their order.
LEMMA ListKeepsItems == Answered => ItemsKept
<1> SUFFICES ASSUME Answered, Unpacked, Result.from = "list"
             PROVE  ItemsKept
  BY DEF ItemsKept
<1> DEFINE items == call.in.items
           kept == [n \in DOMAIN Result.atoms |-> Result.atoms[n].item]
<1>1. PICK picture \in [DOMAIN items -> 0..Len(call.in.entries)] :
        /\ \A i \in DOMAIN items : picture[i] \in PictureOf(items, i)
        /\ Result = [ok |-> TRUE, from |-> "list", atoms |-> minerUItemsToAtoms(items, picture)]
  <2>1. Result # NoArchive
        /\ Result # [ok |-> TRUE, from |-> "markdown", atoms |-> <<[item |-> 0, picture |-> 0]>>]
    BY DEF NoArchive
  <2> QED
    BY <2>1, ArchiveAnswers
<1>2. PICK q : Ascends(q, Kept(items, picture)) /\ AtomsAre(Result.atoms, q, picture)
  <2>1. items \in Seq(ItemType)
    BY InputOf, ArchiveAssumption DEF Unpacked, Returned, ItemType
  <2>2. Result.atoms = minerUItemsToAtoms(items, picture)
    BY <1>1
  <2> QED
    BY <2>1, <2>2, AtomsOfList
<1>3. DOMAIN kept = DOMAIN q /\ \A m \in DOMAIN q : kept[m] = q[m]
  BY <1>2 DEF AtomsAre
<1>4. ToSet(kept) = Kept(items, picture)
  <2>1. DOMAIN q = 1..Cardinality(Kept(items, picture))
    BY <1>2 DEF Ascends
  <2>2. ASSUME NEW x
        PROVE  x \in ToSet(kept) <=> x \in Kept(items, picture)
    <3>1. x \in ToSet(kept) <=> \E m \in DOMAIN kept : kept[m] = x
      <4> HIDE DEF kept
      <4> QED
        BY DEF ToSet
    <3> HIDE DEF kept
    <3> QED
      BY <1>2, <1>3, <2>1, <3>1 DEF Ascends
  <2> QED
    BY <2>2
<1>5. \A n, m \in DOMAIN kept : n < m => kept[n] < kept[m]
  <2> HIDE DEF kept
  <2> QED
    BY <1>2, <1>3 DEF Ascends
<1>6. ASSUME NEW i \in DOMAIN items
      PROVE  /\ i \in ToSet(kept) => items[i].type \notin Furniture
             /\ (items[i].text \/ Pictured(items[i])) /\ items[i].type \notin Furniture => i \in ToSet(kept)
  <2>1. Pictured(items[i]) => picture[i] # 0
    <3>1. picture[i] \in PictureOf(items, i)
      BY <1>1
    <3> QED
      BY <3>1, OwnPicture DEF Unpacked, Returned
  <2> HIDE DEF kept
  <2> QED
    BY <1>4, <2>1 DEF Kept, HasContent
<1> QED
  <2> HIDE DEF kept
  <2> QED
    BY <1>5, <1>6 DEF ItemsKept, Pictured, kept

\* The Markdown file is tried whenever the list gives nothing.
LEMMA MarkdownIsTried == Answered => NothingElseToRead
<1> SUFFICES ASSUME Answered, Unpacked, ~Result.ok
             PROVE  NothingElseToRead
  BY DEF NothingElseToRead
<1>1. Result \in ParseArchive
  BY DEF Answered, Unpacked, Returned
<1>2. CASE Result = FromMarkdown
  BY <1>2 DEF FromMarkdown, NothingElseToRead
<1>3. CASE LastOf("list") # 0 /\ (~Entry(LastOf("list")).readable \/ ~call.in.wellformed)
  BY <1>3 DEF NothingElseToRead
<1>4. CASE \E atoms : Result = FromList(atoms)
  <2>1. PICK atoms : Result = FromList(atoms)
    BY <1>4
  <2>2. Result = FromMarkdown
    BY <2>1 DEF FromList
  <2> QED
    BY <1>2, <2>2
<1> QED
  BY <1>1, <1>2, <1>3, <1>4, Zenon DEF ParseArchive

\* Parsing hides no failure: no template loses silently what it cannot do
\* without, what may succeed later is retried, and an archive gives its
\* pictures to their own figures and all that can be read.
THEOREM ParsingHidesNothing == AlgorithmsSpec => []ParsingIsSound
<1>1. Answered => ParsingIsSound
  BY RouteIsSound, PicturesOwned, ListKeepsItems, MarkdownIsTried DEF ParsingIsSound
<1> QED
  BY <1>1, AnsweredAlways, PTL

-----------------------------------------------------------------------------
(* The plan of a question.                                                 *)

\* A query that is added is a query.
LEMMA AddQueryTyped ==
  ASSUME NEW kept \in Seq(Query), NEW q \in Query, NEW limit \in Int, NEW short \in BOOLEAN
  PROVE  AddQuery(kept, q, limit, short) \in Seq(Query)
<1>1. TrimSpace(q) \in Query
  BY DEF TrimSpace, Query
<1> QED
  BY <1>1 DEF AddQuery

\* F is the course of Distinct over its queries.
DistinctUp(F, start, qs, limit, short) ==
  /\ F[0] = start /\ \A k \in 0..Len(qs) : F[k] \in Seq(Query)
  /\ \A k \in 0..(Len(qs) - 1) : F[k + 1] = AddQuery(F[k], qs[k + 1], limit, short)

\* Distinct goes through the queries one by one.
LEMMA DistinctFolds ==
  ASSUME NEW start \in Seq(Query), NEW qs \in Seq(Query), NEW limit \in Int, NEW short \in BOOLEAN
  PROVE  \E F : /\ DistinctUp(F, start, qs, limit, short)
               /\ Distinct(start, qs, limit, short) = F[Len(qs)]
<1> DEFINE n == Len(qs)
           X == Seq(Query)
           step == [p \in X \X (1..n) |-> AddQuery(p[1], qs[p[2]], limit, short)]
           Folds(it) == it = [s \in SUBSET (DOMAIN qs) |->
                                IF s = {} THEN start ELSE AddQuery(it[s \ {Max(s)}], qs[Max(s)], limit, short)]
           it == CHOOSE it : Folds(it)
<1>1. n \in Nat /\ DOMAIN qs = 1..n /\ start \in X
  BY LenProperties
<1>2. ASSUME NEW p \in X, NEW k \in 1..n
      PROVE  <<p, k>> \in X \X (1..n) /\ step[<<p, k>>] = AddQuery(p, qs[k], limit, short)
             /\ AddQuery(p, qs[k], limit, short) \in X
  BY <1>1, ElementOfSeq, AddQueryTyped
<1>3. step \in [X \X (1..n) -> X]
  <2>1. ASSUME NEW p \in X \X (1..n)
        PROVE  AddQuery(p[1], qs[p[2]], limit, short) \in X
    <3>1. p[1] \in X /\ p[2] \in 1..n
      OBVIOUS
    <3> QED
      BY <1>2, <3>1
  <2> QED
    BY <2>1
<1>4. Distinct(start, qs, limit, short) = it[1..n]
  <2>1. Distinct(start, qs, limit, short) = it[DOMAIN qs]
    BY DEF Distinct, FoldLeft, MapThenFoldSet
  <2> HIDE DEF it
  <2> QED
    BY <1>1, <2>1
<1> HIDE DEF step, n, X
<1>5. PICK g : FoldsSets(g, n, X, start, step)
  BY <1>1, <1>3, FoldRecursion
<1>6. ASSUME NEW s \in SUBSET (1..n), s # {}
      PROVE  Max(s) \in 1..n /\ s \ {Max(s)} \in SUBSET (1..n)
  <2>1. s \subseteq Nat /\ \A m \in s : m <= n
    BY <1>1
  <2>2. Max(s) \in s
    BY <1>1, <1>6, <2>1, NatMax
  <2> QED
    BY <2>2
<1>7. Folds(g)
  <2>1. ASSUME NEW s \in SUBSET (1..n)
        PROVE  g[s] = IF s = {} THEN start ELSE AddQuery(g[s \ {Max(s)}], qs[Max(s)], limit, short)
    <3>1. CASE s = {}
      BY <1>5, <3>1 DEF FoldsSets
    <3>2. CASE s # {}
      <4>1. Max(s) \in 1..n /\ g[s \ {Max(s)}] \in X
        BY <1>5, <1>6, <3>2 DEF FoldsSets
      <4>2. g[s] = step[<<g[s \ {Max(s)}], Max(s)>>]
        BY <1>5, <3>2 DEF FoldsSets
      <4> QED
        BY <1>2, <3>2, <4>1, <4>2
    <3> QED
      BY <3>1, <3>2
  <2>2. g \in [SUBSET (1..n) -> X]
    BY <1>5 DEF FoldsSets
  <2> QED
    BY <1>1, <2>1, <2>2
<1>8. Folds(it)
  <2> HIDE DEF Folds
  <2> QED
    BY <1>7
<1>9. \A s \in SUBSET (1..n) :
        it[s] = IF s = {} THEN start ELSE AddQuery(it[s \ {Max(s)}], qs[Max(s)], limit, short)
  <2> HIDE DEF it
  <2> QED
    BY <1>1, <1>8
<1> HIDE DEF it, Folds
<1>10. SolvesFold(it, n, X, start, step)
  <2>1. {} \in SUBSET (1..n)
    OBVIOUS
  <2>2. ASSUME NEW s \in SUBSET (1..n), s # {}, it[s \ {Max(s)}] \in X
        PROVE  it[s] = step[<<it[s \ {Max(s)}], Max(s)>>]
    <3>1. Max(s) \in 1..n
      BY <1>6, <2>2
    <3>2. it[s] = AddQuery(it[s \ {Max(s)}], qs[Max(s)], limit, short)
      BY <1>9, <2>2
    <3> QED
      BY <1>2, <2>2, <3>1, <3>2
  <2> QED
    BY <1>9, <2>1, <2>2 DEF SolvesFold
<1>11. PICK F : FoldsUp(F, it, n, X, start, step)
  BY <1>1, <1>3, <1>10, FoldCourse
<1>12. ASSUME NEW k \in 0..(n - 1)
       PROVE  F[k + 1] = AddQuery(F[k], qs[k + 1], limit, short)
  <2> DEFINE m == k + 1
  <2>1. m \in 1..n /\ m - 1 = k
    BY <1>1
  <2> HIDE DEF m
  <2>2. F[m] = step[<<F[k], m>>] /\ F[k] \in X
    BY <1>11, <2>1 DEF FoldsUp
  <2>3. F[m] = AddQuery(F[k], qs[m], limit, short)
    BY <1>2, <2>1, <2>2
  <2> QED
    BY <2>3 DEF m
<1>13. F[0] = start /\ F[n] = it[1..n] /\ \A k \in 0..n : F[k] \in X
  BY <1>11 DEF FoldsUp
<1> QED
  BY <1>4, <1>12, <1>13 DEF DistinctUp, n, X

\* Taking the blanks off a query changes neither what it says nor its length.
LEMMA Trimmed ==
  ASSUME NEW q \in Query
  PROVE  /\ TrimSpace(q) \in Query /\ TrimSpace(TrimSpace(q)) = TrimSpace(q)
         /\ Key(TrimSpace(q)) = Key(q) /\ Blank(TrimSpace(q)) = Blank(q)
         /\ TrimSpace(q).long = q.long
  BY DEF TrimSpace, Key, ToLower, Blank, Query

\* Queries as they are searched: none is empty, none has blanks around it, no
\* two say the same.
Clean(s) ==
  /\ \A i \in 1..Len(s) : ~Blank(s[i]) /\ TrimSpace(s[i]) = s[i]
  /\ \A i, j \in 1..Len(s) : i < j => Key(s[i]) # Key(s[j])

\* A query is added if it is to be, and to nothing but its like.
Fits(kept, q, limit, short) ==
  /\ ~Blank(q) /\ (short => ~q.long) /\ Len(kept) < limit
  /\ \A i \in 1..Len(kept) : Key(kept[i]) # Key(q)

LEMMA AddQueryAdds ==
  ASSUME NEW kept \in Seq(Query), NEW q \in Query, NEW limit \in Int, NEW short \in BOOLEAN
  PROVE  AddQuery(kept, q, limit, short) =
           IF Fits(kept, q, limit, short) THEN Append(kept, TrimSpace(q)) ELSE kept
<1>1. Len(kept) \in Nat /\ DOMAIN kept = 1..Len(kept)
  BY LenProperties
<1>2. Seen(ToSet(kept), q) <=> \E i \in 1..Len(kept) : Key(kept[i]) = Key(q)
  BY <1>1 DEF Seen, ToSet
<1> QED
  BY <1>1, <1>2 DEF AddQuery, Fits

\* What a fold of Distinct has kept after some of the queries.
Keeps(start, r, limit, short) ==
  /\ r \in Seq(Query) /\ Clean(r)
  /\ Len(start) <= Len(r) /\ \A i \in 1..Len(start) : r[i] = start[i]
  /\ Len(r) <= limit \/ Len(r) = Len(start)
  /\ short => \A i \in (Len(start) + 1)..Len(r) : ~r[i].long

LEMMA AddQueryKeeps ==
  ASSUME NEW start \in Seq(Query), NEW r, NEW q \in Query, NEW limit \in Int, NEW short \in BOOLEAN,
         Keeps(start, r, limit, short)
  PROVE  Keeps(start, AddQuery(r, q, limit, short), limit, short)
<1>1. r \in Seq(Query) /\ Len(r) \in Nat /\ Len(start) \in Nat
  BY LenProperties DEF Keeps
<1>2. CASE ~Fits(r, q, limit, short)
  BY <1>1, <1>2, AddQueryAdds
<1>3. CASE Fits(r, q, limit, short)
  <2> DEFINE t == Append(r, TrimSpace(q))
  <2>1. AddQuery(r, q, limit, short) = t
    BY <1>1, <1>3, AddQueryAdds
  <2>2. t \in Seq(Query) /\ Len(t) = Len(r) + 1 /\ t[Len(r) + 1] = TrimSpace(q)
        /\ \A i \in 1..Len(r) : t[i] = r[i]
    BY <1>1, Trimmed
  <2> HIDE DEF t
  <2>3. Clean(t)
    <3>1. ASSUME NEW i \in 1..Len(t)
          PROVE  ~Blank(t[i]) /\ TrimSpace(t[i]) = t[i]
      <4>1. CASE i \in 1..Len(r)
        BY <2>2, <4>1 DEF Keeps, Clean
      <4>2. CASE i = Len(r) + 1
        BY <1>3, <2>2, <4>2, Trimmed DEF Fits
      <4> QED
        BY <1>1, <2>2, <4>1, <4>2
    <3>2. ASSUME NEW i \in 1..Len(t), NEW j \in 1..Len(t), i < j
          PROVE  Key(t[i]) # Key(t[j])
      <4>1. i \in 1..Len(r)
        BY <1>1, <2>2, <3>2
      <4>2. CASE j \in 1..Len(r)
        BY <2>2, <3>2, <4>1, <4>2 DEF Keeps, Clean
      <4>3. CASE j = Len(r) + 1
        BY <1>3, <2>2, <4>1, <4>3, Trimmed DEF Fits
      <4> QED
        BY <1>1, <2>2, <4>2, <4>3
    <3> QED
      BY <3>1, <3>2 DEF Clean
  <2>4. Len(start) <= Len(t) /\ \A i \in 1..Len(start) : t[i] = start[i]
    BY <1>1, <2>2 DEF Keeps
  <2>5. Len(t) <= limit
    BY <1>1, <1>3, <2>2 DEF Fits
  <2>6. ASSUME short, NEW i \in (Len(start) + 1)..Len(t)
        PROVE  ~t[i].long
    <3>1. CASE i \in (Len(start) + 1)..Len(r)
      <4>1. i \in 1..Len(r)
        BY <1>1, <3>1
      <4> QED
        BY <2>2, <2>6, <3>1, <4>1 DEF Keeps
    <3>2. CASE i = Len(r) + 1
      BY <1>3, <2>2, <2>6, <3>2, Trimmed DEF Fits
    <3> QED
      BY <1>1, <2>2, <3>1, <3>2
  <2> QED
    BY <2>1, <2>2, <2>3, <2>4, <2>5, <2>6 DEF Keeps
<1> QED
  BY <1>2, <1>3

\* Distinct keeps what it starts from and adds queries that are clean, within
\* its limits.
LEMMA DistinctKeeps ==
  ASSUME NEW start \in Seq(Query), NEW qs \in Seq(Query), NEW limit \in Int, NEW short \in BOOLEAN,
         Clean(start)
  PROVE  Keeps(start, Distinct(start, qs, limit, short), limit, short)
<1>1. Len(qs) \in Nat /\ Len(start) \in Nat
  BY LenProperties
<1>a. PICK F : DistinctUp(F, start, qs, limit, short) /\ Distinct(start, qs, limit, short) = F[Len(qs)]
  BY DistinctFolds
<1>2. /\ F[0] = start /\ \A k \in 0..Len(qs) : F[k] \in Seq(Query)
      /\ \A k \in 0..(Len(qs) - 1) : F[k + 1] = AddQuery(F[k], qs[k + 1], limit, short)
      /\ Distinct(start, qs, limit, short) = F[Len(qs)]
  BY <1>a DEF DistinctUp
<1> DEFINE G == {k \in 0..Len(qs) : Keeps(start, F[k], limit, short)}
<1>3. 0 \in G
  <2>1. \A i \in (Len(start) + 1)..Len(start) : FALSE
    BY <1>1
  <2>2. Keeps(start, start, limit, short)
    BY <1>1, <2>1 DEF Keeps
  <2> QED
    BY <1>1, <1>2, <2>2
<1>4. ASSUME NEW k \in 0..(Len(qs) - 1), k \in G
      PROVE  k + 1 \in G
  <2>1. k + 1 \in 1..Len(qs) /\ k + 1 - 1 = k /\ qs[k + 1] \in Query
    BY <1>1, ElementOfSeq
  <2>2. F[k + 1] = AddQuery(F[k], qs[k + 1], limit, short)
    BY <1>2, <2>1
  <2>3. Keeps(start, F[k + 1], limit, short)
    BY <1>4, <2>1, <2>2, AddQueryKeeps
  <2> QED
    BY <1>1, <2>1, <2>3
<1>5. Len(qs) \in G
  <2> HIDE DEF G
  <2>1. 0..Len(qs) \subseteq G
    BY <1>1, <1>3, <1>4, CountingUp
  <2> QED
    BY <1>1, <2>1
<1> QED
  BY <1>2, <1>5

\* Clean queries within the limits go through Distinct as they are.
LEMMA DistinctOfClean ==
  ASSUME NEW qs \in Seq(Query), NEW limit \in Int, NEW short \in BOOLEAN,
         Clean(qs), Len(qs) <= limit, short => \A i \in 1..Len(qs) : ~qs[i].long
  PROVE  Distinct(<<>>, qs, limit, short) = qs
<1>1. Len(qs) \in Nat /\ <<>> \in Seq(Query) /\ Len(<<>>) = 0
  BY LenProperties
<1>a. PICK F : DistinctUp(F, <<>>, qs, limit, short) /\ Distinct(<<>>, qs, limit, short) = F[Len(qs)]
  BY <1>1, DistinctFolds
<1>2. /\ F[0] = <<>> /\ \A k \in 0..Len(qs) : F[k] \in Seq(Query)
      /\ \A k \in 0..(Len(qs) - 1) : F[k + 1] = AddQuery(F[k], qs[k + 1], limit, short)
      /\ Distinct(<<>>, qs, limit, short) = F[Len(qs)]
  BY <1>a DEF DistinctUp
<1> DEFINE Same(k) == Len(F[k]) = k /\ \A i \in 1..k : F[k][i] = qs[i]
           G == {k \in 0..Len(qs) : Same(k)}
<1>3. 0 \in G
  BY <1>1, <1>2
<1>4. ASSUME NEW k \in 0..(Len(qs) - 1), k \in G
      PROVE  k + 1 \in G
  <2>1. k + 1 \in 1..Len(qs) /\ k + 1 - 1 = k /\ qs[k + 1] \in Query /\ F[k] \in Seq(Query) /\ Same(k)
    BY <1>1, <1>2, <1>4, ElementOfSeq
  <2>2. F[k + 1] = AddQuery(F[k], qs[k + 1], limit, short)
    BY <1>2, <2>1
  <2>3. Fits(F[k], qs[k + 1], limit, short)
    <3>1. \A i \in 1..k : i \in 1..Len(qs) /\ i < k + 1
      BY <1>1
    <3> QED
      BY <1>1, <2>1, <3>1 DEF Fits, Clean
  <2>4. F[k + 1] = Append(F[k], qs[k + 1])
    BY <2>1, <2>2, <2>3, AddQueryAdds DEF Clean
  <2>5. Same(k + 1)
    BY <2>1, <2>4
  <2> HIDE DEF Same
  <2> QED
    BY <1>1, <2>1, <2>5
<1>5. Same(Len(qs))
  <2> HIDE DEF G
  <2>1. 0..Len(qs) \subseteq G
    BY <1>1, <1>3, <1>4, CountingUp
  <2>2. Len(qs) \in G
    BY <1>1, <2>1
  <2> QED
    BY <2>2 DEF G
<1>6. F[Len(qs)] \in Seq(Query)
  BY <1>1, <1>2
<1> QED
  BY <1>2, <1>5, <1>6, SeqEqual

\* Of two queries that say different things one is searched beside any first
\* one.
LEMMA DistinctAdds ==
  ASSUME NEW start \in Seq(Query), NEW qs \in Seq(Query), NEW limit \in Int, NEW short \in BOOLEAN,
         Len(start) = 1, Clean(qs), Len(qs) >= 2, limit >= 2,
         short => \A i \in 1..Len(qs) : ~qs[i].long
  PROVE  Len(Distinct(start, qs, limit, short)) >= 2
<1>1. Len(qs) \in Nat
  BY LenProperties
<1>a. PICK F : DistinctUp(F, start, qs, limit, short) /\ Distinct(start, qs, limit, short) = F[Len(qs)]
  BY DistinctFolds
<1>2. /\ F[0] = start /\ \A k \in 0..Len(qs) : F[k] \in Seq(Query)
      /\ \A k \in 0..(Len(qs) - 1) : F[k + 1] = AddQuery(F[k], qs[k + 1], limit, short)
      /\ Distinct(start, qs, limit, short) = F[Len(qs)]
  BY <1>a DEF DistinctUp
<1>3. ASSUME NEW k \in 0..(Len(qs) - 1)
      PROVE  /\ F[k] \in Seq(Query) /\ Len(F[k]) \in Nat
             /\ F[k + 1] = IF Fits(F[k], qs[k + 1], limit, short)
                           THEN Append(F[k], TrimSpace(qs[k + 1])) ELSE F[k]
             /\ Len(F[k + 1]) >= Len(F[k])
             /\ Fits(F[k], qs[k + 1], limit, short) => Len(F[k + 1]) = Len(F[k]) + 1
  <2>1. k + 1 \in 1..Len(qs) /\ k + 1 - 1 = k /\ qs[k + 1] \in Query /\ k \in 0..Len(qs)
    BY <1>1, ElementOfSeq
  <2>2. F[k] \in Seq(Query) /\ Len(F[k]) \in Nat
    BY <1>2, <2>1, LenProperties
  <2>3. F[k + 1] = AddQuery(F[k], qs[k + 1], limit, short)
    BY <1>2, <2>1
  <2>4. TrimSpace(qs[k + 1]) \in Query
    BY <2>1, Trimmed
  <2>5. Len(Append(F[k], TrimSpace(qs[k + 1]))) = Len(F[k]) + 1
    BY <2>2, <2>4
  <2>6. F[k + 1] = IF Fits(F[k], qs[k + 1], limit, short)
                   THEN Append(F[k], TrimSpace(qs[k + 1])) ELSE F[k]
    BY <2>1, <2>2, <2>3, AddQueryAdds
  <2>7. CASE Fits(F[k], qs[k + 1], limit, short)
    <3>1. F[k + 1] = Append(F[k], TrimSpace(qs[k + 1]))
      BY <2>6, <2>7
    <3>2. Len(F[k + 1]) = Len(F[k]) + 1
      BY <2>5, <3>1
    <3> QED
      BY <2>2, <2>6, <2>7, <3>2
  <2>8. CASE ~Fits(F[k], qs[k + 1], limit, short)
    <3>1. F[k + 1] = F[k]
      BY <2>6, <2>8
    <3>2. Len(F[k + 1]) >= Len(F[k])
      BY <2>2, <3>1
    <3> QED
      BY <2>2, <2>6, <2>8, <3>2
  <2> QED
    BY <2>7, <2>8
<1>4. Len(F[2]) >= 2
  <2>1. 0 \in 0..(Len(qs) - 1) /\ 1 \in 0..(Len(qs) - 1) /\ 0 + 1 = 1 /\ 1 + 1 = 2
        /\ 1 \in 1..Len(qs) /\ 2 \in 1..Len(qs)
    BY <1>1
  <2>2. CASE Fits(F[0], qs[1], limit, short)
    <3>1. Len(F[1]) = 2
      BY <1>2, <1>3, <2>1, <2>2
    <3> QED
      BY <1>3, <2>1, <3>1
  <2>3. CASE ~Fits(F[0], qs[1], limit, short)
    <3>1. F[1] = start
      BY <1>2, <1>3, <2>1, <2>3
    <3>2. Key(start[1]) = Key(qs[1])
      <4>1. ~Blank(qs[1]) /\ (short => ~qs[1].long) /\ Len(start) < limit
        BY <2>1 DEF Clean
      <4>2. \E i \in 1..Len(start) : Key(start[i]) = Key(qs[1])
        BY <1>2, <2>3, <4>1 DEF Fits
      <4> QED
        BY <4>2
    <3>3. Fits(start, qs[2], limit, short)
      <4>1. ~Blank(qs[2]) /\ Key(qs[1]) # Key(qs[2])
        BY <2>1 DEF Clean
      <4>2. (short => ~qs[2].long) /\ Len(start) < limit
        BY <2>1
      <4>3. \A i \in 1..Len(start) : Key(start[i]) # Key(qs[2])
        BY <3>2, <4>1
      <4> QED
        BY <4>1, <4>2, <4>3 DEF Fits
    <3>4. Len(F[2]) = Len(F[1]) + 1
      BY <1>3, <2>1, <3>1, <3>3
    <3> QED
      BY <3>1, <3>4
  <2> QED
    BY <2>2, <2>3
<1> DEFINE G == {k \in 0..Len(qs) : k >= 2 => Len(F[k]) >= 2}
<1>5. 0 \in G
  BY <1>1
<1>6. ASSUME NEW k \in 0..(Len(qs) - 1), k \in G
      PROVE  k + 1 \in G
  <2>1. k + 1 \in 0..Len(qs)
    BY <1>1
  <2>2. CASE k + 1 = 2
    BY <1>4, <2>1, <2>2
  <2>3. CASE k >= 2
    <3>1. Len(F[k]) >= 2 /\ Len(F[k + 1]) >= Len(F[k]) /\ Len(F[k]) \in Nat /\ Len(F[k + 1]) \in Nat
      BY <1>2, <1>3, <1>6, <2>1, <2>3, LenProperties
    <3>2. Len(F[k + 1]) >= 2
      BY <3>1
    <3> QED
      BY <2>1, <3>2
  <2>4. CASE k + 1 < 2
    BY <2>1, <2>4
  <2> QED
    BY <2>2, <2>3, <2>4
<1>7. Len(qs) \in G
  <2> HIDE DEF G
  <2>1. 0..Len(qs) \subseteq G
    BY <1>1, <1>5, <1>6, CountingUp
  <2> QED
    BY <1>1, <2>1
<1> QED
  BY <1>2, <1>7

\* What the router and the planner get from Distinct, who look at lengths.
LEMMA ShortKeeps ==
  ASSUME NEW start \in Seq(Query), NEW qs \in Seq(Query), NEW limit \in Int, Clean(start)
  PROVE  Keeps(start, Distinct(start, qs, limit, TRUE), limit, TRUE)
<1>1. TRUE \in BOOLEAN
  OBVIOUS
<1> QED
  BY <1>1, DistinctKeeps, Zenon

LEMMA ShortOfClean ==
  ASSUME NEW qs \in Seq(Query), NEW limit \in Int,
         Clean(qs), Len(qs) <= limit, \A i \in 1..Len(qs) : ~qs[i].long
  PROVE  Distinct(<<>>, qs, limit, TRUE) = qs
<1>1. TRUE \in BOOLEAN
  OBVIOUS
<1> QED
  BY <1>1, DistinctOfClean, Zenon

LEMMA ShortAdds ==
  ASSUME NEW start \in Seq(Query), NEW qs \in Seq(Query), NEW limit \in Int,
         Len(start) = 1, Clean(qs), Len(qs) >= 2, limit >= 2, \A i \in 1..Len(qs) : ~qs[i].long
  PROVE  Len(Distinct(start, qs, limit, TRUE)) >= 2
<1>1. TRUE \in BOOLEAN
  OBVIOUS
<1> QED
  BY <1>1, DistinctAdds, Zenon

LEMMA RouteQueriesAre ==
  ASSUME NEW queries, NEW limit \in 2..4
  PROVE  normalizeRouteQueries(queries, limit) = Distinct(<<>>, queries, limit, TRUE)
<1>1. (IF limit <= 0 THEN 1 ELSE limit) = limit
  OBVIOUS
<1> QED
  BY <1>1, Zenon DEF normalizeRouteQueries

\* A decision as the router lets it pass.
Passed(d, max) ==
  /\ d.type \in QueryTypes
  /\ d.queries \in Seq(Query) /\ Clean(d.queries)
  /\ Len(d.queries) <= normalizeMaxSubqueries(max)
  /\ \A i \in 1..Len(d.queries) : ~d.queries[i].long
  /\ d.type = "contextual_rewrite" => Len(d.queries) = 1
  /\ d.type = "decomposition" => Len(d.queries) >= 2

LEMMA LimitTyped ==
  ASSUME NEW n \in Int
  PROVE  normalizeMaxSubqueries(n) \in 2..4
  BY DEF normalizeMaxSubqueries

LEMMA NothingIsClean == <<>> \in Seq(Query) /\ Len(<<>>) = 0 /\ Clean(<<>>)
<1>1. <<>> \in Seq(Query) /\ Len(<<>>) = 0
  OBVIOUS
<1>2. 1..0 = {}
  OBVIOUS
<1> QED
  BY <1>1, <1>2 DEF Clean

\* What normalizeRouteDecision lets pass is clean, within the limits and
\* enough for its type.
LEMMA DecisionPasses ==
  ASSUME NEW decision, decision.queries \in Seq(Query), NEW original \in Query, NEW max \in Int,
         NEW d, d = normalizeRouteDecision(decision, original, max), d # <<>>
  PROVE  d = <<d[1]>> /\ Passed(d[1], max) /\ d[1].type = decision.type /\ ~Blank(original)
<1> DEFINE limit == normalizeMaxSubqueries(max)
           queries == Distinct(<<>>, decision.queries, limit, TRUE)
<1>1. limit \in 2..4
  BY LimitTyped
<1>2. normalizeRouteQueries(decision.queries, limit) = queries
  BY <1>1, RouteQueriesAre
<1>3. Keeps(<<>>, queries, limit, TRUE)
  <2>1. limit \in Int
    BY <1>1
  <2> HIDE DEF limit
  <2> QED
    BY <2>1, NothingIsClean, ShortKeeps
<1>4. ~Blank(original) /\ Wellformed(decision.type, queries)
      /\ d = <<[type |-> decision.type,
                queries |-> IF decision.type \in {"none", "direct"} THEN <<>> ELSE queries]>>
  <2> HIDE DEF queries
  <2> QED
    BY <1>2 DEF normalizeRouteDecision
<1> DEFINE e == [type |-> decision.type,
                 queries |-> IF decision.type \in {"none", "direct"} THEN <<>> ELSE queries]
<1>5. queries \in Seq(Query) /\ Clean(queries) /\ Len(queries) <= limit
      /\ \A i \in 1..Len(queries) : ~queries[i].long
  <2> HIDE DEF queries, limit
  <2>1. Len(queries) \in Nat /\ (Len(queries) <= limit \/ Len(queries) = 0)
    BY <1>3, NothingIsClean, LenProperties DEF Keeps
  <2> QED
    BY <1>1, <1>3, <2>1, NothingIsClean DEF Keeps
<1>6. Passed(e, max)
  <2> HIDE DEF queries
  <2>1. CASE decision.type \in {"none", "direct"}
    <3>1. e.queries = <<>> /\ e.type = decision.type
      BY <2>1
    <3>2. \A i \in 1..Len(<<>>) : FALSE
      BY NothingIsClean
    <3> HIDE DEF e
    <3> QED
      BY <1>1, <1>4, <2>1, <3>1, <3>2, NothingIsClean DEF Passed, Wellformed
  <2>2. CASE decision.type \notin {"none", "direct"}
    <3>1. e.queries = queries /\ e.type = decision.type
      BY <2>2
    <3> HIDE DEF e
    <3> QED
      BY <1>4, <1>5, <3>1 DEF Passed, Wellformed
  <2> QED
    BY <2>1, <2>2
<1>7. d = <<e>> /\ d[1] = e /\ e.type = decision.type
  BY <1>4
<1> HIDE DEF e
<1> QED
  BY <1>4, <1>6, <1>7

\* The planner finds nothing to refuse or to change in what has passed.
LEMMA PassesAgain ==
  ASSUME NEW d, NEW original \in Query, NEW max \in Int, Passed(d, max), ~Blank(original)
  PROVE  /\ normalizeRouteDecision(d, original, max) # <<>>
         /\ normalizeRouteDecision(d, original, max)[1].type = d.type
<1> DEFINE limit == normalizeMaxSubqueries(max)
<1>1. limit \in 2..4
  BY LimitTyped
<1>2. normalizeRouteQueries(d.queries, limit) = d.queries
  <2>1. Distinct(<<>>, d.queries, limit, TRUE) = d.queries
    <3>1. limit \in Int
      BY <1>1
    <3> HIDE DEF limit
    <3>2. Len(d.queries) <= limit
      BY DEF Passed, limit
    <3> QED
      BY <3>1, <3>2, ShortOfClean DEF Passed
  <2> HIDE DEF limit
  <2> QED
    BY <1>1, <2>1, RouteQueriesAre
<1>3. Wellformed(d.type, d.queries)
  BY DEF Wellformed, Passed
<1> QED
  BY <1>2, <1>3 DEF normalizeRouteDecision

\* A plan starts with the question, is clean, and stays within its limit; one
\* for a decomposition has something beside the question.
LEMMA QueryPlanBuilt ==
  ASSUME NEW original \in Query, ~Blank(original), NEW d, NEW max \in Int, Passed(d, max),
         NEW plan, plan = buildQueryPlan(original, d, max)
  PROVE  /\ plan \in Seq(Query) /\ Clean(plan)
         /\ d.type # "none" => plan # <<>> /\ Head(plan) = TrimSpace(original)
         /\ Len(plan) <= 1 + normalizeMaxSubqueries(max)
         /\ d.type = "decomposition" => Len(plan) >= 2
<1> DEFINE limit == 1 + normalizeMaxSubqueries(max)
           first == <<TrimSpace(original)>>
<1>1. limit \in 3..5
  BY LimitTyped
<1>2. first \in Seq(Query) /\ Len(first) = 1 /\ first[1] = TrimSpace(original) /\ first # <<>>
      /\ Head(first) = TrimSpace(original)
  BY Trimmed
<1>3. Clean(first)
  <2> HIDE DEF first
  <2> QED
    BY <1>2, Trimmed DEF Clean
<1>4. CASE d.type = "none"
  <2>1. plan = <<>>
    BY <1>4 DEF buildQueryPlan
  <2> QED
    BY <1>1, <1>4, <2>1, NothingIsClean
<1>5. CASE d.type = "direct"
  <2>1. plan = first
    BY <1>5 DEF buildQueryPlan
  <2> HIDE DEF first
  <2>2. Len(plan) <= limit
    <3>1. Len(plan) = 1
      BY <1>2, <2>1
    <3> HIDE DEF limit
    <3> QED
      BY <1>1, <3>1
  <2>3. d.type # "decomposition"
    BY <1>5
  <2> HIDE DEF limit
  <2> QED
    BY <1>2, <1>3, <2>1, <2>2, <2>3 DEF limit
<1>6. CASE d.type # "none" /\ d.type # "direct"
  <2>1. plan = Distinct(first, d.queries, limit, TRUE)
    BY <1>6 DEF buildQueryPlan
  <2>2. d.queries \in Seq(Query) /\ limit \in Int
    BY <1>1 DEF Passed
  <2> HIDE DEF first, limit
  <2>3. Keeps(first, plan, limit, TRUE)
    BY <1>2, <1>3, <2>1, <2>2, ShortKeeps
  <2>4. plan \in Seq(Query) /\ Clean(plan) /\ Len(plan) \in Nat /\ Len(plan) >= 1
        /\ plan[1] = TrimSpace(original) /\ Len(plan) <= limit
    BY <1>1, <1>2, <2>3, LenProperties DEF Keeps
  <2>5. plan # <<>> /\ Head(plan) = plan[1]
    <3>1. plan # <<>>
      BY <2>4, NothingIsClean
    <3> QED
      BY <2>4, <3>1
  <2>6. d.type = "decomposition" => Len(plan) >= 2
    <3> SUFFICES ASSUME d.type = "decomposition"
                 PROVE  Len(plan) >= 2
      OBVIOUS
    <3>1. Clean(d.queries) /\ Len(d.queries) >= 2 /\ \A i \in 1..Len(d.queries) : ~d.queries[i].long
      BY DEF Passed
    <3>2. limit >= 2
      BY <1>1
    <3> QED
      BY <1>2, <2>1, <2>2, <3>1, <3>2, ShortAdds
  <2> QED
    BY <2>4, <2>5, <2>6 DEF limit
<1> QED
  BY <1>4, <1>5, <1>6

\* The retrieval service searches clean queries as they are.
LEMMA CleanIsSearched ==
  ASSUME NEW qs \in Seq(Query), Clean(qs)
  PROVE  normalizeRetrievalQueries(qs) = qs
<1>1. Len(qs) \in Int /\ Len(qs) <= Len(qs)
  BY LenProperties
<1> QED
  BY <1>1, DistinctOfClean DEF normalizeRetrievalQueries

\* The inputs of the planner.
LEMMA PlanInputTyped ==
  ASSUME NEW in \in PlanInputs
  PROVE  /\ in.question \in Query /\ in.max \in Int
         /\ in.reply # <<>> => in.reply[1].queries \in Seq(Query)
<1>1. in.question \in Query /\ in.max \in Int
  BY PlanAssumption DEF PlanInputs
<1>2. ASSUME in.reply # <<>>
      PROVE  in.reply[1].queries \in Seq(Query)
  <2>1. in.reply \in {<<>>} \cup {<<d>> : d \in Decisions}
    BY DEF PlanInputs
  <2>2. PICK d \in Decisions : in.reply = <<d>>
    BY <1>2, <2>1
  <2>3. d.queries \in UNION {[1..n -> Queries] : n \in 0..MaxQueries}
    BY DEF Decisions
  <2>4. PICK n \in 0..MaxQueries : d.queries \in [1..n -> Queries]
    BY <2>3
  <2>5. d.queries \in [1..n -> Query] /\ n \in Nat
    BY <2>4, PlanAssumption
  <2>6. d.queries \in Seq(Query)
    BY <2>5
  <2> QED
    BY <2>2, <2>6
<1> QED
  BY <1>1, <1>2

\* Whatever the language model replies, the question is searched first unless
\* nothing is to be, the plan is what is searched, and the decision that the
\* router let pass survives the planner (Plan, normalizeRouteDecision,
\* buildQueryPlan, normalizeRetrievalQueries).
THEOREM PlansAreSound == AlgorithmsSpec => []PlanIsSound
<1>1. Answered => PlanIsSound
  <2> SUFFICES ASSUME Answered, Returned("Plan")
               PROVE  PlanIsSound
    BY DEF PlanIsSound, QuestionComesFirst, PlanIsSearched, DecisionSurvives
  <2> DEFINE in == call.in
             routed == Route(in)
             limit == 1 + normalizeMaxSubqueries(in.max)
  <2>1. in \in PlanInputs /\ Result = Plan(in)
    BY InputOf DEF Answered, Returned
  <2>2. /\ in.question \in Query /\ in.max \in Int
        /\ in.reply # <<>> => in.reply[1].queries \in Seq(Query)
    BY <2>1, PlanInputTyped
  <2>3. TrimSpace(in.question) \in Query /\ Blank(TrimSpace(in.question)) = Blank(in.question)
        /\ TrimSpace(TrimSpace(in.question)) = TrimSpace(in.question)
    BY <2>2, Trimmed
  <2>4. limit \in 3..5
    BY <2>2, LimitTyped
  <2>5. routed # <<>> => routed = <<routed[1]>> /\ Passed(routed[1], in.max) /\ ~Blank(in.question)
    <3> SUFFICES ASSUME routed # <<>>
                 PROVE  routed = <<routed[1]>> /\ Passed(routed[1], in.max) /\ ~Blank(in.question)
      OBVIOUS
    <3>1. in.reply # <<>> /\ routed = normalizeRouteDecision(in.reply[1], in.question, in.max)
      BY DEF Route
    <3> QED
      BY <2>2, <3>1, DecisionPasses
  <2>6. CASE Blank(in.question)
    <3>1. Result = [type |-> "direct", queries |-> <<>>, fallback |-> FALSE, ok |-> FALSE]
      BY <2>1, <2>6 DEF Plan
    <3>2. routed = <<>>
      BY <2>5, <2>6
    <3>3. normalizeRetrievalQueries(<<>>) = <<>>
      BY NothingIsClean, CleanIsSearched
    <3> QED
      BY <2>6, <3>1, <3>2, <3>3 DEF PlanIsSound, QuestionComesFirst, PlanIsSearched, DecisionSurvives
  <2>7. CASE ~Blank(in.question) /\ routed = <<>>
    <3> DEFINE first == <<TrimSpace(in.question)>>
    <3>1. Result.type = "direct" /\ Result.queries = first /\ Result.ok
      BY <2>1, <2>7 DEF Plan, Fallback
    <3>2. first \in Seq(Query) /\ Len(first) = 1 /\ first[1] = TrimSpace(in.question) /\ first # <<>>
          /\ Head(first) = TrimSpace(in.question)
      BY <2>3
    <3> HIDE DEF first
    <3>3. Clean(first)
      BY <2>3, <2>7, <3>2 DEF Clean
    <3>4. normalizeRetrievalQueries(first) = first
      BY <3>2, <3>3, CleanIsSearched
    <3> QED
      BY <2>4, <2>7, <3>1, <3>2, <3>4
         DEF PlanIsSound, QuestionComesFirst, PlanIsSearched, DecisionSurvives
  <2>8. CASE ~Blank(in.question) /\ routed # <<>>
    <3> DEFINE decision == normalizeRouteDecision(routed[1], TrimSpace(in.question), in.max)
               plan == buildQueryPlan(in.question, decision[1], in.max)
    <3>1. Passed(routed[1], in.max)
      BY <2>5, <2>8
    <3>2. decision # <<>> /\ decision[1].type = routed[1].type
      BY <2>2, <2>3, <2>8, <3>1, PassesAgain
    <3>3. Passed(decision[1], in.max)
      <4>1. routed[1].queries \in Seq(Query)
        BY <3>1 DEF Passed
      <4> HIDE DEF routed
      <4> QED
        BY <2>2, <2>3, <3>2, <4>1, DecisionPasses
    <3>4. Result.type = decision[1].type /\ Result.queries = plan /\ ~Result.fallback /\ Result.ok
      <4>1. Plan(in) = [type |-> decision[1].type, queries |-> plan, fallback |-> FALSE, ok |-> TRUE]
        BY <2>8, <3>2 DEF Plan
      <4> HIDE DEF decision, plan
      <4> QED
        BY <2>1, <4>1
    <3> HIDE DEF decision
    <3>5. /\ plan \in Seq(Query) /\ Clean(plan)
          /\ decision[1].type # "none" => plan # <<>> /\ Head(plan) = TrimSpace(in.question)
          /\ Len(plan) <= limit
          /\ decision[1].type = "decomposition" => Len(plan) >= 2
      BY <2>2, <2>8, <3>3, QueryPlanBuilt
    <3> HIDE DEF plan
    <3>6. normalizeRetrievalQueries(plan) = plan
      BY <3>5, CleanIsSearched
    <3> QED
      BY <2>8, <3>2, <3>4, <3>5, <3>6
         DEF PlanIsSound, QuestionComesFirst, PlanIsSearched, DecisionSurvives
  <2> QED
    BY <2>6, <2>7, <2>8
<1> QED
  BY <1>1, AnsweredAlways, PTL

-----------------------------------------------------------------------------
(* The fusion of rankings.                                               *)

\* Hits of different chunks.
HitLists == {l \in Seq(Hit) : \A i, j \in 1..Len(l) : l[i].id = l[j].id => i = j}

LEMMA MinOfTwo ==
  ASSUME NEW a \in Int, NEW b \in Int
  PROVE  Min({a, b}) = IF a <= b THEN a ELSE b
  BY DEF Min

LEMMA RankIs ==
  ASSUME NEW l \in HitLists
  PROVE  /\ Len(l) \in Nat /\ DOMAIN l = 1..Len(l) /\ l \in Seq(Hit)
         /\ \A i \in 1..Len(l) : /\ l[i].id \in Chunks /\ l[i].score \in Int /\ l[i] \in Hit
                                 /\ l[i].id \in Ids(l) /\ RankOf(l, l[i].id) = i
         /\ \A a \in Ids(l) : /\ a \in Chunks /\ RankOf(l, a) \in 1..Len(l)
                              /\ l[RankOf(l, a)].id = a
         /\ \A a : a \in Ids(l) <=> \E i \in 1..Len(l) : l[i].id = a
<1>1. Len(l) \in Nat /\ DOMAIN l = 1..Len(l) /\ l \in Seq(Hit)
  BY LenProperties DEF HitLists
<1>2. \A i, j \in 1..Len(l) : l[i].id = l[j].id => i = j
  BY DEF HitLists
<1>3. \A a : a \in Ids(l) <=> \E i \in 1..Len(l) : l[i].id = a
  BY <1>1 DEF Ids
<1>4. ASSUME NEW i \in 1..Len(l)
      PROVE  /\ l[i].id \in Chunks /\ l[i].score \in Int /\ l[i] \in Hit
             /\ l[i].id \in Ids(l) /\ RankOf(l, l[i].id) = i
  <2>1. l[i] \in Hit
    BY <1>1, ElementOfSeq
  <2>2. RankOf(l, l[i].id) = i
    BY <1>1, <1>2 DEF RankOf
  <2> QED
    BY <1>3, <2>1, <2>2 DEF Hit
<1>5. ASSUME NEW a \in Ids(l)
      PROVE  a \in Chunks /\ RankOf(l, a) \in 1..Len(l) /\ l[RankOf(l, a)].id = a
  <2>1. PICK i \in 1..Len(l) : l[i].id = a
    BY <1>3
  <2> QED
    BY <1>4, <2>1
<1> QED
  BY <1>1, <1>3, <1>4, <1>5

LEMMA IdsCount ==
  ASSUME NEW l \in HitLists
  PROVE  /\ IsFiniteSet(Ids(l)) /\ Cardinality(Ids(l)) = Len(l)
         /\ Len(l) <= Cardinality(Chunks) /\ Ids(l) \subseteq Chunks
<1> DEFINE n == Len(l)
           f == [i \in 1..n |-> l[i].id]
           T == Ids(l)
<1>1. /\ n \in Nat /\ (\A i \in 1..n : l[i].id \in T) /\ T \subseteq Chunks
      /\ \A a : a \in T <=> \E i \in 1..n : l[i].id = a
  BY RankIs
<1>2. \A i, j \in 1..n : l[i].id = l[j].id => i = j
  BY DEF HitLists
<1> HIDE DEF n, T
<1>3. f \in [1..n -> T] /\ \A i \in 1..n : f[i] = l[i].id
  BY <1>1
<1> HIDE DEF f
<1>4. f \in Injection(1..n, T)
  BY <1>2, <1>3 DEF Injection, IsInjective
<1>5. f \in Surjection(1..n, T)
  BY <1>1, <1>3 DEF Surjection
<1>6. IsFiniteSet(1..n) /\ Cardinality(1..n) = n
  <2>1. n \in Int /\ 1 \in Int /\ (IF 1 > n THEN 0 ELSE n - 1 + 1) = n
    BY <1>1
  <2> QED
    BY <2>1, FS_Interval
<1>7. ExistsBijection(1..n, T)
  BY <1>4, <1>5 DEF ExistsBijection, Bijection
<1>8. IsFiniteSet(T) /\ Cardinality(T) = n
  BY <1>6, <1>7, FS_Bijection
<1>9. n <= Cardinality(Chunks)
  BY <1>1, <1>8, FS_Subset, RrfAssumption
<1> QED
  BY <1>1, <1>8, <1>9 DEF n, T

\* What the rank r adds: the less the further down.
Share(r) == Unit \div (RrfK + r)

LEMMA ShareIs ==
  ASSUME NEW r \in 1..Cardinality(Chunks)
  PROVE  /\ Share(r) \in Nat \ {0} /\ (RrfK + r) * Share(r) = Unit
         /\ RrfK + r \in Nat \ {0}
<1> DEFINE d == RrfK + r
<1>1. d \in Nat \ {0} /\ Unit \in Nat \ {0} /\ Unit % d = 0
  <2>1. RrfK \in Nat /\ Cardinality(Chunks) \in Nat
    BY RrfAssumption, FS_CardinalityType
  <2> QED
    BY <2>1, RrfAssumption
<1> HIDE DEF d
<1>2. Unit \div d \in Nat /\ d * (Unit \div d) = Unit
  BY <1>1, WholeShare
<1>3. Unit \div d # 0
  BY <1>1, <1>2
<1> QED
  BY <1>1, <1>2, <1>3 DEF d, Share

LEMMA ShareFalls ==
  ASSUME NEW r \in 1..Cardinality(Chunks), NEW s \in 1..Cardinality(Chunks), r < s
  PROVE  Share(s) < Share(r)
<1> DEFINE x == RrfK + r
           y == RrfK + s
           a == Share(r)
           b == Share(s)
<1>1. x \in Nat \ {0} /\ y \in Nat \ {0} /\ a \in Nat \ {0} /\ b \in Nat \ {0}
      /\ x * a = y * b
  BY ShareIs
<1>2. x < y
  <2>1. RrfK \in Nat /\ Cardinality(Chunks) \in Nat
    BY RrfAssumption, FS_CardinalityType
  <2> QED
    BY <2>1
<1> HIDE DEF x, y, a, b
<1>3. ASSUME a <= b
      PROVE  FALSE
  <2>1. x * a <= x * b
    BY <1>1, <1>3
  <2>2. x * b < y * b
    BY <1>1, <1>2
  <2>3. x * a \in Nat /\ x * b \in Nat /\ y * b \in Nat
    BY <1>1
  <2> QED
    BY <1>1, <2>1, <2>2, <2>3
<1>4. b < a
  BY <1>1, <1>3
<1> QED
  BY <1>4 DEF a, b

\* Two ranks within the bound on topK add more than any one rank.
LEMMA TwoSharesWin ==
  ASSUME NEW r \in 1..Cardinality(Chunks), NEW s \in 1..Cardinality(Chunks),
         NEW t \in 1..Cardinality(Chunks), r <= MaxTopK, s <= MaxTopK
  PROVE  Share(t) < Share(r) + Share(s)
<1> DEFINE k == RrfK
           a == Share(r)
           b == Share(s)
           c == Share(t)
<1>1. a \in Nat \ {0} /\ b \in Nat \ {0} /\ c \in Nat \ {0}
      /\ (k + r) * a = Unit /\ (k + s) * b = Unit /\ (k + t) * c = Unit
  BY ShareIs
<1>2. k \in Nat /\ Cardinality(Chunks) \in Nat /\ MaxTopK \in Nat /\ MaxTopK < k + 2
  BY RrfAssumption, FS_CardinalityType
<1>3. Unit \in Nat
  BY RrfAssumption
<1> HIDE DEF k, a, b, c
<1>4. r \in Nat /\ s \in Nat /\ t \in Nat /\ t >= 1 /\ r <= k + 1 /\ s <= k + 1
  BY <1>2
<1>5. k + r <= 2 * k + 1 /\ k + s <= 2 * k + 1 /\ k + 1 <= k + t
  BY <1>2, <1>4
<1>6. Unit <= (2 * k + 1) * a
  <2>1. (k + r) * a <= (2 * k + 1) * a
    BY <1>1, <1>2, <1>4, <1>5
  <2> QED
    BY <1>1, <2>1
<1>7. Unit <= (2 * k + 1) * b
  <2>1. (k + s) * b <= (2 * k + 1) * b
    BY <1>1, <1>2, <1>4, <1>5
  <2> QED
    BY <1>1, <2>1
<1>8. (k + 1) * c <= Unit
  <2>1. (k + 1) * c <= (k + t) * c
    BY <1>1, <1>2, <1>4, <1>5
  <2> QED
    BY <1>1, <2>1
<1>9. ASSUME a + b <= c
      PROVE  FALSE
  <2>1. (2 * k + 1) * (a + b) <= (2 * k + 1) * c
    BY <1>1, <1>2, <1>9
  <2>2. (2 * k + 1) * (a + b) = (2 * k + 1) * a + (2 * k + 1) * b
    BY <1>1, <1>2
  <2>3. (2 * k + 1) * c + c = (k + 1) * c + (k + 1) * c
    BY <1>1, <1>2
  <2> DEFINE ua == (2 * k + 1) * a
             ub == (2 * k + 1) * b
             uc == (2 * k + 1) * c
             kc == (k + 1) * c
  <2>4. ua \in Nat /\ ub \in Nat /\ uc \in Nat /\ kc \in Nat
    BY <1>1, <1>2
  <2>5. ua + ub <= uc /\ uc + c = kc + kc /\ Unit <= ua /\ Unit <= ub /\ kc <= Unit
    BY <1>6, <1>7, <1>8, <2>1, <2>2, <2>3
  <2> HIDE DEF ua, ub, uc, kc
  <2> QED
    BY <1>1, <1>3, <2>4, <2>5
<1>10. c < a + b
  BY <1>1, <1>9
<1> QED
  BY <1>10 DEF a, b, c

\* What a list adds for a chunk.
LEMMA PointsAre ==
  ASSUME NEW l \in HitLists, NEW a
  PROVE  /\ Points(l, a) \in Nat
         /\ a \in Ids(l) => /\ Points(l, a) = Share(RankOf(l, a)) /\ Points(l, a) > 0
                            /\ RankOf(l, a) \in 1..Cardinality(Chunks)
         /\ a \notin Ids(l) => Points(l, a) = 0
<1>1. CASE a \in Ids(l)
  <2>1. RankOf(l, a) \in 1..Len(l) /\ Len(l) \in Nat /\ Len(l) <= Cardinality(Chunks)
        /\ Cardinality(Chunks) \in Nat
    BY <1>1, RankIs, IdsCount, FS_CardinalityType, RrfAssumption
  <2>2. RankOf(l, a) \in 1..Cardinality(Chunks)
    BY <2>1
  <2>3. Points(l, a) = Share(RankOf(l, a))
    BY <1>1 DEF Points, Share
  <2>4. Share(RankOf(l, a)) \in Nat \ {0}
    BY <2>2, ShareIs
  <2> QED
    BY <1>1, <2>2, <2>3, <2>4
<1>2. CASE a \notin Ids(l)
  BY <1>2 DEF Points
<1> QED
  BY <1>1, <1>2

\* What comes earlier in a list gets more from it.
LEMMA PointsFall ==
  ASSUME NEW l \in HitLists, NEW a, NEW b, AtLeast(l, a, b)
  PROVE  Points(l, b) <= Points(l, a) /\ (b \in Ids(l) => Points(l, b) < Points(l, a))
<1>1. CASE b \in Ids(l)
  <2>1. a \in Ids(l) /\ RankOf(l, a) < RankOf(l, b)
    BY <1>1 DEF AtLeast
  <2>2. /\ Points(l, a) = Share(RankOf(l, a)) /\ RankOf(l, a) \in 1..Cardinality(Chunks)
        /\ Points(l, b) = Share(RankOf(l, b)) /\ RankOf(l, b) \in 1..Cardinality(Chunks)
        /\ Points(l, a) \in Nat /\ Points(l, b) \in Nat
    BY <1>1, <2>1, PointsAre
  <2>3. Points(l, b) < Points(l, a)
    BY <2>1, <2>2, ShareFalls
  <2> QED
    BY <2>2, <2>3
<1>2. CASE b \notin Ids(l)
  BY <1>2, PointsAre
<1> QED
  BY <1>1, <1>2

\* F is the course of the sum of what the lists add for a chunk.
SumsUp(F, lists, a) ==
  /\ F[0] = 0 /\ \A k \in 0..Len(lists) : F[k] \in Nat
  /\ \A k \in 0..(Len(lists) - 1) : F[k + 1] = F[k] + Points(lists[k + 1], a)

LEMMA RrfSums ==
  ASSUME NEW lists \in Seq(HitLists), NEW a
  PROVE  \E F : SumsUp(F, lists, a) /\ Rrf(lists, a) = F[Len(lists)]
<1> DEFINE n == Len(lists)
           X == Nat
           step == [p \in X \X (1..n) |-> p[1] + Points(lists[p[2]], a)]
           Folds(it) == it = [s \in SUBSET (DOMAIN lists) |->
                                IF s = {} THEN 0 ELSE it[s \ {Max(s)}] + Points(lists[Max(s)], a)]
           it == CHOOSE it : Folds(it)
<1>1. n \in Nat /\ DOMAIN lists = 1..n /\ 0 \in X
  BY LenProperties
<1>2. ASSUME NEW p \in X, NEW k \in 1..n
      PROVE  <<p, k>> \in X \X (1..n) /\ step[<<p, k>>] = p + Points(lists[k], a)
             /\ p + Points(lists[k], a) \in X
  <2>1. Points(lists[k], a) \in Nat
    BY ElementOfSeq, PointsAre
  <2> QED
    BY <2>1
<1>3. step \in [X \X (1..n) -> X]
  <2>1. ASSUME NEW p \in X \X (1..n)
        PROVE  p[1] + Points(lists[p[2]], a) \in X
    <3>1. p[1] \in X /\ p[2] \in 1..n
      OBVIOUS
    <3> HIDE DEF X
    <3> QED
      BY <1>2, <3>1
  <2> QED
    BY <2>1
<1>4. Rrf(lists, a) = it[1..n]
  <2>1. Rrf(lists, a) = it[DOMAIN lists]
    BY DEF Rrf, FoldLeft, MapThenFoldSet
  <2> HIDE DEF it
  <2> QED
    BY <1>1, <2>1
<1> HIDE DEF step, n, X
<1>5. PICK g : FoldsSets(g, n, X, 0, step)
  BY <1>1, <1>3, FoldRecursion
<1>6. ASSUME NEW s \in SUBSET (1..n), s # {}
      PROVE  Max(s) \in 1..n /\ s \ {Max(s)} \in SUBSET (1..n)
  <2>1. s \subseteq Nat /\ \A m \in s : m <= n
    BY <1>1
  <2>2. Max(s) \in s
    BY <1>1, <1>6, <2>1, NatMax
  <2> QED
    BY <2>2
<1>7. Folds(g)
  <2>1. ASSUME NEW s \in SUBSET (1..n)
        PROVE  g[s] = IF s = {} THEN 0 ELSE g[s \ {Max(s)}] + Points(lists[Max(s)], a)
    <3>1. CASE s = {}
      BY <1>5, <3>1 DEF FoldsSets
    <3>2. CASE s # {}
      <4>1. Max(s) \in 1..n /\ g[s \ {Max(s)}] \in X
        BY <1>5, <1>6, <3>2 DEF FoldsSets
      <4>2. g[s] = step[<<g[s \ {Max(s)}], Max(s)>>]
        BY <1>5, <3>2 DEF FoldsSets
      <4>3. step[<<g[s \ {Max(s)}], Max(s)>>] = g[s \ {Max(s)}] + Points(lists[Max(s)], a)
        BY <1>2, <4>1
      <4> QED
        BY <3>2, <4>2, <4>3
    <3> QED
      BY <3>1, <3>2
  <2>2. g \in [SUBSET (1..n) -> X]
    BY <1>5 DEF FoldsSets
  <2> QED
    BY <1>1, <2>1, <2>2
<1>8. Folds(it)
  <2> HIDE DEF Folds
  <2> QED
    BY <1>7
<1>9. \A s \in SUBSET (1..n) :
        it[s] = IF s = {} THEN 0 ELSE it[s \ {Max(s)}] + Points(lists[Max(s)], a)
  <2> HIDE DEF it
  <2> QED
    BY <1>1, <1>8
<1> HIDE DEF it, Folds
<1>10. SolvesFold(it, n, X, 0, step)
  <2>1. {} \in SUBSET (1..n)
    OBVIOUS
  <2>2. ASSUME NEW s \in SUBSET (1..n), s # {}, it[s \ {Max(s)}] \in X
        PROVE  it[s] = step[<<it[s \ {Max(s)}], Max(s)>>]
    <3>1. Max(s) \in 1..n
      BY <1>6, <2>2
    <3>2. it[s] = it[s \ {Max(s)}] + Points(lists[Max(s)], a)
      BY <1>9, <2>2
    <3> QED
      BY <1>2, <2>2, <3>1, <3>2
  <2> QED
    BY <1>9, <2>1, <2>2 DEF SolvesFold
<1>11. PICK F : FoldsUp(F, it, n, X, 0, step)
  BY <1>1, <1>3, <1>10, FoldCourse
<1>12. ASSUME NEW k \in 0..(n - 1)
       PROVE  F[k + 1] = F[k] + Points(lists[k + 1], a)
  <2> DEFINE m == k + 1
  <2>1. m \in 1..n /\ m - 1 = k
    BY <1>1
  <2> HIDE DEF m
  <2>2. F[m] = step[<<F[k], m>>] /\ F[k] \in X
    BY <1>11, <2>1 DEF FoldsUp
  <2>3. F[m] = F[k] + Points(lists[m], a)
    BY <1>2, <2>1, <2>2
  <2> QED
    BY <2>3 DEF m
<1>13. F[0] = 0 /\ F[n] = it[1..n] /\ \A k \in 0..n : F[k] \in Nat
  BY <1>11 DEF FoldsUp, X
<1> QED
  BY <1>4, <1>12, <1>13 DEF SumsUp, n

\* The sum of one list, and of two.
LEMMA RrfOfFew ==
  ASSUME NEW lists \in Seq(HitLists), NEW a
  PROVE  /\ Rrf(lists, a) \in Nat
         /\ Len(lists) = 1 => Rrf(lists, a) = Points(lists[1], a)
         /\ Len(lists) = 2 => Rrf(lists, a) = Points(lists[1], a) + Points(lists[2], a)
<1>1. PICK F : SumsUp(F, lists, a) /\ Rrf(lists, a) = F[Len(lists)]
  BY RrfSums
<1>2. Len(lists) \in Nat
  BY LenProperties
<1>3. Rrf(lists, a) \in Nat
  BY <1>1, <1>2 DEF SumsUp
<1>4. ASSUME Len(lists) = 1
      PROVE  Rrf(lists, a) = Points(lists[1], a)
  <2>1. 0 \in 0..(Len(lists) - 1) /\ 1 \in 1..Len(lists)
    BY <1>4
  <2>2. F[0 + 1] = F[0] + Points(lists[0 + 1], a) /\ F[0] = 0
    BY <1>1, <2>1 DEF SumsUp
  <2>3. Points(lists[1], a) \in Nat
    BY <2>1, ElementOfSeq, PointsAre
  <2> QED
    BY <1>1, <1>4, <2>2, <2>3
<1>5. ASSUME Len(lists) = 2
      PROVE  Rrf(lists, a) = Points(lists[1], a) + Points(lists[2], a)
  <2>1. 0 \in 0..(Len(lists) - 1) /\ 1 \in 0..(Len(lists) - 1) /\ 1 \in 1..Len(lists) /\ 2 \in 1..Len(lists)
    BY <1>5
  <2>2. F[0 + 1] = F[0] + Points(lists[0 + 1], a) /\ F[0] = 0
        /\ F[1 + 1] = F[1] + Points(lists[1 + 1], a)
    BY <1>1, <2>1 DEF SumsUp
  <2>3. Points(lists[1], a) \in Nat /\ Points(lists[2], a) \in Nat
    BY <2>1, ElementOfSeq, PointsAre
  <2> QED
    BY <1>1, <1>5, <2>2, <2>3
<1> QED
  BY <1>3, <1>4, <1>5

\* What no list places behind, and some list before, has the greater sum.
LEMMA RrfRespects ==
  ASSUME NEW lists \in Seq(HitLists), NEW a, NEW b,
         \A k \in 1..Len(lists) : AtLeast(lists[k], a, b),
         NEW w \in 1..Len(lists), b \in Ids(lists[w])
  PROVE  Rrf(lists, b) < Rrf(lists, a)
<1> DEFINE n == Len(lists)
<1>1. PICK F : SumsUp(F, lists, a) /\ Rrf(lists, a) = F[n]
  BY RrfSums
<1>2. PICK E : SumsUp(E, lists, b) /\ Rrf(lists, b) = E[n]
  BY RrfSums
<1> DEFINE G == {k \in 0..n : E[k] <= F[k] /\ (w <= k => E[k] < F[k])}
<1>3. n \in Nat /\ w \in 1..n
  BY LenProperties
<1>4. /\ F[0] = 0 /\ \A k \in 0..n : F[k] \in Nat
      /\ \A k \in 0..(n - 1) : F[k + 1] = F[k] + Points(lists[k + 1], a)
  BY <1>1 DEF SumsUp
<1>5. /\ E[0] = 0 /\ \A k \in 0..n : E[k] \in Nat
      /\ \A k \in 0..(n - 1) : E[k + 1] = E[k] + Points(lists[k + 1], b)
  BY <1>2 DEF SumsUp
<1>6. ASSUME NEW k \in 1..n
      PROVE  /\ Points(lists[k], a) \in Nat /\ Points(lists[k], b) \in Nat
             /\ Points(lists[k], b) <= Points(lists[k], a)
             /\ k = w => Points(lists[k], b) < Points(lists[k], a)
  <2>1. lists[k] \in HitLists
    BY ElementOfSeq
  <2> QED
    BY <2>1, PointsAre, PointsFall
<1> HIDE DEF n
<1>7. 0 \in G
  BY <1>3, <1>4, <1>5
<1>8. ASSUME NEW k \in 0..(n - 1), k \in G
      PROVE  k + 1 \in G
  <2> DEFINE m == k + 1
             p == Points(lists[m], a)
             q == Points(lists[m], b)
  <2>1. m \in 1..n /\ m \in 0..n /\ k \in 0..n /\ k \in Nat
    BY <1>3
  <2>2. F[m] = F[k] + p /\ E[m] = E[k] + q
    BY <1>4, <1>5
  <2>3. p \in Nat /\ q \in Nat /\ q <= p /\ (m = w => q < p)
    BY <1>6, <2>1
  <2>4. F[k] \in Nat /\ E[k] \in Nat /\ E[k] <= F[k] /\ (w <= k => E[k] < F[k])
    BY <1>4, <1>5, <1>8, <2>1
  <2>5. w <= m => w <= k \/ m = w
    BY <1>3, <2>1
  <2> HIDE DEF m, p, q
  <2>6. E[m] <= F[m] /\ (w <= m => E[m] < F[m])
    BY <2>2, <2>3, <2>4, <2>5
  <2>7. m \in G
    BY <2>1, <2>6
  <2> QED
    BY <2>7 DEF m
<1>9. n \in G
  <2> HIDE DEF G
  <2>1. 0..n \subseteq G
    BY <1>3, <1>7, <1>8, CountingUp
  <2> QED
    BY <1>3, <2>1
<1> QED
  BY <1>1, <1>2, <1>3, <1>9

-----------------------------------------------------------------------------
\* The order in which chunks are merged.
BeforeIn(lists, T) == {p \in T \X T : Before(lists, p[1], p[2])}

LEMMA BeforeOrders ==
  ASSUME NEW lists \in Seq(HitLists), NEW T, T \subseteq Chunks
  PROVE  /\ IsFiniteSet(T) /\ StrictlyOrders(BeforeIn(lists, T), T)
         /\ \A a, b \in T : <<a, b>> \in BeforeIn(lists, T) <=> Before(lists, a, b)
<1>1. IsFiniteSet(T)
  BY FS_Subset, RrfAssumption
<1>2. \A a, b \in T : <<a, b>> \in BeforeIn(lists, T) <=> Before(lists, a, b)
  BY DEF BeforeIn
<1>3. \A a \in T : a \in Nat /\ Rrf(lists, a) \in Nat
  BY RrfOfFew, RrfAssumption
<1>4. \A a \in T : ~Before(lists, a, a)
  BY <1>3 DEF Before
<1>5. \A a, b \in T : a # b => Before(lists, a, b) \/ Before(lists, b, a)
  BY <1>3 DEF Before
<1>6. \A a, b, c \in T : Before(lists, a, b) /\ Before(lists, b, c) => Before(lists, a, c)
  BY <1>3 DEF Before
<1> QED
  BY <1>1, <1>2, <1>4, <1>5, <1>6 DEF StrictlyOrders

\* The chunks are sorted by that order.
LEMMA SortedIs ==
  ASSUME NEW lists \in Seq(HitLists), NEW T, T \subseteq Chunks,
         NEW q, ListsBy(q, T, BeforeIn(lists, T))
  PROVE  Sorted(lists, T) = q
<1> DEFINE R == BeforeIn(lists, T)
           n == Cardinality(T)
<1>1. IsFiniteSet(T) /\ StrictlyOrders(R, T) /\ \A a, b \in T : <<a, b>> \in R <=> Before(lists, a, b)
  BY BeforeOrders
<1>2. q \in [1..n -> T]
  BY DEF ListsBy
<1> HIDE DEF R
<1>3. ASSUME NEW k \in 1..n
      PROVE  (CHOOSE a \in T : PlaceOf(lists, T, a) = k) = q[k]
  <2>1. ASSUME NEW a \in T
        PROVE  (PlaceOf(lists, T, a) = k) <=> (a = q[k])
    <3>1. {b \in T : Before(lists, b, a)} = {b \in T : <<b, a>> \in R}
      BY <1>1
    <3>2. PlaceOf(lists, T, a) = 1 + Cardinality({b \in T : <<b, a>> \in R})
      BY <3>1 DEF PlaceOf
    <3>3. (1 + Cardinality({b \in T : <<b, a>> \in R}) = k) <=> (a = q[k])
      BY <1>1, PlacesCount DEF R
    <3> QED
      BY <3>2, <3>3
  <2>2. q[k] \in T
    BY <1>2
  <2> QED
    BY <2>1, <2>2
<1>4. Sorted(lists, T) = [k \in 1..n |-> q[k]]
  BY <1>3 DEF Sorted
<1> QED
  BY <1>2, <1>4

LEMMA SortedLists ==
  ASSUME NEW lists \in Seq(HitLists), NEW T, T \subseteq Chunks
  PROVE  ListsBy(Sorted(lists, T), T, BeforeIn(lists, T))
<1>1. PICK q : ListsBy(q, T, BeforeIn(lists, T))
  BY BeforeOrders, ListingExists
<1>2. Sorted(lists, T) = q
  BY <1>1, SortedIs
<1> QED
  BY <1>1, <1>2

\* A chunk has the best score of the lists that have it.
LEMMA BestScoreIs ==
  ASSUME NEW lists \in Seq(HitLists), NEW w \in 1..Len(lists), NEW a \in Ids(lists[w])
  PROVE  /\ BestScore(lists, a) \in Int
         /\ \A k \in 1..Len(lists) : a \in Ids(lists[k]) => HitOf(lists[k], a).score <= BestScore(lists, a)
         /\ \E k \in 1..Len(lists) : a \in Ids(lists[k]) /\ HitOf(lists[k], a).score = BestScore(lists, a)
<1> DEFINE n == Len(lists)
           W == {m \in DOMAIN lists : a \in Ids(lists[m])}
           score(k) == HitOf(lists[k], a).score
           S == {score(k) : k \in W}
           f == [k \in 1..n |-> IF k \in W THEN score(k) ELSE score(w)]
<1>1. n \in Nat /\ DOMAIN lists = 1..n /\ n > 0 /\ w \in W
  BY LenProperties
<1>2. \A k \in 1..n : k \in W <=> a \in Ids(lists[k])
  BY <1>1
<1>3. ASSUME NEW k \in W
      PROVE  score(k) \in Int
  <2>1. lists[k] \in HitLists /\ a \in Ids(lists[k])
    BY <1>1, ElementOfSeq
  <2>2. RankOf(lists[k], a) \in 1..Len(lists[k])
    BY <2>1, RankIs
  <2> QED
    BY <2>1, <2>2, RankIs DEF HitOf
<1>4. BestScore(lists, a) = Max(S)
  BY DEF BestScore
<1> HIDE DEF score, n
<1>5. f \in [1..n -> Int]
  BY <1>1, <1>3
<1>6. PICK i \in 1..n : \A j \in 1..n : f[j] <= f[i]
  BY <1>1, <1>5, GreatestOf
<1>7. W \subseteq 1..n
  BY <1>1
<1> HIDE DEF W
<1>8. \E k \in W : f[i] = score(k)
  BY <1>1
<1>9. \A k \in W : f[k] = score(k)
  BY <1>7
<1> HIDE DEF f
<1>10. PICK best \in W : \A k \in W : score(k) <= score(best)
  BY <1>6, <1>7, <1>8, <1>9
<1>11. Max(S) = score(best)
  <2>1. score(best) \in S /\ (\A y \in S : score(best) >= y) /\ \A y \in S : y \in Int
    BY <1>3, <1>10
  <2> HIDE DEF S
  <2>2. \A x \in S : (\A y \in S : x >= y) => x = score(best)
    BY <1>3, <1>10, <2>1
  <2> QED
    BY <2>1, <2>2 DEF Max
<1> QED
  BY <1>1, <1>2, <1>3, <1>4, <1>7, <1>10, <1>11 DEF score, n

\* The chunks that some list has.
AllIds(lists) == UNION {Ids(lists[n]) : n \in DOMAIN lists}

LEMMA AllIdsAre ==
  ASSUME NEW lists \in Seq(HitLists)
  PROVE  /\ AllIds(lists) \subseteq Chunks /\ IsFiniteSet(AllIds(lists))
         /\ Cardinality(AllIds(lists)) \in Nat
         /\ \A a : a \in AllIds(lists) <=> \E k \in 1..Len(lists) : a \in Ids(lists[k])
<1>1. DOMAIN lists = 1..Len(lists) /\ \A k \in 1..Len(lists) : lists[k] \in HitLists
  BY LenProperties, ElementOfSeq
<1>2. \A k \in 1..Len(lists) : Ids(lists[k]) \subseteq Chunks
  BY <1>1, IdsCount
<1>3. \A a : a \in AllIds(lists) <=> \E k \in 1..Len(lists) : a \in Ids(lists[k])
  BY <1>1 DEF AllIds
<1>4. AllIds(lists) \subseteq Chunks
  BY <1>2, <1>3
<1>5. IsFiniteSet(AllIds(lists))
  BY <1>4, FS_Subset, RrfAssumption
<1> QED
  BY <1>3, <1>4, <1>5, FS_CardinalityType

\* The merged list m has the chunks of the lists in their order, cut off at
\* topK, each with its best score.
MergesTo(m, lists, topK) ==
  /\ m \in HitLists
  /\ Len(m) = IF Cardinality(AllIds(lists)) > topK THEN topK ELSE Cardinality(AllIds(lists))
  /\ \A i \in 1..Len(m) : m[i].id = Sorted(lists, AllIds(lists))[i]
                          /\ m[i].score = BestScore(lists, m[i].id)

LEMMA MergeIs ==
  ASSUME NEW lists \in Seq(HitLists), NEW topK \in Nat \ {0}
  PROVE  MergesTo(rrfMerge(topK, lists), lists, topK)
<1> DEFINE T == AllIds(lists)
           n == Cardinality(T)
           o == Sorted(lists, T)
           kept == IF topK > 0 /\ Len(o) > topK THEN SubSeq(o, 1, topK) ELSE o
           m == rrfMerge(topK, lists)
           c == IF n > topK THEN topK ELSE n
<1>1. T \subseteq Chunks /\ n \in Nat /\ \A a : a \in T <=> \E k \in 1..Len(lists) : a \in Ids(lists[k])
  BY AllIdsAre
<1>2. ListsBy(o, T, BeforeIn(lists, T)) /\ StrictlyOrders(BeforeIn(lists, T), T)
  BY <1>1, SortedLists, BeforeOrders
<1>3. m = [i \in DOMAIN kept |-> [id |-> kept[i], score |-> BestScore(lists, kept[i])]]
  BY DEF rrfMerge, AllIds
<1> HIDE DEF T, o, m
<1>4. o \in [1..n -> T] /\ \A i, j \in 1..n : i < j => <<o[i], o[j]>> \in BeforeIn(lists, T)
  BY <1>2 DEF ListsBy
<1> HIDE DEF n
<1>5. o \in Seq(T) /\ Len(o) = n
  BY <1>1, <1>4
<1>6. c \in Nat /\ c <= n
  BY <1>1
<1>7. kept \in Seq(T) /\ Len(kept) = c /\ \A i \in 1..c : kept[i] = o[i] /\ i \in 1..n
  <2>1. CASE n > topK
    <3>1. \A i \in 1..topK : o[i] \in T /\ i \in 1..n
      BY <1>1, <1>4, <2>1
    <3>2. kept = SubSeq(o, 1, topK) /\ c = topK
      BY <1>5, <2>1
    <3> HIDE DEF kept, c
    <3>3. 1 \in Int /\ topK \in Int /\ topK - 1 + 1 = topK /\ 1 <= topK
      OBVIOUS
    <3>4. /\ SubSeq(o, 1, topK) \in Seq(T) /\ Len(SubSeq(o, 1, topK)) = topK
          /\ \A i \in 1..topK : SubSeq(o, 1, topK)[i] = o[1 + i - 1]
      BY <3>1, <3>3, SubSeqProperties
    <3>5. \A i \in 1..topK : 1 + i - 1 = i
      OBVIOUS
    <3> QED
      BY <3>1, <3>2, <3>4, <3>5
  <2>2. CASE ~(n > topK)
    BY <1>1, <1>5, <2>2
  <2> QED
    BY <2>1, <2>2
<1> HIDE DEF kept, c
<1>8. DOMAIN kept = 1..c /\ \A i \in 1..c : kept[i] \in T
  BY <1>4, <1>7, LenProperties
<1>9. ASSUME NEW a \in T
      PROVE  BestScore(lists, a) \in Int
  BY <1>1, BestScoreIs
<1>10. m \in [1..c -> Hit] /\ \A i \in 1..c : m[i].id = o[i] /\ m[i].score = BestScore(lists, m[i].id)
  <2>1. \A i \in 1..c : [id |-> kept[i], score |-> BestScore(lists, kept[i])] \in Hit
    BY <1>1, <1>8, <1>9 DEF Hit
  <2> QED
    BY <1>3, <1>7, <1>8, <2>1
<1>11. m \in Seq(Hit) /\ Len(m) = c
  BY <1>6, <1>10
<1>12. ASSUME NEW i \in 1..c, NEW j \in 1..c, m[i].id = m[j].id
       PROVE  i = j
  <2>1. i \in 1..n /\ j \in 1..n /\ o[i] = o[j] /\ o[i] \in T
    BY <1>4, <1>7, <1>10, <1>12
  <2>2. ~(i < j) /\ ~(j < i)
    BY <1>2, <1>4, <2>1 DEF StrictlyOrders
  <2> QED
    BY <1>6, <2>2
<1>13. m \in HitLists
  BY <1>11, <1>12 DEF HitLists
<1> QED
  BY <1>10, <1>11, <1>13 DEF MergesTo, m, o, n, T, c

\* What a merged list has, and in which order.
LEMMA MergeOrder ==
  ASSUME NEW lists \in Seq(HitLists), NEW topK \in Nat \ {0}, NEW m, MergesTo(m, lists, topK)
  PROVE  /\ Ids(m) \subseteq AllIds(lists)
         /\ \A a \in AllIds(lists), b \in Ids(m) : Before(lists, a, b) =>
              a \in Ids(m) /\ RankOf(m, a) < RankOf(m, b)
<1> DEFINE T == AllIds(lists)
           n == Cardinality(T)
           o == Sorted(lists, T)
<1>1. T \subseteq Chunks /\ n \in Nat
  BY AllIdsAre
<1>2. ListsBy(o, T, BeforeIn(lists, T)) /\ StrictlyOrders(BeforeIn(lists, T), T)
      /\ \A a, b \in T : <<a, b>> \in BeforeIn(lists, T) <=> Before(lists, a, b)
  BY <1>1, SortedLists, BeforeOrders
<1>3. /\ m \in HitLists /\ Len(m) = (IF n > topK THEN topK ELSE n)
      /\ \A i \in 1..Len(m) : m[i].id = o[i]
  BY DEF MergesTo
<1> HIDE DEF T, o
<1>4. /\ o \in [1..n -> T] /\ \A i, j \in 1..n : i < j => <<o[i], o[j]>> \in BeforeIn(lists, T)
      /\ \A x \in T : \E i \in 1..n : o[i] = x
  BY <1>2 DEF ListsBy
<1> HIDE DEF n
<1>5. Len(m) \in Nat /\ Len(m) <= n /\ \A i \in 1..Len(m) : i \in 1..n
  BY <1>1, <1>3
<1>6. /\ \A i \in 1..Len(m) : RankOf(m, m[i].id) = i
      /\ \A a : a \in Ids(m) <=> \E i \in 1..Len(m) : m[i].id = a
  BY <1>3, RankIs
<1>7. Ids(m) \subseteq T
  BY <1>3, <1>4, <1>5, <1>6
<1>8. ASSUME NEW a \in T, NEW b \in Ids(m), Before(lists, a, b)
      PROVE  a \in Ids(m) /\ RankOf(m, a) < RankOf(m, b)
  <2>1. PICK j \in 1..Len(m) : m[j].id = b
    BY <1>6
  <2>2. PICK i \in 1..n : o[i] = a
    BY <1>4
  <2>3. j \in 1..n /\ o[j] = b /\ b \in T
    BY <1>3, <1>5, <1>7, <2>1
  <2>4. <<a, b>> \in BeforeIn(lists, T)
    BY <1>2, <1>8, <2>3
  <2>5. ~(j < i) /\ i # j
    <3>1. <<b, a>> \notin BeforeIn(lists, T) /\ a # b
      BY <1>2, <2>3, <2>4 DEF StrictlyOrders
    <3> QED
      BY <1>4, <2>2, <2>3, <3>1
  <2>6. i < j /\ i \in 1..Len(m)
    BY <1>1, <1>5, <2>1, <2>5
  <2>7. m[i].id = a
    BY <1>3, <2>2, <2>6
  <2> QED
    BY <1>6, <2>1, <2>6, <2>7
<1> QED
  BY <1>7, <1>8 DEF T

\* Merging contradicts no order that all lists agree on.
LEMMA MergeRespects ==
  ASSUME NEW lists \in Seq(HitLists), NEW topK \in Nat \ {0}, NEW m, MergesTo(m, lists, topK),
         NEW a, NEW b, \A k \in 1..Len(lists) : AtLeast(lists[k], a, b)
  PROVE  AtLeast(m, a, b)
<1> SUFFICES ASSUME b \in Ids(m)
             PROVE  a \in Ids(m) /\ RankOf(m, a) < RankOf(m, b)
  BY DEF AtLeast
<1>1. b \in AllIds(lists)
  BY MergeOrder
<1>2. PICK w \in 1..Len(lists) : b \in Ids(lists[w])
  BY <1>1, AllIdsAre
<1>3. a \in AllIds(lists)
  BY <1>2, AllIdsAre DEF AtLeast
<1>4. Before(lists, a, b)
  BY <1>2, RrfRespects DEF Before
<1> QED
  BY <1>3, <1>4, MergeOrder

\* One ranking merged alone is itself: what two routes gave a query is merged
\* again with the other queries, and nothing changes when there is no other.
LEMMA MergeOne ==
  ASSUME NEW l \in HitLists, NEW topK \in Nat \ {0}, Len(l) <= topK
  PROVE  rrfMerge(topK, <<l>>) = l
<1> DEFINE lists == <<l>>
           T == AllIds(lists)
           n == Len(l)
           q == [i \in 1..n |-> l[i].id]
           m == rrfMerge(topK, lists)
<1>1. lists \in Seq(HitLists) /\ Len(lists) = 1 /\ lists[1] = l
  OBVIOUS
<1> HIDE DEF lists
<1>2. n \in Nat /\ Cardinality(Chunks) \in Nat
  BY RankIs, FS_CardinalityType, RrfAssumption
<1>3. T = Ids(l) /\ T \subseteq Chunks
  <2>1. \A a : a \in T <=> \E k \in 1..1 : a \in Ids(lists[k])
    BY <1>1, AllIdsAre
  <2>2. 1 \in 1..1 /\ \A k \in 1..1 : k = 1
    OBVIOUS
  <2>3. \A a : a \in T <=> a \in Ids(l)
    BY <1>1, <2>1, <2>2
  <2> HIDE DEF T
  <2>4. T = Ids(l)
    BY <2>3
  <2> QED
    BY <2>4, IdsCount
<1>4. Cardinality(T) = n /\ n <= Cardinality(Chunks)
  BY <1>3, IdsCount
<1>5. /\ \A i \in 1..n : l[i].id \in T /\ l[i].id \in Ids(l) /\ RankOf(l, l[i].id) = i /\ l[i] \in Hit
      /\ \A a \in T : \E i \in 1..n : l[i].id = a
  BY <1>3, RankIs
<1> HIDE DEF n, T
<1>6. ASSUME NEW i \in 1..n, NEW j \in 1..n, i < j
      PROVE  <<l[i].id, l[j].id>> \in BeforeIn(lists, T)
  <2>1. i \in 1..Cardinality(Chunks) /\ j \in 1..Cardinality(Chunks)
    BY <1>2, <1>4
  <2>2. Share(j) < Share(i)
    BY <1>6, <2>1, ShareFalls
  <2>3. Rrf(lists, l[i].id) = Share(i)
    BY <1>1, <1>5, RrfOfFew, PointsAre
  <2>4. Rrf(lists, l[j].id) = Share(j)
    BY <1>1, <1>5, RrfOfFew, PointsAre
  <2>5. Before(lists, l[i].id, l[j].id)
    BY <2>2, <2>3, <2>4 DEF Before
  <2> QED
    BY <1>5, <2>5 DEF BeforeIn
<1>7. ListsBy(q, T, BeforeIn(lists, T))
  <2>1. q \in [1..n -> T] /\ \A i \in 1..n : q[i] = l[i].id
    BY <1>5
  <2> HIDE DEF q
  <2>2. \A i, j \in 1..n : i < j => <<q[i], q[j]>> \in BeforeIn(lists, T)
    BY <1>6, <2>1
  <2>3. \A x \in T : \E i \in 1..n : q[i] = x
    BY <1>5, <2>1
  <2> QED
    BY <1>4, <2>1, <2>2, <2>3 DEF ListsBy
<1>8. Sorted(lists, T) = q
  BY <1>1, <1>3, <1>7, SortedIs
<1>9. /\ m \in HitLists /\ Len(m) = n
      /\ \A i \in 1..n : m[i].id = l[i].id /\ m[i].score = BestScore(lists, l[i].id)
  <2>1. MergesTo(m, lists, topK)
    BY <1>1, MergeIs
  <2> HIDE DEF m
  <2>2. m \in HitLists /\ Len(m) = IF n > topK THEN topK ELSE n
    BY <1>4, <2>1 DEF MergesTo, T
  <2>3. Len(m) = n
    BY <1>2, <2>2 DEF n
  <2>4. \A i \in 1..n : m[i].id = q[i] /\ m[i].score = BestScore(lists, m[i].id)
    BY <1>8, <2>1, <2>3 DEF MergesTo, T
  <2> QED
    BY <2>2, <2>3, <2>4
<1>10. ASSUME NEW i \in 1..n
       PROVE  m[i] = l[i]
  <2>1. 1 \in 1..Len(lists) /\ \A k \in 1..Len(lists) : k = 1
    BY <1>1
  <2>2. l[i].id \in Ids(lists[1]) /\ HitOf(l, l[i].id) = l[i]
    BY <1>1, <1>5 DEF HitOf
  <2>3. BestScore(lists, l[i].id) = l[i].score
    BY <1>1, <2>1, <2>2, BestScoreIs
  <2>4. m[i] \in Hit /\ l[i] \in Hit
    BY <1>5, <1>9, RankIs
  <2>5. m[i].id = l[i].id /\ m[i].score = l[i].score
    BY <1>9, <2>3
  <2> QED
    BY <2>4, <2>5 DEF Hit
<1>11. m \in Seq(Hit) /\ l \in Seq(Hit) /\ Len(m) = Len(l)
  BY <1>9 DEF HitLists, n
<1> HIDE DEF m
<1>12. m = l
  BY <1>10, <1>11, SeqEqual DEF n
<1> QED
  BY <1>12 DEF m, lists

\* A prefix of a list of hits is one.
LEMMA PrefixIs ==
  ASSUME NEW l \in HitLists, NEW k \in 0..Len(l)
  PROVE  SubSeq(l, 1, k) \in HitLists /\ Len(SubSeq(l, 1, k)) = k
<1> DEFINE n == Len(l)
           p == SubSeq(l, 1, k)
<1>1. n \in Nat /\ l \in Seq(Hit) /\ \A i \in 1..n : l[i] \in Hit
  BY RankIs
<1>2. \A i, j \in 1..n : l[i].id = l[j].id => i = j
  BY DEF HitLists
<1> HIDE DEF n
<1>3. k \in Nat /\ k \in Int /\ 1 \in Int /\ \A i \in 1..k : i \in 1..n
  BY <1>1 DEF n
<1>4. \A i \in 1..k : l[i] \in Hit
  BY <1>1, <1>3
<1>5. /\ p \in Seq(Hit) /\ Len(p) = (IF 1 <= k THEN k - 1 + 1 ELSE 0)
      /\ \A i \in 1..(k - 1 + 1) : p[i] = l[1 + i - 1]
  BY <1>3, <1>4, SubSeqProperties
<1> HIDE DEF p
<1>6. Len(p) = k
  BY <1>3, <1>5
<1>7. \A i \in 1..k : p[i] = l[i]
  <2>1. k - 1 + 1 = k /\ \A i \in 1..k : 1 + i - 1 = i
    BY <1>3
  <2> QED
    BY <1>5, <2>1
<1>8. \A i, j \in 1..Len(p) : p[i].id = p[j].id => i = j
  BY <1>2, <1>3, <1>6, <1>7
<1> QED
  BY <1>5, <1>6, <1>8 DEF HitLists, p

LEMMA LimitIs ==
  ASSUME NEW l \in HitLists, NEW topK \in Nat \ {0}
  PROVE  Limit(l, topK) \in HitLists /\ Len(Limit(l, topK)) \in Nat /\ Len(Limit(l, topK)) <= topK
<1>1. Len(l) \in Nat
  BY RankIs
<1>2. CASE Len(l) > topK
  BY <1>1, <1>2, PrefixIs DEF Limit
<1>3. CASE ~(Len(l) > topK)
  BY <1>1, <1>3 DEF Limit
<1> QED
  BY <1>2, <1>3

\* What the vector search returns is a list of hits within the limit.
LEMMA VectorIs ==
  ASSUME NEW l \in HitLists, NEW topK \in Nat \ {0}, NEW floor
  PROVE  /\ SearchByVector(l, topK, floor) \in HitLists
         /\ Len(SearchByVector(l, topK, floor)) \in Nat
         /\ Len(SearchByVector(l, topK, floor)) <= topK
<1> DEFINE h == Limit(l, topK)
           S == {i \in DOMAIN h : floor > 0 => h[i].score >= floor}
           k == Cardinality(S)
<1>1. h \in HitLists /\ Len(h) \in Nat /\ Len(h) <= topK
  BY LimitIs
<1>2. DOMAIN h = 1..Len(h)
  BY <1>1, RankIs
<1>3. SearchByVector(l, topK, floor) = SubSeq(h, 1, k)
  BY DEF SearchByVector
<1> HIDE DEF h
<1>4. S \in SUBSET (1..Len(h))
  BY <1>2
<1> HIDE DEF S
<1>5. IsFiniteSet(1..Len(h)) /\ Cardinality(1..Len(h)) = Len(h)
  <2>1. /\ IsFiniteSet(1..Len(h))
        /\ Cardinality(1..Len(h)) = IF 1 > Len(h) THEN 0 ELSE Len(h) - 1 + 1
    <3> DEFINE b == Len(h)
    <3>1. 1 \in Int /\ b \in Int
      BY <1>1
    <3> HIDE DEF b
    <3>2. IsFiniteSet(1..b) /\ Cardinality(1..b) = (IF 1 > b THEN 0 ELSE b - 1 + 1)
      BY ONLY <3>1, FS_Interval
    <3> QED
      BY <3>2 DEF b
  <2> QED
    BY <1>1, <2>1
<1>6. k \in Nat /\ k <= Len(h)
  <2>1. IsFiniteSet(S) /\ Cardinality(S) <= Len(h)
    BY <1>4, <1>5, FS_Subset
  <2> QED
    BY <2>1, FS_CardinalityType
<1> HIDE DEF k
<1>7. k \in 0..Len(h)
  BY <1>1, <1>6
<1>8. SubSeq(h, 1, k) \in HitLists /\ Len(SubSeq(h, 1, k)) = k
  BY <1>1, <1>7, PrefixIs
<1> QED
  BY <1>1, <1>3, <1>6, <1>8

LEMMA RankingIs ==
  ASSUME NEW l \in Ranking
  PROVE  l \in HitLists
<1>1. l \in Seq(Hit) /\ Len(l) \in Nat /\ DOMAIN l = 1..Len(l)
  BY LenProperties DEF Ranking
<1>2. ASSUME NEW i \in 1..Len(l), NEW j \in 1..Len(l), l[i].id = l[j].id
      PROVE  i = j
  <2>1. ~(i < j) /\ ~(j < i)
    BY <1>1, <1>2 DEF Ranking
  <2> QED
    BY <1>1, <2>1
<1> QED
  BY <1>1, <1>2 DEF HitLists

LEMMA TopKIs ==
  ASSUME NEW k \in Int
  PROVE  TopK(k) \in Nat \ {0} /\ TopK(k) <= MaxTopK
<1>1. DefaultTopK \in Nat \ {0} /\ MaxTopK \in Nat \ {0}
  BY RrfAssumption
<1> QED
  BY <1>1 DEF TopK

\* The two rankings of a query that does not fail.
VectorHits(q, topK, floor) == SearchByVector(q.vector, topK, floor)
TextHits(q, topK) == SearchByFullText(q.text, topK)

\* What one query brings is a list of hits within the limit: its vector hits
\* alone, or the two routes merged.
LEMMA OneQueryIs ==
  ASSUME NEW q \in SearchQuery, NEW topK \in Nat \ {0}, NEW floor
  PROVE  /\ OneQuery(q, topK, floor) \in HitLists
         /\ Len(OneQuery(q, topK, floor)) \in Nat /\ Len(OneQuery(q, topK, floor)) <= topK
         /\ VectorHits(q, topK, floor) \in HitLists /\ Len(VectorHits(q, topK, floor)) <= topK
         /\ TextHits(q, topK) \in HitLists /\ Len(TextHits(q, topK)) <= topK
         /\ q.textFails => OneQuery(q, topK, floor) = VectorHits(q, topK, floor)
         /\ ~q.textFails =>
              MergesTo(OneQuery(q, topK, floor), <<VectorHits(q, topK, floor), TextHits(q, topK)>>, topK)
<1> DEFINE v == VectorHits(q, topK, floor)
           t == TextHits(q, topK)
           o == OneQuery(q, topK, floor)
<1>1. q.vector \in HitLists /\ q.text \in HitLists
  BY RankingIs DEF SearchQuery
<1>2. v \in HitLists /\ Len(v) \in Nat /\ Len(v) <= topK
  BY <1>1, VectorIs DEF VectorHits
<1>3. t \in HitLists /\ Len(t) \in Nat /\ Len(t) <= topK
  BY <1>1, LimitIs DEF TextHits, SearchByFullText
<1>4. o = IF q.textFails THEN v ELSE rrfMerge(topK, <<v, t>>)
  BY DEF OneQuery, Degraded, VectorHits, TextHits
<1> HIDE DEF v, t, o
<1>5. CASE q.textFails
  BY <1>2, <1>3, <1>4, <1>5 DEF v, t, o
<1>6. CASE ~q.textFails
  <2>1. <<v, t>> \in Seq(HitLists)
    BY <1>2, <1>3
  <2>2. MergesTo(o, <<v, t>>, topK)
    BY <1>4, <1>6, <2>1, MergeIs
  <2>3. o \in HitLists /\ Len(o) <= topK
    <3>1. o \in HitLists /\ Len(o) = IF Cardinality(AllIds(<<v, t>>)) > topK THEN topK ELSE Cardinality(AllIds(<<v, t>>))
      BY <2>2 DEF MergesTo
    <3>2. Cardinality(AllIds(<<v, t>>)) \in Nat
      BY <2>1, AllIdsAre
    <3> QED
      BY <3>1, <3>2
  <2>4. Len(o) \in Nat
    BY <2>3, RankIs
  <2> QED
    BY <1>2, <1>3, <1>6, <2>2, <2>3, <2>4 DEF v, t, o
<1> QED
  BY <1>5, <1>6

\* What the routes of a query brought.
BroughtBy(in, i) ==
  LET q == in.queries[i]
      v == VectorHits(q, TopK(in.topK), in.minScore)
  IN  IF q.textFails THEN {v} ELSE {v, TextHits(q, TopK(in.topK))}
RoutesOf(in) == UNION {BroughtBy(in, i) : i \in DOMAIN in.queries}

\* What the queries brought, one list each.
ListsOf(in) == [i \in DOMAIN in.queries |-> OneQuery(in.queries[i], TopK(in.topK), in.minScore)]

LEMMA RoutesAre == Routes = RoutesOf(call.in)
  BY DEF Routes, Brought, RoutesOf, BroughtBy, VectorHits, TextHits

\* A search that answers merges what its queries brought.
LEMMA SearchIs ==
  ASSUME NEW in \in SearchInputs, SearchQueries(in).ok
  PROVE  /\ DOMAIN in.queries = 1..Len(in.queries) /\ Len(in.queries) \in Nat \ {0}
         /\ \A i \in 1..Len(in.queries) : in.queries[i] \in SearchQuery
         /\ TopK(in.topK) \in Nat \ {0} /\ TopK(in.topK) <= MaxTopK
         /\ ListsOf(in) \in Seq(HitLists) /\ Len(ListsOf(in)) = Len(in.queries)
         /\ SearchQueries(in).hits = rrfMerge(TopK(in.topK), ListsOf(in))
         /\ MergesTo(SearchQueries(in).hits, ListsOf(in), TopK(in.topK))
<1> DEFINE k == TopK(in.topK)
           qs == in.queries
           n == Len(qs)
           ls == ListsOf(in)
<1>1. qs \in Seq(SearchQuery) /\ in.topK \in Int
  BY SearchAssumption
<1>2. k \in Nat \ {0} /\ k <= MaxTopK
  BY <1>1, TopKIs
<1>3. n \in Nat /\ DOMAIN qs = 1..n /\ \A i \in 1..n : qs[i] \in SearchQuery
  BY <1>1, LenProperties, ElementOfSeq
<1>4. qs # <<>> /\ SearchQueries(in).hits = rrfMerge(k, ls)
  BY DEF SearchQueries, ListsOf
<1>5. n # 0
  BY <1>1, <1>4, EmptySeq
<1>6. ls = [i \in 1..n |-> OneQuery(qs[i], k, in.minScore)]
  BY <1>3 DEF ListsOf
<1> HIDE DEF k, n, qs, ls
<1>7. \A i \in 1..n : OneQuery(qs[i], k, in.minScore) \in HitLists
  BY <1>2, <1>3, OneQueryIs
<1>8. ls \in [1..n -> HitLists]
  BY <1>6, <1>7
<1>9. ls \in Seq(HitLists) /\ Len(ls) = n
  BY <1>3, <1>8
<1>10. MergesTo(rrfMerge(k, ls), ls, k)
  BY <1>2, <1>9, MergeIs
<1> QED
  BY <1>2, <1>3, <1>4, <1>5, <1>9, <1>10 DEF k, n, qs, ls

\* With a single query, what it brought is what the search returns.
LEMMA SingleQuery ==
  ASSUME NEW in \in SearchInputs, SearchQueries(in).ok, Len(in.queries) = 1
  PROVE  /\ SearchQueries(in).hits = OneQuery(in.queries[1], TopK(in.topK), in.minScore)
         /\ RoutesOf(in) = BroughtBy(in, 1)
         /\ in.queries[1] \in SearchQuery
<1> DEFINE k == TopK(in.topK)
           o == OneQuery(in.queries[1], k, in.minScore)
<1>1. /\ DOMAIN in.queries = 1..1 /\ in.queries[1] \in SearchQuery
      /\ k \in Nat \ {0}
      /\ SearchQueries(in).hits = rrfMerge(k, ListsOf(in))
      /\ ListsOf(in) \in Seq(HitLists) /\ Len(ListsOf(in)) = 1
  BY SearchIs
<1>2. 1..1 = {1}
  OBVIOUS
<1>3. RoutesOf(in) = BroughtBy(in, 1)
  BY <1>1, <1>2 DEF RoutesOf
<1> HIDE DEF k
<1>4. o \in HitLists /\ Len(o) <= k
  BY <1>1, OneQueryIs
<1>5. ListsOf(in)[1] = o
  BY <1>1, <1>2 DEF ListsOf, k
<1> HIDE DEF o
<1>6. ListsOf(in) = <<o>>
  BY <1>1, <1>4, <1>5
<1>7. rrfMerge(k, <<o>>) = o
  BY <1>1, <1>4, MergeOne
<1> QED
  BY <1>1, <1>3, <1>6, <1>7 DEF o, k

\* The lists of a pair.
LEMMA PairIs ==
  ASSUME NEW v \in HitLists, NEW t \in HitLists
  PROVE  /\ <<v, t>> \in Seq(HitLists) /\ Len(<<v, t>>) = 2
         /\ <<v, t>>[1] = v /\ <<v, t>>[2] = t
         /\ \A k : k \in 1..Len(<<v, t>>) <=> (k = 1 \/ k = 2)
         /\ AllIds(<<v, t>>) = Ids(v) \cup Ids(t)
         /\ \A a : Rrf(<<v, t>>, a) = Points(v, a) + Points(t, a)
<1> DEFINE p == <<v, t>>
<1>1. p \in Seq(HitLists) /\ Len(p) = 2 /\ p[1] = v /\ p[2] = t
  OBVIOUS
<1> HIDE DEF p
<1>2. \A k : k \in 1..Len(p) <=> (k = 1 \/ k = 2)
  BY <1>1
<1>3. AllIds(p) = Ids(v) \cup Ids(t)
  <2>1. \A a : a \in AllIds(p) <=> \E k \in 1..Len(p) : a \in Ids(p[k])
    BY <1>1, AllIdsAre
  <2>2. \A a : a \in AllIds(p) <=> a \in Ids(v) \/ a \in Ids(t)
    BY <1>1, <1>2, <2>1
  <2> QED
    BY <2>2
<1>4. \A a : Rrf(p, a) = Points(v, a) + Points(t, a)
  BY <1>1, RrfOfFew
<1> QED
  BY <1>1, <1>2, <1>3, <1>4 DEF p

\* One query contradicts no order that its routes agree on.
LEMMA QueryRespects ==
  ASSUME NEW in \in SearchInputs, SearchQueries(in).ok, NEW i \in 1..Len(in.queries), NEW a, NEW b,
         \A list \in BroughtBy(in, i) : AtLeast(list, a, b)
  PROVE  AtLeast(OneQuery(in.queries[i], TopK(in.topK), in.minScore), a, b)
<1> DEFINE k == TopK(in.topK)
           q == in.queries[i]
           v == VectorHits(q, k, in.minScore)
           t == TextHits(q, k)
           o == OneQuery(q, k, in.minScore)
<1>1. q \in SearchQuery /\ k \in Nat \ {0}
  BY SearchIs
<1>2. BroughtBy(in, i) = IF q.textFails THEN {v} ELSE {v, t}
  BY DEF BroughtBy
<1> HIDE DEF q, k
<1>3. /\ v \in HitLists /\ t \in HitLists
      /\ q.textFails => o = v
      /\ ~q.textFails => MergesTo(o, <<v, t>>, k)
  BY <1>1, OneQueryIs
<1> HIDE DEF v, t, o
<1>4. CASE q.textFails
  BY <1>2, <1>3, <1>4 DEF o, q, k
<1>5. CASE ~q.textFails
  <2>1. AtLeast(v, a, b) /\ AtLeast(t, a, b)
    BY <1>2, <1>5
  <2>2. <<v, t>> \in Seq(HitLists) /\ \A w \in 1..Len(<<v, t>>) : AtLeast(<<v, t>>[w], a, b)
    BY <1>3, <2>1, PairIs
  <2>3. AtLeast(o, a, b)
    BY <1>1, <1>3, <1>5, <2>2, MergeRespects
  <2> QED
    BY <2>3 DEF o, q, k
<1> QED
  BY <1>4, <1>5

LEMMA SearchRespects ==
  ASSUME NEW in \in SearchInputs, SearchQueries(in).ok, NEW a, NEW b,
         \A list \in RoutesOf(in) : AtLeast(list, a, b)
  PROVE  AtLeast(SearchQueries(in).hits, a, b)
<1> DEFINE n == Len(in.queries)
           ls == ListsOf(in)
<1>1. /\ DOMAIN in.queries = 1..n /\ TopK(in.topK) \in Nat \ {0}
      /\ ls \in Seq(HitLists) /\ Len(ls) = n
      /\ MergesTo(SearchQueries(in).hits, ls, TopK(in.topK))
  BY SearchIs
<1>2. ASSUME NEW i \in 1..n
      PROVE  AtLeast(ls[i], a, b)
  <2>1. \A list \in BroughtBy(in, i) : AtLeast(list, a, b)
    BY <1>1 DEF RoutesOf
  <2>2. ls[i] = OneQuery(in.queries[i], TopK(in.topK), in.minScore)
    BY <1>1 DEF ListsOf
  <2> QED
    BY <2>1, <2>2, QueryRespects
<1> HIDE DEF ls, n
<1> QED
  BY <1>1, <1>2, MergeRespects

\* A chunk in both lists of a pair is before one that is in one of them only.
LEMMA BothBeforeOne ==
  ASSUME NEW v \in HitLists, NEW t \in HitLists, Len(v) <= MaxTopK, Len(t) <= MaxTopK,
         NEW a, NEW b, a \in Ids(v), a \in Ids(t), b \notin Ids(v) \/ b \notin Ids(t)
  PROVE  Before(<<v, t>>, a, b)
<1> DEFINE n == Cardinality(Chunks)
           r == RankOf(v, a)
           s == RankOf(t, a)
<1>1. n \in Nat /\ MaxTopK \in Nat /\ Len(v) \in Nat /\ Len(t) \in Nat
  BY RankIs, FS_CardinalityType, RrfAssumption
<1>2. /\ Points(v, a) = Share(r) /\ r \in 1..n /\ r <= Len(v)
      /\ Points(t, a) = Share(s) /\ s \in 1..n /\ s <= Len(t)
  <2>1. r \in 1..Len(v) /\ s \in 1..Len(t)
    BY RankIs
  <2> HIDE DEF r, s
  <2>2. r <= Len(v) /\ s <= Len(t)
    BY <2>1
  <2> QED
    BY <2>2, PointsAre DEF r, s
<1> HIDE DEF n, r, s
<1>3. r <= MaxTopK /\ s <= MaxTopK /\ r \in Nat /\ s \in Nat
  BY <1>1, <1>2
<1>4. \A x \in 1..n : Share(x) \in Nat \ {0}
  BY ShareIs DEF n
<1>5. ASSUME NEW x \in 1..n
      PROVE  Share(x) < Share(r) + Share(s)
  BY <1>2, <1>3, TwoSharesWin DEF n
<1>6. ASSUME NEW l \in HitLists
      PROVE  Points(l, b) < Share(r) + Share(s) /\ Points(l, b) \in Nat
  <2>1. CASE b \in Ids(l)
    BY <1>5, <2>1, PointsAre DEF n
  <2>2. CASE b \notin Ids(l)
    <3>1. Points(l, b) = 0
      BY <2>2, PointsAre
    <3>2. Share(r) \in Nat \ {0} /\ Share(s) \in Nat \ {0}
      BY <1>2, <1>4
    <3> QED
      BY <3>1, <3>2
  <2> QED
    BY <2>1, <2>2
<1>7. /\ Points(v, b) < Share(r) + Share(s) /\ Points(v, b) \in Nat
      /\ Points(t, b) < Share(r) + Share(s) /\ Points(t, b) \in Nat
  BY <1>6
<1>8. Points(v, b) = 0 \/ Points(t, b) = 0
  BY PointsAre
<1>9. Share(r) \in Nat /\ Share(s) \in Nat
  BY <1>2, <1>4
<1>10. Points(v, b) + Points(t, b) < Share(r) + Share(s)
  BY <1>7, <1>8, <1>9
<1> QED
  BY <1>2, <1>10, PairIs DEF Before

LEMMA SearchAgrees ==
  ASSUME NEW in \in SearchInputs, SearchQueries(in).ok,
         Len(in.queries) = 1, ~in.queries[1].textFails,
         NEW a \in Ids(SearchQueries(in).hits), NEW b \in Ids(SearchQueries(in).hits),
         \A list \in RoutesOf(in) : a \in Ids(list),
         \E list \in RoutesOf(in) : b \notin Ids(list)
  PROVE  RankOf(SearchQueries(in).hits, a) < RankOf(SearchQueries(in).hits, b)
<1> DEFINE k == TopK(in.topK)
           q == in.queries[1]
           v == VectorHits(q, k, in.minScore)
           t == TextHits(q, k)
           m == SearchQueries(in).hits
<1>1. /\ q \in SearchQuery /\ k \in Nat \ {0} /\ k <= MaxTopK
      /\ m = OneQuery(q, k, in.minScore) /\ RoutesOf(in) = BroughtBy(in, 1)
  BY SearchIs, SingleQuery
<1>2. BroughtBy(in, 1) = {v, t}
  BY DEF BroughtBy
<1>3. a \in Ids(m) /\ b \in Ids(m) /\ ~q.textFails
  OBVIOUS
<1>4. a \in Ids(v) /\ a \in Ids(t) /\ (b \notin Ids(v) \/ b \notin Ids(t))
  BY <1>1, <1>2
<1> HIDE DEF q, k, m
<1>5. /\ v \in HitLists /\ t \in HitLists /\ Len(v) <= k /\ Len(t) <= k
      /\ MergesTo(m, <<v, t>>, k)
  BY <1>1, <1>3, OneQueryIs
<1> HIDE DEF v, t
<1>6. Len(v) <= MaxTopK /\ Len(t) <= MaxTopK
  <2>1. Len(v) \in Nat /\ Len(t) \in Nat /\ MaxTopK \in Nat
    BY <1>5, RankIs, RrfAssumption
  <2> QED
    BY <1>1, <1>5, <2>1
<1>7. Before(<<v, t>>, a, b)
  BY <1>4, <1>5, <1>6, BothBeforeOne
<1>8. <<v, t>> \in Seq(HitLists) /\ a \in AllIds(<<v, t>>)
  BY <1>4, <1>5, PairIs
<1>9. RankOf(m, a) < RankOf(m, b)
  BY <1>1, <1>3, <1>5, <1>7, <1>8, MergeOrder
<1> QED
  BY <1>9 DEF m

\* What is in the merged list, when it is not all of its lists.
LEMMA MergeKeeps ==
  ASSUME NEW lists \in Seq(HitLists), NEW k \in Nat \ {0}, NEW m, MergesTo(m, lists, k)
  PROVE  /\ Ids(m) \subseteq AllIds(lists) /\ Cardinality(Ids(m)) = Len(m)
         /\ Ids(m) = AllIds(lists) \/ Len(m) = k
<1> DEFINE T == AllIds(lists)
           n == Cardinality(T)
<1>1. n \in Nat /\ IsFiniteSet(T)
  BY AllIdsAre
<1>2. m \in HitLists /\ Len(m) = IF n > k THEN k ELSE n
  BY DEF MergesTo
<1>3. Ids(m) \subseteq T
  BY MergeOrder
<1>4. IsFiniteSet(Ids(m)) /\ Cardinality(Ids(m)) = Len(m)
  BY <1>2, IdsCount
<1> HIDE DEF T
<1>5. CASE n > k
  BY <1>1, <1>2, <1>3, <1>4, <1>5 DEF T
<1>6. CASE ~(n > k)
  <2>1. Cardinality(T) = Cardinality(Ids(m))
    BY <1>1, <1>2, <1>4, <1>6
  <2>2. T = Ids(m)
    BY <1>1, <1>3, <2>1, FS_Subset
  <2> QED
    BY <1>3, <1>4, <2>2 DEF T
<1> QED
  BY <1>5, <1>6

\* What one query brings is in its routes, and all of it unless it reaches
\* the limit.
LEMMA QueryKeeps ==
  ASSUME NEW in \in SearchInputs, SearchQueries(in).ok, NEW i \in 1..Len(in.queries)
  PROVE  LET o == OneQuery(in.queries[i], TopK(in.topK), in.minScore)
             R == UNION {Ids(list) : list \in BroughtBy(in, i)}
         IN  /\ Ids(o) \subseteq R /\ R \subseteq Chunks
             /\ Ids(o) = R \/ Cardinality(Ids(o)) = TopK(in.topK)
<1> DEFINE k == TopK(in.topK)
           q == in.queries[i]
           v == VectorHits(q, k, in.minScore)
           t == TextHits(q, k)
           o == OneQuery(q, k, in.minScore)
           R == UNION {Ids(list) : list \in BroughtBy(in, i)}
<1>1. q \in SearchQuery /\ k \in Nat \ {0}
  BY SearchIs
<1>2. BroughtBy(in, i) = IF q.textFails THEN {v} ELSE {v, t}
  BY DEF BroughtBy
<1> HIDE DEF q, k
<1>3. /\ v \in HitLists /\ t \in HitLists
      /\ q.textFails => o = v
      /\ ~q.textFails => MergesTo(o, <<v, t>>, k)
  BY <1>1, OneQueryIs
<1>4. Ids(v) \subseteq Chunks /\ Ids(t) \subseteq Chunks
  BY <1>3, IdsCount
<1> HIDE DEF v, t, o
<1>5. CASE q.textFails
  <2>1. R = Ids(v) /\ o = v
    BY <1>2, <1>3, <1>5
  <2> HIDE DEF R
  <2>2. Ids(o) \subseteq R /\ R \subseteq Chunks /\ (Ids(o) = R \/ Cardinality(Ids(o)) = k)
    BY <1>4, <2>1
  <2> QED
    BY <2>2 DEF R, o, q, k
<1>6. CASE ~q.textFails
  <2>1. R = Ids(v) \cup Ids(t)
    BY <1>2, <1>6
  <2> HIDE DEF R
  <2>2. <<v, t>> \in Seq(HitLists) /\ AllIds(<<v, t>>) = R
    BY <1>3, <2>1, PairIs
  <2>3. Ids(o) \subseteq R /\ (Ids(o) = R \/ Cardinality(Ids(o)) = k)
    BY <1>1, <1>3, <1>6, <2>2, MergeKeeps
  <2> QED
    BY <1>4, <2>1, <2>3 DEF R, o, q, k
<1> QED
  BY <1>5, <1>6

\* The hits are as many as the limit, or as there are chunks in the routes.
LEMMA SearchCuts ==
  ASSUME NEW in \in SearchInputs, SearchQueries(in).ok
  PROVE  /\ Cardinality(Ids(SearchQueries(in).hits)) = Len(SearchQueries(in).hits)
         /\ Len(SearchQueries(in).hits) =
              Min({TopK(in.topK), Cardinality(UNION {Ids(list) : list \in RoutesOf(in)})})
<1> DEFINE k == TopK(in.topK)
           n == Len(in.queries)
           ls == ListsOf(in)
           m == SearchQueries(in).hits
           U == UNION {Ids(list) : list \in RoutesOf(in)}
           R(i) == UNION {Ids(list) : list \in BroughtBy(in, i)}
           T == AllIds(ls)
<1>1. /\ DOMAIN in.queries = 1..n /\ k \in Nat \ {0}
      /\ ls \in Seq(HitLists) /\ Len(ls) = n /\ MergesTo(m, ls, k)
  BY SearchIs
<1>2. \A i \in 1..n : ls[i] = OneQuery(in.queries[i], k, in.minScore)
  BY <1>1 DEF ListsOf
<1>3. \A i \in 1..n : /\ Ids(ls[i]) \subseteq R(i) /\ R(i) \subseteq Chunks
                      /\ Ids(ls[i]) = R(i) \/ Cardinality(Ids(ls[i])) = k
  BY <1>2, QueryKeeps
<1>4. \A a : a \in U <=> \E i \in 1..n : a \in R(i)
  BY <1>1 DEF RoutesOf
<1>5. /\ IsFiniteSet(T) /\ T \subseteq Chunks
      /\ \A a : a \in T <=> \E i \in 1..n : a \in Ids(ls[i])
  BY <1>1, AllIdsAre
<1>6. /\ Ids(m) \subseteq T /\ Cardinality(Ids(m)) = Len(m)
      /\ Len(m) = (IF Cardinality(T) > k THEN k ELSE Cardinality(T))
  BY <1>1, MergeKeeps DEF MergesTo
<1> HIDE DEF k, n, ls, m, U, R, T
<1>7. T \subseteq U /\ U \subseteq Chunks
  BY <1>3, <1>4, <1>5
<1>8. IsFiniteSet(U)
  BY <1>7, FS_Subset, RrfAssumption
<1>9. Cardinality(T) \in Nat /\ Cardinality(U) \in Nat /\ Cardinality(T) <= Cardinality(U)
  BY <1>5, <1>7, <1>8, FS_CardinalityType, FS_Subset
<1>10. CASE \A i \in 1..n : Ids(ls[i]) = R(i)
  <2>1. T = U
    BY <1>4, <1>5, <1>10
  <2>2. Len(m) = IF k <= Cardinality(U) THEN k ELSE Cardinality(U)
    BY <1>1, <1>6, <1>9, <2>1
  <2>3. Len(m) = Min({k, Cardinality(U)})
    BY <1>1, <1>9, <2>2, MinOfTwo
  <2> QED
    BY <1>6, <2>3 DEF k, m, U
<1>11. CASE \E i \in 1..n : Ids(ls[i]) # R(i)
  <2>1. PICK i \in 1..n : Cardinality(Ids(ls[i])) = k
    BY <1>3, <1>11
  <2>2. Ids(ls[i]) \subseteq T
    BY <1>5
  <2>3. k <= Cardinality(T)
    BY <1>5, <2>1, <2>2, FS_Subset
  <2>4. Len(m) = IF k <= Cardinality(U) THEN k ELSE Cardinality(U)
    BY <1>1, <1>6, <1>9, <2>3
  <2>5. Len(m) = Min({k, Cardinality(U)})
    BY <1>1, <1>9, <2>4, MinOfTwo
  <2> QED
    BY <1>6, <2>5 DEF k, m, U
<1> QED
  BY <1>10, <1>11

\* With one query, no route has a better score for a hit.
LEMMA SearchScores ==
  ASSUME NEW in \in SearchInputs, SearchQueries(in).ok, Len(in.queries) = 1,
         NEW i \in DOMAIN SearchQueries(in).hits, NEW list \in RoutesOf(in),
         SearchQueries(in).hits[i].id \in Ids(list)
  PROVE  HitOf(list, SearchQueries(in).hits[i].id).score <= SearchQueries(in).hits[i].score
<1> DEFINE k == TopK(in.topK)
           q == in.queries[1]
           v == VectorHits(q, k, in.minScore)
           t == TextHits(q, k)
           m == SearchQueries(in).hits
           x == m[i].id
<1>1. /\ q \in SearchQuery /\ k \in Nat \ {0}
      /\ m = OneQuery(q, k, in.minScore) /\ list \in BroughtBy(in, 1)
  BY SearchIs, SingleQuery
<1>2. BroughtBy(in, 1) = IF q.textFails THEN {v} ELSE {v, t}
  BY DEF BroughtBy
<1>3. x \in Ids(list) /\ i \in DOMAIN m
  OBVIOUS
<1> HIDE DEF q, k, m
<1>4. /\ m \in HitLists /\ v \in HitLists /\ t \in HitLists
      /\ q.textFails => m = v
      /\ ~q.textFails => MergesTo(m, <<v, t>>, k)
  BY <1>1, OneQueryIs
<1>5. i \in 1..Len(m) /\ m[i].score \in Int /\ RankOf(m, x) = i
  BY <1>3, <1>4, RankIs
<1> HIDE DEF v, t
<1>6. CASE q.textFails
  <2>1. HitOf(list, x) = m[i]
    BY <1>1, <1>2, <1>4, <1>5, <1>6 DEF HitOf
  <2> QED
    BY <1>5, <2>1 DEF m
<1>7. CASE ~q.textFails
  <2> DEFINE p == <<v, t>>
  <2>1. /\ p \in Seq(HitLists) /\ p[1] = v /\ p[2] = t
        /\ \A w : w \in 1..Len(p) <=> (w = 1 \/ w = 2)
    BY <1>4, PairIs
  <2>2. MergesTo(m, p, k)
    BY <1>4, <1>7
  <2> HIDE DEF p
  <2>3. m[i].score = BestScore(p, x)
    BY <1>5, <2>2 DEF MergesTo
  <2>4. PICK w \in 1..Len(p) : list = p[w]
    BY <1>1, <1>2, <1>7, <2>1
  <2>5. x \in Ids(p[w])
    BY <1>3, <2>4
  <2> HIDE DEF x
  <2>6. HitOf(p[w], x).score <= BestScore(p, x)
    BY <2>1, <2>5, BestScoreIs
  <2> QED
    BY <2>3, <2>4, <2>6 DEF m, x
<1> QED
  BY <1>6, <1>7

\* What a search that answers returns is sound.
LEMMA Fusion ==
  ASSUME call.in \in SearchInputs, Result = SearchQueries(call.in)
  PROVE  FusionIsSound
<1> DEFINE in == call.in
<1> SUFFICES ASSUME Found
             PROVE  FusionIsSound
  BY DEF FusionIsSound, FusionRespectsRoutes, AgreementWins, OnlyTheLimitCuts, BestScoreKept,
         TextFailureDegrades
<1>1. in \in SearchInputs /\ SearchQueries(in).ok /\ Result = SearchQueries(in)
  BY DEF Found
<1>2. Routes = RoutesOf(in)
  BY RoutesAre
<1>3. FusionRespectsRoutes
  <2>1. ASSUME NEW a, NEW b, b \in Ids(Result.hits), \A list \in RoutesOf(in) : AtLeast(list, a, b)
        PROVE  a \in Ids(Result.hits) /\ RankOf(Result.hits, a) < RankOf(Result.hits, b)
    <3> HIDE DEF in
    <3>1. AtLeast(Result.hits, a, b)
      BY <1>1, <2>1, SearchRespects
    <3> QED
      BY <2>1, <3>1 DEF AtLeast
  <2> QED
    BY <1>2, <2>1 DEF FusionRespectsRoutes
<1>4. AgreementWins
  <2>1. ASSUME Len(in.queries) = 1, ~in.queries[1].textFails,
               NEW a \in Ids(Result.hits), NEW b \in Ids(Result.hits),
               \A list \in RoutesOf(in) : a \in Ids(list),
               \E list \in RoutesOf(in) : b \notin Ids(list)
        PROVE  RankOf(Result.hits, a) < RankOf(Result.hits, b)
    <3> HIDE DEF in
    <3> QED
      BY <1>1, <2>1, SearchAgrees
  <2> QED
    BY <1>2, <2>1 DEF AgreementWins
<1>5. OnlyTheLimitCuts
  BY <1>1, <1>2, SearchCuts DEF OnlyTheLimitCuts
<1>6. BestScoreKept
  <2>1. ASSUME Len(in.queries) = 1, NEW i \in DOMAIN Result.hits, NEW list \in RoutesOf(in),
               Result.hits[i].id \in Ids(list)
        PROVE  HitOf(list, Result.hits[i].id).score <= Result.hits[i].score
    <3> HIDE DEF in
    <3> QED
      BY <1>1, <2>1, SearchScores
  <2> QED
    BY <1>2, <2>1 DEF BestScoreKept
<1>7. TextFailureDegrades
  <2>1. ASSUME Len(in.queries) = 1, in.queries[1].textFails
        PROVE  RoutesOf(in) = {Result.hits}
    <3>1. /\ Result.hits = OneQuery(in.queries[1], TopK(in.topK), in.minScore)
          /\ RoutesOf(in) = BroughtBy(in, 1) /\ in.queries[1] \in SearchQuery
          /\ TopK(in.topK) \in Nat \ {0}
      BY <1>1, <2>1, SingleQuery, SearchIs
    <3>2. Result.hits = VectorHits(in.queries[1], TopK(in.topK), in.minScore)
      BY <2>1, <3>1, OneQueryIs
    <3> QED
      BY <2>1, <3>1, <3>2 DEF BroughtBy
  <2> QED
    BY <1>2, <2>1 DEF TextFailureDegrades
<1> QED
  BY <1>3, <1>4, <1>5, <1>6, <1>7 DEF FusionIsSound

\* Hybrid search is sound: a chunk that every route places before another is
\* never behind it nor cut off before it, a chunk both routes found comes
\* before one that a single route found, only the limit leaves chunks out,
\* the best score stays, and a full text that fails costs its own hits only
\* (SearchQueries, rrfMerge).
THEOREM SearchIsSound == AlgorithmsSpec => []FusionIsSound
<1>1. Answered => FusionIsSound
  <2> SUFFICES ASSUME Answered, Found
               PROVE  FusionIsSound
    BY DEF FusionIsSound, FusionRespectsRoutes, AgreementWins, OnlyTheLimitCuts, BestScoreKept,
           TextFailureDegrades
  <2>1. call.in \in SearchInputs
    BY InputOf DEF Found, Returned
  <2>2. Result = SearchQueries(call.in)
    BY DEF Answered, Found, Returned
  <2> QED
    BY <2>1, <2>2, Fusion
<1> QED
  BY <1>1, AnsweredAlways, PTL

-----------------------------------------------------------------------------
(* Texts under their headings.                                             *)

\* Lines, and the order of the document among them.
Id == Nat \X Nat
Earlier == {p \in Id \X Id : AtomsBefore(p[1], p[2])}

LEMMA EarlierOrders ==
  /\ \A a, b \in Id : <<a, b>> \in Earlier <=> AtomsBefore(a, b)
  /\ \A a \in Id : ~AtomsBefore(a, a)
  /\ \A a, b \in Id : a = b \/ AtomsBefore(a, b) \/ AtomsBefore(b, a)
  /\ \A a, b \in Id : ~(AtomsBefore(a, b) /\ AtomsBefore(b, a))
  /\ \A a, b, c \in Id : AtomsBefore(a, b) /\ AtomsBefore(b, c) => AtomsBefore(a, c)
<1>1. \A a \in Id : a[1] \in Nat /\ a[2] \in Nat /\ a = <<a[1], a[2]>>
  BY DEF Id
<1>2. \A a, b \in Id : <<a, b>> \in Earlier <=> AtomsBefore(a, b)
  BY DEF Earlier
<1>3. \A a \in Id : ~AtomsBefore(a, a)
  BY <1>1 DEF AtomsBefore
<1>4. ASSUME NEW a \in Id, NEW b \in Id
      PROVE  /\ a = b \/ AtomsBefore(a, b) \/ AtomsBefore(b, a)
             /\ ~(AtomsBefore(a, b) /\ AtomsBefore(b, a))
  BY <1>1 DEF AtomsBefore
<1>5. ASSUME NEW a \in Id, NEW b \in Id, NEW c \in Id, AtomsBefore(a, b), AtomsBefore(b, c)
      PROVE  AtomsBefore(a, c)
  BY <1>1, <1>5 DEF AtomsBefore
<1> QED
  BY <1>2, <1>3, <1>4, <1>5

LEMMA SectionInputIs ==
  ASSUME NEW in \in SectionInputs
  PROVE  /\ Len(in.atoms) \in Nat /\ DOMAIN in.atoms = 1..Len(in.atoms)
         /\ \A n \in 1..Len(in.atoms) :
              /\ in.atoms[n] \in SectionAtom
              /\ Len(in.atoms[n].lines) \in Nat
              /\ DOMAIN in.atoms[n].lines = 1..Len(in.atoms[n].lines)
         /\ \A id : id \in LineIds(in) <=>
              \E n \in 1..Len(in.atoms) : \E i \in 1..Len(in.atoms[n].lines) : id = <<n, i>>
         /\ LineIds(in) \subseteq Id
<1>1. Len(in.atoms) \in Nat /\ DOMAIN in.atoms = 1..Len(in.atoms)
  BY SectionAssumption, LenProperties
<1>2. \A n \in 1..Len(in.atoms) : in.atoms[n] \in SectionAtom
  BY SectionAssumption, ElementOfSeq
<1>3. ASSUME NEW n \in 1..Len(in.atoms)
      PROVE  /\ Len(in.atoms[n].lines) \in Nat
             /\ DOMAIN in.atoms[n].lines = 1..Len(in.atoms[n].lines)
  <2>1. in.atoms[n].lines \in Seq(LineKind)
    BY <1>2 DEF SectionAtom
  <2> QED
    BY <2>1, LenProperties
<1>4. \A id : id \in LineIds(in) <=>
        \E n \in 1..Len(in.atoms) : \E i \in 1..Len(in.atoms[n].lines) : id = <<n, i>>
  BY <1>1, <1>3 DEF LineIds
<1>5. LineIds(in) \subseteq Id
  BY <1>1, <1>3, <1>4 DEF Id
<1> QED
  BY <1>1, <1>2, <1>3, <1>4, <1>5

LEMMA LevelIs ==
  ASSUME NEW atom, NEW line
  PROVE  Level(atom, line) \in 0..6
  BY DEF Level

\* The state of the reading.
Slot == {<<>>} \cup {<<id>> : id \in Id}
TextType == [base : Nat, lines : Seq(Id), path : Seq(Id), noSplit : BOOLEAN]
Reading == [out : Seq(TextType), headings : [1..6 -> Slot], body : Seq(Id), base : Nat]

\* A path has the headings of the levels, one after the other.
LEMMA PathHas ==
  ASSUME NEW hs \in [1..6 -> Slot]
  PROVE  /\ Path(hs) \in Seq(Id)
         /\ \A x : x \in ToSet(Path(hs)) <=> \E l \in 1..6 : hs[l] = <<x>>
         /\ (\A l, m \in 1..6 : \A a, b : l < m /\ hs[l] = <<a>> /\ hs[m] = <<b>> => AtomsBefore(a, b))
              => Rising(Path(hs), Earlier)
<1>1. hs \in Seq(Seq(Id)) /\ Len(hs) = 6
  <2>1. \A l \in 1..6 : hs[l] \in Seq(Id)
    <3>1. \A id \in Id : <<id>> \in Seq(Id)
      OBVIOUS
    <3>2. \A q \in Slot : q = <<>> \/ \E id \in Id : q = <<id>>
      BY DEF Slot
    <3> QED
      BY <3>1, <3>2, EmptySeq
  <2>2. hs \in [1..6 -> Seq(Id)]
    BY <2>1
  <2>3. 6 \in Nat
    OBVIOUS
  <2> QED
    BY <2>2, <2>3, ListOf
<1>2. ASSUME NEW l \in 1..6
      PROVE  /\ hs[l] \in Seq(Id)
             /\ \A x : x \in ToSet(hs[l]) <=> hs[l] = <<x>>
             /\ \A R : Rising(hs[l], R)
  <2>1. CASE hs[l] = <<>>
    <3>1. \A x : hs[l] # <<x>> /\ x \notin ToSet(hs[l])
      BY <2>1 DEF ToSet
    <3>2. \A R : Rising(hs[l], R)
      BY <2>1 DEF Rising
    <3>3. hs[l] \in Seq(Id)
      BY <2>1
    <3> QED
      BY <3>1, <3>2, <3>3
  <2>2. CASE \E id \in Id : hs[l] = <<id>>
    <3>1. PICK id \in Id : hs[l] = <<id>>
      BY <2>2
    <3>2. /\ <<id>> \in Seq(Id) /\ Len(<<id>>) = 1 /\ <<id>>[1] = id
          /\ \A i : i \in 1..1 <=> i = 1
      OBVIOUS
    <3>3. \A x : x \in ToSet(<<id>>) <=> x = id
      <4> DEFINE q == <<id>>
      <4>1. q \in Seq(Id) /\ Len(q) = 1 /\ q[1] = id
        BY <3>2
      <4> HIDE DEF q
      <4>2. \A x : x \in ToSet(q) <=> \E i \in 1..Len(q) : q[i] = x
        BY <4>1, ToSetOf
      <4>3. \A x : x \in ToSet(q) <=> x = id
        BY <3>2, <4>1, <4>2
      <4> QED
        BY <4>3 DEF q
    <3>4. \A x : x = id <=> <<id>> = <<x>>
      OBVIOUS
    <3>5. \A R : Rising(<<id>>, R)
      BY <3>2 DEF Rising
    <3> QED
      BY <3>1, <3>2, <3>3, <3>4, <3>5
  <2> QED
    BY <2>1, <2>2 DEF Slot
<1>3. FlattenSeq(hs) \in Seq(Id) /\ \A x : x \in ToSet(FlattenSeq(hs)) <=> \E l \in 1..6 : x \in ToSet(hs[l])
  <2> DEFINE All == Id \X Id \cup {p \in (UNION {ToSet(hs[l]) : l \in 1..6}) \X (UNION {ToSet(hs[l]) : l \in 1..6}) : TRUE}
  <2>1. \A i \in 1..Len(hs) : Rising(hs[i], All)
    BY <1>1, <1>2
  <2>2. \A i, j \in 1..Len(hs) : i < j => \A a \in ToSet(hs[i]), b \in ToSet(hs[j]) : <<a, b>> \in All
    BY <1>1
  <2> HIDE DEF All
  <2>3. /\ FlattenSeq(hs) \in Seq(Id)
        /\ \A x : x \in ToSet(FlattenSeq(hs)) <=> \E i \in 1..Len(hs) : x \in ToSet(hs[i])
    BY <1>1, <2>1, <2>2, FlattenRises
  <2> QED
    BY <1>1, <2>3
<1>4. ASSUME \A l, m \in 1..6 : \A a, b : l < m /\ hs[l] = <<a>> /\ hs[m] = <<b>> => AtomsBefore(a, b)
      PROVE  Rising(FlattenSeq(hs), Earlier)
  <2>1. \A i \in 1..Len(hs) : Rising(hs[i], Earlier)
    BY <1>1, <1>2
  <2>2. ASSUME NEW i \in 1..6, NEW j \in 1..6, i < j, NEW a \in ToSet(hs[i]), NEW b \in ToSet(hs[j])
        PROVE  <<a, b>> \in Earlier
    <3>1. hs[i] = <<a>> /\ hs[j] = <<b>> /\ hs[i] \in Seq(Id) /\ hs[j] \in Seq(Id)
      BY <1>2, <2>2
    <3>2. a \in Id /\ b \in Id
      BY <3>1
    <3> QED
      BY <1>4, <2>2, <3>1, <3>2, EarlierOrders
  <2> QED
    BY <1>1, <2>1, <2>2, FlattenRises
<1> QED
  BY <1>2, <1>3, <1>4 DEF Path

\* D has the lines up to some place of the document.
SoFar(in, D) ==
  D \subseteq LineIds(in) /\ \A d \in D, g \in LineIds(in) : AtomsBefore(g, d) => g \in D

\* No heading of D after h ends what h has begun.
Open(in, D, h) ==
  /\ h \in D /\ Heading(in, h)
  /\ \A g \in D : Heading(in, g) /\ AtomsBefore(h, g) => LevelOf(in, g) > LevelOf(in, h)
OpenIn(in, D, hs) ==
  \A l \in 1..6 : \A h : hs[l] = <<h>> <=> Open(in, D, h) /\ LevelOf(in, h) = l

\* The headings a line stands under.
Above(in, id) == {h \in LineIds(in) : Encloses(in, h, id)}

\* The path of the open headings has them in the order of the document.
LEMMA PathOpen ==
  ASSUME NEW in \in SectionInputs, NEW D, D \subseteq LineIds(in),
         NEW hs \in [1..6 -> Slot], OpenIn(in, D, hs)
  PROVE  /\ Path(hs) \in Seq(Id) /\ Rising(Path(hs), Earlier)
         /\ ToSet(Path(hs)) = {h \in D : Open(in, D, h)}
<1>1. D \subseteq Id
  BY SectionInputIs
<1>2. ASSUME NEW l \in 1..6, NEW m \in 1..6, NEW a, NEW b, l < m, hs[l] = <<a>>, hs[m] = <<b>>
      PROVE  AtomsBefore(a, b)
  <2>1. Open(in, D, a) /\ LevelOf(in, a) = l
    BY <1>2 DEF OpenIn
  <2>2. Open(in, D, b) /\ LevelOf(in, b) = m
    BY <1>2 DEF OpenIn
  <2>3. a \in D /\ b \in D /\ Heading(in, a)
    BY <2>1, <2>2 DEF Open
  <2>4. a # b
    BY <1>2, <2>1, <2>2
  <2>5. ~AtomsBefore(b, a)
    <3>1. AtomsBefore(b, a) => LevelOf(in, a) > LevelOf(in, b)
      BY <2>2, <2>3 DEF Open
    <3> QED
      BY <1>2, <2>1, <2>2, <3>1
  <2> QED
    BY <1>1, <2>3, <2>4, <2>5, EarlierOrders
<1>3. ASSUME NEW h \in D, Open(in, D, h)
      PROVE  LevelOf(in, h) \in 1..6
  <2>1. LevelOf(in, h) > 0
    BY <1>3 DEF Open, Heading
  <2>2. LevelOf(in, h) \in 0..6
    BY LevelIs DEF LevelOf
  <2> QED
    BY <2>1, <2>2
<1>4. /\ Path(hs) \in Seq(Id) /\ Rising(Path(hs), Earlier)
      /\ \A x : x \in ToSet(Path(hs)) <=> \E l \in 1..6 : hs[l] = <<x>>
  BY <1>2, PathHas
<1>5. ASSUME NEW x
      PROVE  x \in ToSet(Path(hs)) <=> x \in {h \in D : Open(in, D, h)}
  <2>1. ASSUME NEW l \in 1..6, hs[l] = <<x>>
        PROVE  x \in D /\ Open(in, D, x)
    BY <2>1 DEF OpenIn, Open
  <2>2. ASSUME x \in D, Open(in, D, x)
        PROVE  \E l \in 1..6 : hs[l] = <<x>>
    <3>1. LevelOf(in, x) \in 1..6
      BY <1>3, <2>2
    <3> QED
      BY <2>2, <3>1 DEF OpenIn
  <2> QED
    BY <1>4, <2>1, <2>2
<1> QED
  BY <1>4, <1>5

\* A line after all headings so far stands under those that are open.
LEMMA AboveIs ==
  ASSUME NEW in \in SectionInputs, NEW D, SoFar(in, D), NEW id \in LineIds(in),
         \A g \in LineIds(in) : AtomsBefore(g, id) /\ Heading(in, g) => g \in D,
         \A h \in D : Heading(in, h) => AtomsBefore(h, id)
  PROVE  Above(in, id) = {h \in D : Open(in, D, h)}
<1>1. D \subseteq LineIds(in)
  BY DEF SoFar
<1>2. ASSUME NEW h \in Above(in, id)
      PROVE  h \in D /\ Open(in, D, h)
  <2>1. h \in LineIds(in) /\ Heading(in, h) /\ AtomsBefore(h, id)
    BY DEF Above, Encloses
  <2>2. h \in D
    BY <2>1
  <2>3. ASSUME NEW g \in D, Heading(in, g), AtomsBefore(h, g)
        PROVE  LevelOf(in, g) > LevelOf(in, h)
    <3>1. g \in LineIds(in) /\ AtomsBefore(g, id)
      BY <1>1, <2>3
    <3> QED
      BY <2>3, <3>1 DEF Above, Encloses
  <2> QED
    BY <2>1, <2>2, <2>3 DEF Open
<1>3. ASSUME NEW h \in D, Open(in, D, h)
      PROVE  h \in Above(in, id)
  <2>1. h \in LineIds(in) /\ Heading(in, h) /\ AtomsBefore(h, id)
    BY <1>1, <1>3 DEF Open
  <2>2. ASSUME NEW g \in LineIds(in), Heading(in, g), AtomsBefore(h, g), AtomsBefore(g, id)
        PROVE  LevelOf(in, g) > LevelOf(in, h)
    <3>1. g \in D
      BY <2>2
    <3> QED
      BY <1>3, <2>2, <3>1 DEF Open
  <2> QED
    BY <2>1, <2>2 DEF Above, Encloses
<1> QED
  BY <1>2, <1>3

\* A text has the path of the headings each of its lines stands under, and
\* the place of those that have one.
Filed(in, t) ==
  /\ Rising(t.path, Earlier) /\ Rising(t.lines, Earlier)
  /\ \A id \in ToSet(t.lines) : /\ ToSet(t.path) = Above(in, id)
                                /\ AtomOf(in, id).parser => id[1] = t.base

AllBefore(p, q) == \A a \in ToSet(p), b \in ToSet(q) : <<a, b>> \in Earlier

\* The texts in order.
InOrderFiled(in, ts) ==
  /\ \A i \in 1..Len(ts) : Filed(in, ts[i])
  /\ \A i, j \in 1..Len(ts) : i < j => AllBefore(ts[i].lines, ts[j].lines)

InTexts(ts, id) == \E i \in 1..Len(ts) : id \in ToSet(ts[i].lines)

\* What has been read of the lines of D: the texts that are out, and the body
\* that is to follow them.
ReadTo(in, D, s) ==
  /\ s \in Reading
  /\ OpenIn(in, D, s.headings)
  /\ InOrderFiled(in, s.out)
  /\ Rising(s.body, Earlier)
  /\ \A i \in 1..Len(s.out) : AllBefore(s.out[i].lines, s.body)
  /\ \A id \in ToSet(s.body), h \in D : Heading(in, h) => AtomsBefore(h, id)
  /\ \A id : id \in D /\ KeptLine(in, id) <=> id \in ToSet(s.body) \/ InTexts(s.out, id)

\* The body is of texts and has one place, if its lines have any: the atom
\* that is being read.
Placed(in, n, s) ==
  /\ s.body = <<>> => s.base = 0
  /\ \A id \in ToSet(s.body) : AtomOf(in, id).structured
  /\ \A id \in ToSet(s.body) : AtomOf(in, id).parser => id[1] = s.base /\ id[1] = n

\* A text more, after all others.
LEMMA OneTextMore ==
  ASSUME NEW ts \in Seq(TextType), NEW t \in TextType
  PROVE  /\ Append(ts, t) \in Seq(TextType) /\ Len(Append(ts, t)) = Len(ts) + 1 /\ Len(ts) \in Nat
         /\ \A i \in 1..Len(ts) : i \in 1..Len(Append(ts, t)) /\ Append(ts, t)[i] = ts[i]
         /\ Append(ts, t)[Len(ts) + 1] = t
         /\ \A id : InTexts(Append(ts, t), id) <=> InTexts(ts, id) \/ id \in ToSet(t.lines)
<1> DEFINE n == Len(ts)
           p == Append(ts, t)
<1>1. /\ p \in Seq(TextType) /\ Len(p) = n + 1 /\ n \in Nat
      /\ (\A i \in 1..n : p[i] = ts[i]) /\ p[n + 1] = t
  BY AppendProperties, LenProperties
<1> HIDE DEF n, p
<1>2. \A i : i \in 1..Len(p) <=> i \in 1..n \/ i = n + 1
  BY <1>1
<1>3. \A id : InTexts(p, id) <=> InTexts(ts, id) \/ id \in ToSet(t.lines)
  BY <1>1, <1>2 DEF InTexts, n
<1> QED
  BY <1>1, <1>2, <1>3 DEF n, p

LEMMA TextsInOrder ==
  ASSUME NEW in, NEW ts \in Seq(TextType), NEW t \in TextType, InOrderFiled(in, ts), Filed(in, t),
         \A i \in 1..Len(ts) : AllBefore(ts[i].lines, t.lines)
  PROVE  InOrderFiled(in, Append(ts, t))
<1> DEFINE n == Len(ts)
           p == Append(ts, t)
<1>1. /\ Len(p) = n + 1 /\ n \in Nat
      /\ (\A i \in 1..n : p[i] = ts[i]) /\ p[n + 1] = t
  BY OneTextMore
<1> HIDE DEF n, p
<1>2. \A i : i \in 1..Len(p) <=> i \in 1..n \/ i = n + 1
  BY <1>1
<1>3. \A i \in 1..Len(p) : Filed(in, p[i])
  BY <1>1, <1>2 DEF InOrderFiled, n
<1>4. ASSUME NEW i \in 1..Len(p), NEW j \in 1..Len(p), i < j
      PROVE  AllBefore(p[i].lines, p[j].lines)
  <2>1. i \in 1..n
    BY <1>1, <1>2, <1>4
  <2>2. CASE j \in 1..n
    BY <1>1, <1>4, <2>1, <2>2 DEF InOrderFiled, n
  <2>3. CASE j = n + 1
    BY <1>1, <2>1, <2>3 DEF n
  <2> QED
    BY <1>2, <2>2, <2>3
<1> QED
  BY <1>3, <1>4 DEF InOrderFiled, p

\* What is written out of the body, or of an atom that is no text.
LEMMA TextAdded ==
  ASSUME NEW in \in SectionInputs, NEW D, NEW E, NEW s \in Reading, NEW r \in Reading,
         NEW t \in TextType,
         r.out = Append(s.out, t), r.body = <<>>, r.headings = s.headings,
         OpenIn(in, E, s.headings), InOrderFiled(in, s.out), Filed(in, t),
         \A i \in 1..Len(s.out) : AllBefore(s.out[i].lines, t.lines),
         \A id : id \in E /\ KeptLine(in, id) <=> id \in ToSet(t.lines) \/ InTexts(s.out, id)
  PROVE  ReadTo(in, E, r)
<1>1. s.out \in Seq(TextType)
  BY DEF Reading
<1>2. InOrderFiled(in, r.out)
  BY <1>1, TextsInOrder
<1>3. \A id : InTexts(r.out, id) <=> InTexts(s.out, id) \/ id \in ToSet(t.lines)
  BY <1>1, OneTextMore
<1>4. ToSet(r.body) = {} /\ Rising(r.body, Earlier)
  BY DEF ToSet, Rising
<1>5. \A i \in 1..Len(r.out) : AllBefore(r.out[i].lines, r.body)
  BY <1>4 DEF AllBefore
<1> QED
  BY <1>2, <1>3, <1>4, <1>5 DEF ReadTo

\* Writing the body out keeps what has been read, and leaves no body.
LEMMA FlushFiles ==
  ASSUME NEW in \in SectionInputs, NEW D, SoFar(in, D), NEW s, ReadTo(in, D, s),
         NEW n, Placed(in, n, s)
  PROVE  /\ ReadTo(in, D, Flush(in, s)) /\ Flush(in, s).body = <<>>
         /\ Flush(in, s).headings = s.headings
         /\ \A m : Placed(in, m, Flush(in, s))
<1> DEFINE p == Path(s.headings)
           t == Text(s.base, s.body, p, in.paper /\ IsAbstract(in, p))
           f == Flush(in, s)
<1>1. /\ s \in Reading /\ s.out \in Seq(TextType) /\ s.body \in Seq(Id) /\ s.base \in Nat
      /\ s.headings \in [1..6 -> Slot]
  BY DEF ReadTo, Reading
<1>2. CASE s.body = <<>>
  <2>1. f = s /\ ToSet(s.body) = {}
    BY <1>2 DEF Flush, ToSet
  <2> QED
    BY <1>2, <2>1 DEF Placed
<1>3. CASE s.body # <<>>
  <2>1. D \subseteq LineIds(in)
    BY DEF SoFar
  <2>2. p \in Seq(Id) /\ Rising(p, Earlier) /\ ToSet(p) = {h \in D : Open(in, D, h)}
    BY <1>1, <2>1, PathOpen DEF ReadTo
  <2>3. IsAbstract(in, p) \in BOOLEAN /\ in.paper \in BOOLEAN
    BY SectionAssumption DEF IsAbstract
  <2> HIDE DEF p
  <2>4. t \in TextType /\ t.base = s.base /\ t.lines = s.body /\ t.path = p
    BY <1>1, <2>2, <2>3 DEF TextType, Text
  <2>5. f = [s EXCEPT !.body = <<>>, !.base = 0, !.out = Append(s.out, t)]
    BY <1>3 DEF Flush, p
  <2> HIDE DEF t, f
  <2>6. /\ f.body = <<>> /\ f.base = 0 /\ f.out = Append(s.out, t) /\ f.headings = s.headings
        /\ f \in Reading
    <3>1. Append(s.out, t) \in Seq(TextType) /\ <<>> \in Seq(Id) /\ 0 \in Nat
      BY <1>1, <2>4, OneTextMore
    <3> QED
      BY <1>1, <2>5, <3>1 DEF Reading
  <2>7. ASSUME NEW id \in ToSet(s.body)
        PROVE  ToSet(p) = Above(in, id)
    <3>1. id \in D
      BY DEF ReadTo
    <3>2. id \in LineIds(in) /\ \A g \in LineIds(in) : AtomsBefore(g, id) => g \in D
      BY <3>1 DEF SoFar
    <3>3. \A h \in D : Heading(in, h) => AtomsBefore(h, id)
      BY DEF ReadTo
    <3> QED
      BY <2>2, <3>2, <3>3, AboveIs
  <2>8. Filed(in, t)
    BY <2>2, <2>4, <2>7 DEF Filed, ReadTo, Placed
  <2>9. ReadTo(in, D, f)
    BY <1>1, <2>4, <2>6, <2>8, TextAdded DEF ReadTo
  <2>10. \A m : Placed(in, m, f)
    BY <2>6 DEF Placed, ToSet
  <2> QED
    BY <2>6, <2>9, <2>10 DEF f
<1> QED
  BY <1>2, <1>3

\* Lines that are no headings close and open none.
LEMMA OthersOpenNothing ==
  ASSUME NEW in, NEW D, NEW E, D \subseteq E, \A g \in E : Heading(in, g) => g \in D,
         NEW hs, OpenIn(in, D, hs)
  PROVE  OpenIn(in, E, hs)
<1>1. ASSUME NEW h
      PROVE  Open(in, D, h) <=> Open(in, E, h)
  BY DEF Open
<1> QED
  BY <1>1 DEF OpenIn

\* A heading closes those of its level and below, and is open.
LEMMA HeadingOpens ==
  ASSUME NEW in \in SectionInputs, NEW D, SoFar(in, D), NEW id \in LineIds(in), Heading(in, id),
         \A d \in D : AtomsBefore(d, id),
         NEW hs \in [1..6 -> Slot], OpenIn(in, D, hs)
  PROVE  /\ LevelOf(in, id) \in 1..6
         /\ [Outer(hs, LevelOf(in, id)) EXCEPT ![LevelOf(in, id)] = <<id>>] \in [1..6 -> Slot]
         /\ OpenIn(in, D \cup {id}, [Outer(hs, LevelOf(in, id)) EXCEPT ![LevelOf(in, id)] = <<id>>])
<1> DEFINE v == LevelOf(in, id)
           E == D \cup {id}
           new == [Outer(hs, v) EXCEPT ![v] = <<id>>]
<1>1. v \in 1..6
  <2>1. v > 0
    BY DEF Heading
  <2>2. v \in 0..6
    BY LevelIs DEF LevelOf
  <2> QED
    BY <2>1, <2>2
<1>2. id \in Id /\ D \subseteq Id /\ id \notin D
  <2>1. LineIds(in) \subseteq Id /\ D \subseteq LineIds(in)
    BY SectionInputIs DEF SoFar
  <2> QED
    BY <2>1, EarlierOrders
<1>3. \A h : LevelOf(in, h) \in Int
  <2>1. \A h : LevelOf(in, h) \in 0..6
    BY LevelIs DEF LevelOf
  <2> QED
    BY <2>1
<1>4. Open(in, E, id)
  <2>1. ASSUME NEW g \in E, AtomsBefore(id, g)
        PROVE  FALSE
    <3>1. CASE g = id
      BY <1>2, <2>1, <3>1, EarlierOrders
    <3>2. CASE g \in D
      BY <1>2, <2>1, <3>2, EarlierOrders
    <3> QED
      BY <3>1, <3>2
  <2> QED
    BY <2>1 DEF Open
<1>5. ASSUME NEW h \in D
      PROVE  Open(in, E, h) <=> Open(in, D, h) /\ v > LevelOf(in, h)
  <2>1. AtomsBefore(h, id)
    OBVIOUS
  <2> QED
    BY <2>1 DEF Open
<1>6. \A h : Open(in, E, h) => h = id \/ h \in D
  BY DEF Open
<1>7. /\ new \in [1..6 -> Slot] /\ new[v] = <<id>>
      /\ \A l \in 1..6 : /\ l < v => new[l] = hs[l]
                         /\ l > v => new[l] = <<>>
  <2>1. <<>> \in Slot /\ <<id>> \in Slot
    BY <1>2 DEF Slot
  <2> HIDE DEF v
  <2>2. Outer(hs, v) \in [1..6 -> Slot]
    BY <2>1 DEF Outer
  <2>3. \A l \in 1..6 : Outer(hs, v)[l] = IF l < v THEN hs[l] ELSE <<>>
    BY DEF Outer
  <2> QED
    BY <1>1, <2>1, <2>2, <2>3
<1>8. \A h : Open(in, D, h) => h \in D
  BY DEF Open
<1> HIDE DEF v, E, new
<1>9. ASSUME NEW l \in 1..6, NEW h
      PROVE  new[l] = <<h>> <=> Open(in, E, h) /\ LevelOf(in, h) = l
  <2>1. CASE l = v
    <3>1. new[l] = <<h>> <=> h = id
      BY <1>7, <2>1
    <3>2. h \in D /\ Open(in, E, h) => LevelOf(in, h) # l
      BY <1>1, <1>3, <1>5, <2>1
    <3> QED
      BY <1>4, <1>6, <2>1, <3>1, <3>2 DEF v
  <2>2. CASE l < v
    <3>1. new[l] = <<h>> <=> Open(in, D, h) /\ LevelOf(in, h) = l
      BY <1>7, <2>2 DEF OpenIn
    <3>2. h = id => LevelOf(in, h) # l
      BY <1>1, <2>2 DEF v
    <3>3. h \in D /\ LevelOf(in, h) = l => (Open(in, E, h) <=> Open(in, D, h))
      BY <1>1, <1>5, <2>2
    <3> QED
      BY <1>6, <1>8, <3>1, <3>2, <3>3
  <2>3. CASE l > v
    <3>1. new[l] # <<h>>
      <4>1. new[l] = <<>>
        BY <1>7, <2>3
      <4>2. <<>> # <<h>>
        OBVIOUS
      <4> QED
        BY <4>1, <4>2
    <3>2. h = id => LevelOf(in, h) # l
      BY <1>1, <2>3 DEF v
    <3>3. h \in D /\ LevelOf(in, h) = l => ~Open(in, E, h)
      BY <1>1, <1>5, <2>3
    <3> QED
      BY <1>6, <3>1, <3>2, <3>3
  <2> QED
    BY <1>1, <2>1, <2>2, <2>3
<1> QED
  BY <1>1, <1>7, <1>9 DEF OpenIn, new, v, E

\* The next line of the document.
NextLine(in, D, id) == id \in LineIds(in) /\ SoFar(in, D) /\ SoFar(in, D \cup {id})
                    /\ \A d \in D : AtomsBefore(d, id)

\* An empty line adds nothing.
LEMMA EmptyLine ==
  ASSUME NEW in \in SectionInputs, NEW D, NEW id, NextLine(in, D, id), AtomOf(in, id).structured,
         LineOf(in, id) = Empty, NEW s, ReadTo(in, D, s)
  PROVE  ReadTo(in, D \cup {id}, s)
<1> DEFINE E == D \cup {id}
<1>1. ~Heading(in, id) /\ ~KeptLine(in, id)
  BY DEF Heading, KeptLine
<1>2. OpenIn(in, E, s.headings)
  BY <1>1, OthersOpenNothing DEF ReadTo
<1>3. \A x : x \in E /\ KeptLine(in, x) <=> x \in D /\ KeptLine(in, x)
  BY <1>1
<1>4. \A x \in ToSet(s.body), h \in E : Heading(in, h) => AtomsBefore(h, x)
  BY <1>1 DEF ReadTo
<1> HIDE DEF E
<1> QED
  BY <1>2, <1>3, <1>4 DEF ReadTo, E

\* A heading ends the body before it.
LEMMA HeadingLine ==
  ASSUME NEW in \in SectionInputs, NEW D, NEW id, NextLine(in, D, id),
         Heading(in, id), NEW s, ReadTo(in, D, s), NEW n, Placed(in, n, s)
  PROVE  /\ ReadTo(in, D \cup {id}, setHeading(in, s, LevelOf(in, id), id))
         /\ Placed(in, n, setHeading(in, s, LevelOf(in, id), id))
<1> DEFINE f == Flush(in, s)
           v == LevelOf(in, id)
           E == D \cup {id}
           hs == [Outer(f.headings, v) EXCEPT ![v] = <<id>>]
           r == setHeading(in, s, v, id)
<1>1. /\ id \in LineIds(in) /\ SoFar(in, D) /\ \A d \in D : AtomsBefore(d, id)
  BY DEF NextLine
<1>2. ReadTo(in, D, f) /\ f.body = <<>> /\ Placed(in, n, f)
  BY <1>1, FlushFiles
<1>3. r = [f EXCEPT !.headings = hs]
  BY DEF setHeading
<1> HIDE DEF f
<1>4. f \in Reading /\ f.headings \in [1..6 -> Slot] /\ OpenIn(in, D, f.headings)
  BY <1>2 DEF ReadTo, Reading
<1>5. hs \in [1..6 -> Slot] /\ OpenIn(in, E, hs)
  BY <1>1, <1>4, HeadingOpens
<1> HIDE DEF v, hs, r
<1>6. r \in Reading /\ r.headings = hs /\ r.out = f.out /\ r.body = <<>> /\ r.base = f.base
  BY <1>2, <1>3, <1>4, <1>5 DEF Reading
<1>7. ~KeptLine(in, id)
  BY DEF KeptLine, Heading
<1>8. \A x : x \in E /\ KeptLine(in, x) <=> x \in D /\ KeptLine(in, x)
  BY <1>7
<1>9. ToSet(r.body) = {}
  BY <1>6 DEF ToSet
<1> HIDE DEF E
<1>10. ReadTo(in, E, r)
  BY <1>2, <1>5, <1>6, <1>8, <1>9 DEF ReadTo
<1>11. Placed(in, n, r)
  BY <1>2, <1>6 DEF Placed
<1> QED
  BY <1>10, <1>11 DEF E, r, v

\* A line of text goes to the body.
LEMMA TextLine ==
  ASSUME NEW in \in SectionInputs, NEW D, NEW id, NextLine(in, D, id), AtomOf(in, id).structured,
         LineOf(in, id) # Empty, ~Heading(in, id),
         NEW s, ReadTo(in, D, s), Placed(in, id[1], s),
         NEW r, r = [s EXCEPT !.body = Append(s.body, id), !.base = IF s.base = 0 THEN id[1] ELSE s.base]
  PROVE  ReadTo(in, D \cup {id}, r) /\ Placed(in, id[1], r)
<1> DEFINE E == D \cup {id}
           b == Append(s.body, id)
<1>1. /\ id \in LineIds(in) /\ SoFar(in, D) /\ \A d \in D : AtomsBefore(d, id)
  BY DEF NextLine
<1>2. /\ id \in Id /\ D \subseteq LineIds(in) /\ D \subseteq Id
  BY <1>1, SectionInputIs DEF SoFar
<1>3. s \in Reading /\ s.body \in Seq(Id) /\ s.base \in Nat /\ id[1] \in Nat
  BY <1>2 DEF ReadTo, Reading, Id
<1>4. b \in Seq(Id) /\ r \in Reading /\ r.body = b /\ r.out = s.out /\ r.headings = s.headings
      /\ r.base = (IF s.base = 0 THEN id[1] ELSE s.base)
  <2>1. b \in Seq(Id)
    BY <1>2, <1>3, AppendProperties
  <2> HIDE DEF b
  <2>2. r = [s EXCEPT !.body = b, !.base = IF s.base = 0 THEN id[1] ELSE s.base]
    BY DEF b
  <2> QED
    BY <1>3, <2>1, <2>2 DEF Reading
<1>5. \A x : x \in ToSet(b) <=> x \in ToSet(s.body) \/ x = id
  <2> DEFINE k == Len(s.body)
  <2>1. /\ Len(b) = k + 1 /\ k \in Nat /\ b[k + 1] = id /\ \A i \in 1..k : b[i] = s.body[i]
    BY <1>2, <1>3, AppendProperties, LenProperties
  <2>2. \A x : x \in ToSet(b) <=> \E i \in 1..Len(b) : b[i] = x
    BY <1>4, ToSetOf
  <2>3. \A x : x \in ToSet(s.body) <=> \E i \in 1..k : s.body[i] = x
    BY <1>3, ToSetOf
  <2> HIDE DEF b, k
  <2>4. \A i : i \in 1..Len(b) <=> i \in 1..k \/ i = k + 1
    BY <2>1
  <2> QED
    BY <2>1, <2>2, <2>3, <2>4
<1>6. \A x \in ToSet(s.body) : x \in D
  BY DEF ReadTo
<1>7. Rising(b, Earlier)
  <2> DEFINE k == Len(s.body)
  <2>1. /\ Len(b) = k + 1 /\ k \in Nat /\ b[k + 1] = id /\ \A i \in 1..k : b[i] = s.body[i]
    BY <1>2, <1>3, AppendProperties, LenProperties
  <2>2. \A i \in 1..k : s.body[i] \in D /\ <<s.body[i], id>> \in Earlier
    <3>1. \A i \in 1..k : s.body[i] \in ToSet(s.body)
      BY <1>3, ToSetOf
    <3> QED
      BY <1>1, <1>2, <1>6, <3>1, EarlierOrders
  <2>3. \A i, j \in 1..k : i < j => <<s.body[i], s.body[j]>> \in Earlier
    BY DEF ReadTo, Rising
  <2> HIDE DEF b, k
  <2>4. ASSUME NEW i \in 1..Len(b), NEW j \in 1..Len(b), i < j
        PROVE  <<b[i], b[j]>> \in Earlier
    <3>1. i \in 1..k /\ (j \in 1..k \/ j = k + 1)
      BY <2>1, <2>4
    <3> QED
      BY <2>1, <2>2, <2>3, <2>4, <3>1
  <2> QED
    BY <2>4 DEF Rising
<1>8. KeptLine(in, id)
  BY DEF KeptLine
<1>9. OpenIn(in, E, r.headings)
  BY <1>4, OthersOpenNothing DEF ReadTo
<1>10. \A x \in ToSet(b), h \in E : Heading(in, h) => AtomsBefore(h, x)
  BY <1>1, <1>5 DEF ReadTo
<1>11. ASSUME NEW i \in 1..Len(s.out)
       PROVE  AllBefore(s.out[i].lines, b)
  <2>1. ASSUME NEW x \in ToSet(s.out[i].lines)
        PROVE  x \in D /\ <<x, id>> \in Earlier
    <3>1. x \in D
      BY <2>1 DEF ReadTo, InTexts
    <3> QED
      BY <1>1, <1>2, <3>1, EarlierOrders
  <2>2. AllBefore(s.out[i].lines, s.body)
    BY DEF ReadTo
  <2> QED
    BY <1>5, <2>1, <2>2 DEF AllBefore
<1>12. \A x : x \in E /\ KeptLine(in, x) <=> x \in ToSet(b) \/ InTexts(s.out, x)
  <2>1. \A x : x \in D /\ KeptLine(in, x) <=> x \in ToSet(s.body) \/ InTexts(s.out, x)
    BY DEF ReadTo
  <2>2. ASSUME NEW x
        PROVE  x \in E /\ KeptLine(in, x) <=> x \in ToSet(b) \/ InTexts(s.out, x)
    <3>1. CASE x = id
      BY <1>5, <1>8, <3>1
    <3>2. CASE x # id
      BY <1>5, <2>1, <3>2
    <3> QED
      BY <3>1, <3>2
  <2> QED
    BY <2>2
<1> HIDE DEF E, b
<1>13. ReadTo(in, E, r)
  BY <1>4, <1>7, <1>9, <1>10, <1>11, <1>12 DEF ReadTo
<1>14. Placed(in, id[1], r)
  <2>1. r.body # <<>>
    BY <1>2, <1>3, <1>4, AppendProperties, EmptySeq DEF b
  <2>3. \A x \in ToSet(b) : AtomOf(in, x).structured
    BY <1>5 DEF Placed
  <2>2. ASSUME NEW x \in ToSet(b), AtomOf(in, x).parser
        PROVE  x[1] = r.base /\ x[1] = id[1]
    <3>1. CASE s.base = 0
      <4>1. x = id
        <5>1. ASSUME x \in ToSet(s.body)
              PROVE  x[1] = 0 /\ x \in LineIds(in)
          BY <1>2, <1>6, <2>2, <3>1, <5>1 DEF Placed
        <5>2. \A y \in LineIds(in) : y[1] # 0
          BY SectionInputIs
        <5> QED
          BY <1>5, <2>2, <5>1, <5>2
      <4> QED
        BY <1>4, <3>1, <4>1
    <3>2. CASE s.base # 0
      <4>1. s.body # <<>>
        BY <3>2 DEF Placed
      <4>2. PICK y : y \in ToSet(s.body)
        <5>1. Len(s.body) \in Nat /\ Len(s.body) # 0
          BY <1>3, <4>1, EmptySeq, LenProperties
        <5>2. 1 \in 1..Len(s.body)
          BY <5>1
        <5> QED
          BY <1>3, <5>2, ToSetOf
      <4>3. AtomOf(in, y).parser
        <5>1. x \in LineIds(in) /\ y \in LineIds(in)
          BY <1>1, <1>2, <1>5, <1>6, <2>2, <4>2
        <5>2. x[1] \in DOMAIN in.atoms /\ y[1] \in DOMAIN in.atoms
          BY <5>1, SectionInputIs
        <5>4. in.atoms[x[1]].structured /\ in.atoms[y[1]].structured
          BY <1>5, <2>2, <4>2, <2>3 DEF AtomOf
        <5>3. in.atoms[x[1]].parser = in.atoms[y[1]].parser
          BY <5>2, <5>4, SectionAssumption
        <5> QED
          BY <2>2, <5>3 DEF AtomOf
      <4>4. y[1] = s.base /\ y[1] = id[1]
        BY <4>2, <4>3 DEF Placed
      <4>5. CASE x = id
        BY <1>4, <3>2, <4>4, <4>5
      <4>6. CASE x \in ToSet(s.body)
        BY <1>4, <2>2, <3>2, <4>6 DEF Placed
      <4> QED
        BY <1>5, <2>2, <4>5, <4>6
    <3> QED
      BY <3>1, <3>2
  <2> QED
    BY <1>4, <2>1, <2>2, <2>3 DEF Placed
<1> QED
  BY <1>13, <1>14 DEF E

\* Each line is added to what has been read.
LEMMA LineAdded ==
  ASSUME NEW in \in SectionInputs, NEW D, NEW id, NextLine(in, D, id), AtomOf(in, id).structured,
         NEW s, ReadTo(in, D, s), Placed(in, id[1], s)
  PROVE  ReadTo(in, D \cup {id}, AddLine(in, s, id)) /\ Placed(in, id[1], AddLine(in, s, id))
<1> DEFINE v == LevelOf(in, id)
           r == AddLine(in, s, id)
<1>1. v = Level(in.atoms[id[1]], LineOf(in, id)) /\ v \in 0..6
  BY LevelIs DEF LevelOf, AtomOf
<1>2. CASE LineOf(in, id) = Empty
  <2>1. r = s
    BY <1>2 DEF AddLine
  <2> HIDE DEF r
  <2> QED
    BY <1>2, <2>1, EmptyLine DEF r
<1>3. CASE LineOf(in, id) # Empty /\ v > 0
  <2>1. r = setHeading(in, s, v, id)
    BY <1>1, <1>3 DEF AddLine
  <2>2. Heading(in, id)
    BY <1>3 DEF Heading
  <2> HIDE DEF r
  <2>3. ReadTo(in, D \cup {id}, r) /\ Placed(in, id[1], r)
    BY <2>1, <2>2, HeadingLine
  <2> QED
    BY <2>3 DEF r
<1>4. CASE LineOf(in, id) # Empty /\ ~(v > 0)
  <2>1. r = [s EXCEPT !.body = Append(s.body, id), !.base = IF s.base = 0 THEN id[1] ELSE s.base]
    <3>1. s = [out |-> s.out, headings |-> s.headings, body |-> s.body, base |-> s.base]
      BY DEF ReadTo, Reading
    <3> QED
      BY <1>1, <1>4, <3>1 DEF AddLine
  <2>2. ~Heading(in, id)
    BY <1>4 DEF Heading
  <2> HIDE DEF r
  <2>3. ReadTo(in, D \cup {id}, r) /\ Placed(in, id[1], r)
    BY <1>4, <2>1, <2>2, TextLine
  <2> QED
    BY <2>3 DEF r
<1> QED
  BY <1>2, <1>3, <1>4

\* The lines of the document up to line i of atom n.
LinesTo(in, n, i) == {id \in LineIds(in) : id[1] < n \/ (id[1] = n /\ id[2] <= i)}

LEMMA LinesToAre ==
  ASSUME NEW in \in SectionInputs, NEW n \in 1..Len(in.atoms)
  PROVE  /\ \A i \in Nat : SoFar(in, LinesTo(in, n, i))
         /\ \A i \in 0..(Len(in.atoms[n].lines) - 1) :
              /\ LinesTo(in, n, i + 1) = LinesTo(in, n, i) \cup {<<n, i + 1>>}
              /\ NextLine(in, LinesTo(in, n, i), <<n, i + 1>>)
              /\ <<n, i + 1>>[1] = n
         /\ LinesTo(in, n, Len(in.atoms[n].lines)) = LinesTo(in, n + 1, 0)
<1> DEFINE m == Len(in.atoms[n].lines)
<1>1. /\ Len(in.atoms) \in Nat /\ n \in Nat /\ m \in Nat /\ LineIds(in) \subseteq Id
      /\ \A id : id \in LineIds(in) <=>
              \E k \in 1..Len(in.atoms) : \E i \in 1..Len(in.atoms[k].lines) : id = <<k, i>>
  <2>1. Len(in.atoms) \in Nat /\ m \in Nat /\ LineIds(in) \subseteq Id
    BY SectionInputIs
  <2>2. \A id : id \in LineIds(in) <=>
              \E k \in 1..Len(in.atoms) : \E i \in 1..Len(in.atoms[k].lines) : id = <<k, i>>
    BY SectionInputIs
  <2>3. n \in Nat
    BY <2>1
  <2> QED
    BY <2>1, <2>2, <2>3
<1>2. \A id \in LineIds(in) : id[1] \in Nat \ {0} /\ id[2] \in Nat \ {0} /\ id = <<id[1], id[2]>>
  <2>1. \A k \in 1..Len(in.atoms) : Len(in.atoms[k].lines) \in Nat
    BY SectionInputIs
  <2>2. ASSUME NEW id \in LineIds(in)
        PROVE  id[1] \in Nat \ {0} /\ id[2] \in Nat \ {0} /\ id = <<id[1], id[2]>>
    <3>1. PICK k \in 1..Len(in.atoms) : \E i \in 1..Len(in.atoms[k].lines) : id = <<k, i>>
      BY <1>1
    <3>2. PICK i \in 1..Len(in.atoms[k].lines) : id = <<k, i>>
      BY <3>1
    <3>3. k \in Nat \ {0} /\ i \in Nat \ {0}
      BY <1>1, <2>1
    <3> QED
      BY <3>2, <3>3
  <2> QED
    BY <2>2
<1>3. \A id \in LineIds(in) : id[1] = n => id[2] <= m
  <2>1. ASSUME NEW id \in LineIds(in), id[1] = n
        PROVE  id[2] <= m
    <3>1. PICK k \in 1..Len(in.atoms) : \E i \in 1..Len(in.atoms[k].lines) : id = <<k, i>>
      BY <1>1
    <3>2. PICK i \in 1..Len(in.atoms[k].lines) : id = <<k, i>>
      BY <3>1
    <3>3. k = n /\ id[2] = i
      BY <2>1, <3>2
    <3> QED
      BY <1>1, <3>3
  <2> QED
    BY <2>1
<1>4. \A i \in 1..m : <<n, i>> \in LineIds(in)
  BY <1>1
<1> HIDE DEF m
<1>5. ASSUME NEW i \in Nat
      PROVE  SoFar(in, LinesTo(in, n, i))
  BY <1>1, <1>2 DEF SoFar, LinesTo, AtomsBefore
<1>6. ASSUME NEW i \in 0..(m - 1)
      PROVE  /\ LinesTo(in, n, i + 1) = LinesTo(in, n, i) \cup {<<n, i + 1>>}
             /\ NextLine(in, LinesTo(in, n, i), <<n, i + 1>>)
  <2> DEFINE j == i + 1
             x == <<n, j>>
  <2>1. j \in 1..m /\ i \in Nat /\ j \in Nat /\ \A a \in Nat : a <= j <=> (a <= i \/ a = j)
    BY <1>1
  <2>2. i < j
    BY <2>1
  <2> HIDE DEF j
  <2>3. x \in LineIds(in) /\ x[1] = n /\ x[2] = j
    BY <1>4, <2>1
  <2>4. \A y \in LineIds(in) : y[1] = n /\ y[2] = j => y = x
    BY <1>2
  <2> HIDE DEF x
  <2>5. ASSUME NEW y \in LineIds(in)
        PROVE  y \in LinesTo(in, n, j) <=> y \in LinesTo(in, n, i) \cup {x}
    <3>1. y[1] \in Nat /\ y[2] \in Nat
      BY <1>2
    <3> QED
      BY <1>1, <2>1, <2>3, <2>4, <3>1 DEF LinesTo
  <2>6. \A y : y \in LinesTo(in, n, j) \/ y \in LinesTo(in, n, i) \cup {x} => y \in LineIds(in)
    BY <2>3 DEF LinesTo
  <2>7. LinesTo(in, n, j) = LinesTo(in, n, i) \cup {x}
    BY <2>5, <2>6
  <2>8. \A d \in LinesTo(in, n, i) : AtomsBefore(d, x)
    <3>1. ASSUME NEW d \in LinesTo(in, n, i)
          PROVE  AtomsBefore(d, x)
      <4>1. d \in LineIds(in) /\ d[1] \in Nat /\ d[2] \in Nat /\ (d[1] < n \/ (d[1] = n /\ d[2] <= i))
        BY <1>2 DEF LinesTo
      <4> QED
        BY <2>1, <2>2, <2>3, <4>1 DEF AtomsBefore
    <3> QED
      BY <3>1
  <2>9. SoFar(in, LinesTo(in, n, i)) /\ SoFar(in, LinesTo(in, n, j))
    BY <1>5, <2>1
  <2> QED
    BY <2>3, <2>7, <2>8, <2>9 DEF NextLine, j, x
<1>7. LinesTo(in, n, m) = LinesTo(in, n + 1, 0)
  <2>1. ASSUME NEW y \in LineIds(in)
        PROVE  y \in LinesTo(in, n, m) <=> y \in LinesTo(in, n + 1, 0)
    <3>1. y[1] \in Nat /\ y[2] \in Nat \ {0} /\ (y[1] = n => y[2] <= m)
      BY <1>2, <1>3
    <3> QED
      BY <1>1, <3>1 DEF LinesTo
  <2>2. \A y : y \in LinesTo(in, n, m) \/ y \in LinesTo(in, n + 1, 0) => y \in LineIds(in)
    BY DEF LinesTo
  <2> QED
    BY <2>1, <2>2
<1> QED
  BY <1>5, <1>6, <1>7 DEF m

\* The state keeps its type.
LEMMA FlushTyped ==
  ASSUME NEW in \in SectionInputs, NEW s \in Reading
  PROVE  Flush(in, s) \in Reading
<1> DEFINE p == Path(s.headings)
           t == Text(s.base, s.body, p, in.paper /\ IsAbstract(in, p))
<1>1. /\ s.out \in Seq(TextType) /\ s.body \in Seq(Id) /\ s.base \in Nat
      /\ s.headings \in [1..6 -> Slot]
  BY DEF Reading
<1>2. p \in Seq(Id)
  BY <1>1, PathHas
<1>3. IsAbstract(in, p) \in BOOLEAN /\ in.paper \in BOOLEAN
  BY SectionAssumption DEF IsAbstract
<1>4. s.body # <<>> => Flush(in, s) = [s EXCEPT !.body = <<>>, !.base = 0, !.out = Append(s.out, t)]
  BY DEF Flush
<1>5. s.body = <<>> => Flush(in, s) = s
  BY DEF Flush
<1> HIDE DEF p
<1>6. t \in TextType
  BY <1>1, <1>2, <1>3 DEF Text, TextType
<1> HIDE DEF t
<1>7. Append(s.out, t) \in Seq(TextType) /\ <<>> \in Seq(Id) /\ 0 \in Nat
  BY <1>1, <1>6, OneTextMore
<1>8. [s EXCEPT !.body = <<>>, !.base = 0, !.out = Append(s.out, t)] \in Reading
  BY <1>1, <1>7 DEF Reading
<1> QED
  BY <1>4, <1>5, <1>8

LEMMA AddLineTyped ==
  ASSUME NEW in \in SectionInputs, NEW s \in Reading, NEW id \in LineIds(in)
  PROVE  AddLine(in, s, id) \in Reading
<1> DEFINE f == Flush(in, s)
           v == Level(in.atoms[id[1]], LineOf(in, id))
           hs == [Outer(f.headings, v) EXCEPT ![v] = <<id>>]
<1>1. id \in Id /\ id[1] \in Nat
  BY SectionInputIs DEF Id
<1>2. f \in Reading
  BY FlushTyped
<1>3. v \in 0..6
  BY LevelIs
<1>4. AddLine(in, s, id) =
        IF LineOf(in, id) = Empty THEN s
        ELSE IF v > 0 THEN [f EXCEPT !.headings = hs]
        ELSE [s EXCEPT !.body = Append(s.body, id), !.base = IF s.base = 0 THEN id[1] ELSE s.base]
  <2>1. s = [out |-> s.out, headings |-> s.headings, body |-> s.body, base |-> s.base]
    BY DEF Reading
  <2> QED
    BY <2>1 DEF AddLine, setHeading
<1> HIDE DEF f, v
<1>5. hs \in [1..6 -> Slot]
  <2>1. f.headings \in [1..6 -> Slot] /\ <<>> \in Slot /\ <<id>> \in Slot
    BY <1>1, <1>2 DEF Reading, Slot
  <2>2. Outer(f.headings, v) \in [1..6 -> Slot]
    BY <2>1 DEF Outer
  <2> QED
    BY <2>1, <2>2
<1> HIDE DEF hs
<1>6. [f EXCEPT !.headings = hs] \in Reading
  BY <1>2, <1>5 DEF Reading
<1>7. [s EXCEPT !.body = Append(s.body, id), !.base = IF s.base = 0 THEN id[1] ELSE s.base] \in Reading
  <2> DEFINE b == Append(s.body, id)
  <2>1. s.body \in Seq(Id) /\ s.base \in Nat
    BY DEF Reading
  <2>2. b \in Seq(Id)
    BY <1>1, <2>1, AppendProperties
  <2> HIDE DEF b
  <2>3. [s EXCEPT !.body = b, !.base = IF s.base = 0 THEN id[1] ELSE s.base] \in Reading
    BY <1>1, <2>1, <2>2 DEF Reading
  <2> QED
    BY <2>3 DEF b
<1> QED
  BY <1>4, <1>6, <1>7

\* The reading of the lines of atom a, and its course.
LinesRead(in, start, a) ==
  FoldLeft(LAMBDA t, id : AddLine(in, t, id), start, [i \in DOMAIN in.atoms[a].lines |-> <<a, i>>])
LineCourse(F, in, start, a) ==
  /\ F[0] = start
  /\ \A k \in 0..(Len(in.atoms[a].lines) - 1) : F[k + 1] = AddLine(in, F[k], <<a, k + 1>>)

LEMMA LinesFold ==
  ASSUME NEW in \in SectionInputs, NEW start \in Reading, NEW a \in 1..Len(in.atoms)
  PROVE  \E F : LineCourse(F, in, start, a) /\ LinesRead(in, start, a) = F[Len(in.atoms[a].lines)]
<1> DEFINE n == Len(in.atoms[a].lines)
           X == Reading
           step == [p \in X \X (1..n) |-> AddLine(in, p[1], <<a, p[2]>>)]
           places == [k \in DOMAIN in.atoms[a].lines |-> <<a, k>>]
           Folds(it) == it = [s \in SUBSET (DOMAIN places) |->
                                IF s = {} THEN start ELSE AddLine(in, it[s \ {Max(s)}], places[Max(s)])]
           it == CHOOSE it : Folds(it)
<1>1. n \in Nat /\ DOMAIN in.atoms[a].lines = 1..n /\ start \in X
  BY SectionInputIs
<1>2. DOMAIN places = 1..n /\ \A k \in 1..n : places[k] = <<a, k>>
  BY <1>1
<1>3. ASSUME NEW p \in X, NEW k \in 1..n
      PROVE  <<p, k>> \in X \X (1..n) /\ step[<<p, k>>] = AddLine(in, p, <<a, k>>)
             /\ AddLine(in, p, <<a, k>>) \in X
  <2>1. AddLine(in, p, <<a, k>>) \in X
    BY <1>1, SectionInputIs, AddLineTyped
  <2>2. <<p, k>> \in X \X (1..n) /\ <<p, k>>[1] = p /\ <<p, k>>[2] = k
    OBVIOUS
  <2> HIDE DEF X, n
  <2> QED
    BY <2>1, <2>2
<1>4. step \in [X \X (1..n) -> X]
  <2>1. ASSUME NEW p \in X \X (1..n)
        PROVE  AddLine(in, p[1], <<a, p[2]>>) \in X
    <3>1. p[1] \in X /\ p[2] \in 1..n
      OBVIOUS
    <3> HIDE DEF X
    <3> QED
      BY <1>3, <3>1
  <2> QED
    BY <2>1
<1>5. LinesRead(in, start, a) = it[1..n]
  <2>1. LinesRead(in, start, a) = it[DOMAIN places]
    BY DEF LinesRead, FoldLeft, MapThenFoldSet
  <2> HIDE DEF it, places
  <2> QED
    BY <1>2, <2>1
<1> HIDE DEF step, n, X, places
<1>6. PICK g : FoldsSets(g, n, X, start, step)
  BY <1>1, <1>4, FoldRecursion
<1>7. ASSUME NEW s \in SUBSET (1..n), s # {}
      PROVE  Max(s) \in 1..n /\ s \ {Max(s)} \in SUBSET (1..n)
  <2>1. s \subseteq Nat /\ \A m \in s : m <= n
    BY <1>1
  <2>2. Max(s) \in s
    BY <1>1, <1>7, <2>1, NatMax
  <2> QED
    BY <2>2
<1>8. Folds(g)
  <2>1. ASSUME NEW s \in SUBSET (1..n)
        PROVE  g[s] = IF s = {} THEN start ELSE AddLine(in, g[s \ {Max(s)}], places[Max(s)])
    <3>1. CASE s = {}
      BY <1>6, <3>1 DEF FoldsSets
    <3>2. CASE s # {}
      <4>1. Max(s) \in 1..n /\ g[s \ {Max(s)}] \in X
        BY <1>6, <1>7, <3>2 DEF FoldsSets
      <4>2. g[s] = step[<<g[s \ {Max(s)}], Max(s)>>]
        BY <1>6, <3>2 DEF FoldsSets
      <4>3. step[<<g[s \ {Max(s)}], Max(s)>>] = AddLine(in, g[s \ {Max(s)}], <<a, Max(s)>>)
        BY <1>3, <4>1
      <4>4. places[Max(s)] = <<a, Max(s)>>
        BY <1>2, <4>1
      <4> QED
        BY <3>2, <4>2, <4>3, <4>4
    <3> QED
      BY <3>1, <3>2
  <2>2. g \in [SUBSET (1..n) -> X]
    BY <1>6 DEF FoldsSets
  <2> QED
    BY <1>2, <2>1, <2>2
<1>9. Folds(it)
  <2> HIDE DEF Folds
  <2> QED
    BY <1>8
<1>10. \A s \in SUBSET (1..n) :
         it[s] = IF s = {} THEN start ELSE AddLine(in, it[s \ {Max(s)}], places[Max(s)])
  <2> HIDE DEF it
  <2> QED
    BY <1>2, <1>9
<1> HIDE DEF it, Folds
<1>11. SolvesFold(it, n, X, start, step)
  <2>1. {} \in SUBSET (1..n)
    OBVIOUS
  <2>2. ASSUME NEW s \in SUBSET (1..n), s # {}, it[s \ {Max(s)}] \in X
        PROVE  it[s] = step[<<it[s \ {Max(s)}], Max(s)>>]
    <3>1. Max(s) \in 1..n
      BY <1>7, <2>2
    <3>2. places[Max(s)] = <<a, Max(s)>>
      BY <1>2, <3>1
    <3>3. it[s] = AddLine(in, it[s \ {Max(s)}], <<a, Max(s)>>)
      BY <1>10, <2>2, <3>2
    <3>4. step[<<it[s \ {Max(s)}], Max(s)>>] = AddLine(in, it[s \ {Max(s)}], <<a, Max(s)>>)
      BY <1>3, <2>2, <3>1
    <3> QED
      BY <3>3, <3>4
  <2> QED
    BY <1>10, <2>1, <2>2 DEF SolvesFold
<1>12. PICK F : FoldsUp(F, it, n, X, start, step)
  BY <1>1, <1>4, <1>11, FoldCourse
<1>13. ASSUME NEW k \in 0..(n - 1)
       PROVE  F[k + 1] = AddLine(in, F[k], <<a, k + 1>>)
  <2> DEFINE m == k + 1
  <2>1. m \in 1..n /\ m - 1 = k
    BY <1>1
  <2> HIDE DEF m
  <2>2. F[m] = step[<<F[k], m>>] /\ F[k] \in X
    BY <1>12, <2>1 DEF FoldsUp
  <2>3. F[m] = AddLine(in, F[k], <<a, m>>)
    BY <1>3, <2>1, <2>2
  <2> QED
    BY <2>3 DEF m
<1>14. F[0] = start /\ F[n] = it[1..n]
  BY <1>12 DEF FoldsUp
<1> QED
  BY <1>5, <1>13, <1>14 DEF LineCourse, n

LEMMA SectionAtomTyped ==
  ASSUME NEW in \in SectionInputs, NEW s \in Reading, NEW n \in 1..Len(in.atoms)
  PROVE  AddSectionAtom(in, s, n) \in Reading
<1> DEFINE a == in.atoms[n]
           m == Len(a.lines)
           ids == [i \in DOMAIN a.lines |-> <<n, i>>]
           l == LinesRead(in, s, n)
           t == Flush(in, s)
           x == Text(n, ids, Path(t.headings), FALSE)
<1>1. /\ m \in Nat /\ DOMAIN a.lines = 1..m /\ n \in Nat
      /\ \A i \in 1..m : <<n, i>> \in LineIds(in) /\ <<n, i>> \in Id
  <2>1. Len(in.atoms) \in Nat /\ m \in Nat /\ DOMAIN a.lines = 1..m /\ LineIds(in) \subseteq Id
    BY SectionInputIs
  <2>2. \A i \in 1..m : <<n, i>> \in LineIds(in)
    BY SectionInputIs
  <2>3. n \in Nat
    BY <2>1
  <2> QED
    BY <2>1, <2>2, <2>3
<1>2. AddSectionAtom(in, s, n) =
        IF a.structured THEN EndAtom(in, l, a) ELSE [t EXCEPT !.out = Append(t.out, x)]
  BY DEF AddSectionAtom, LinesRead
<1>3. l \in Reading
  <2>1. PICK F : LineCourse(F, in, s, n) /\ l = F[m]
    BY LinesFold
  <2> DEFINE G == {k \in 0..m : F[k] \in Reading}
  <2>2. 0 \in G
    BY <1>1, <2>1 DEF LineCourse
  <2>3. ASSUME NEW k \in 0..(m - 1), k \in G
        PROVE  k + 1 \in G
    <3>1. k + 1 \in 1..m /\ k + 1 \in 0..m
      BY <1>1
    <3>2. F[k + 1] = AddLine(in, F[k], <<n, k + 1>>)
      BY <2>1 DEF LineCourse
    <3>3. F[k + 1] \in Reading
      BY <1>1, <2>3, <3>1, <3>2, AddLineTyped
    <3> QED
      BY <3>1, <3>3
  <2> HIDE DEF m, l
  <2>4. m \in G
    <3> HIDE DEF G
    <3>1. 0..m \subseteq G
      BY <1>1, <2>2, <2>3, CountingUp
    <3>2. m \in 0..m
      BY <1>1
    <3> QED
      BY <3>1, <3>2
  <2> QED
    BY <2>1, <2>4
<1>4. EndAtom(in, l, a) \in Reading
  BY <1>3, FlushTyped DEF EndAtom
<1>5. t \in Reading /\ t.out \in Seq(TextType) /\ t.headings \in [1..6 -> Slot]
  <2>1. t \in Reading
    BY FlushTyped
  <2> HIDE DEF t
  <2> QED
    BY <2>1 DEF Reading
<1>6. x \in TextType
  <2>1. ids \in Seq(Id)
    <3>1. ids \in [1..m -> Id]
      BY <1>1
    <3> QED
      BY <1>1, <3>1, ListOf
  <2>2. Path(t.headings) \in Seq(Id)
    BY <1>5, PathHas
  <2>3. FALSE \in BOOLEAN
    OBVIOUS
  <2> HIDE DEF ids, t
  <2> QED
    BY <1>1, <2>1, <2>2, <2>3 DEF Text, TextType
<1> HIDE DEF t, x, l
<1>7. [t EXCEPT !.out = Append(t.out, x)] \in Reading
  <2> DEFINE o == Append(t.out, x)
  <2>1. o \in Seq(TextType)
    BY <1>5, <1>6, OneTextMore
  <2> HIDE DEF o
  <2>2. [t EXCEPT !.out = o] \in Reading
    BY <1>5, <2>1 DEF Reading
  <2> QED
    BY <2>2 DEF o
<1> QED
  BY <1>2, <1>4, <1>7

\* The lines of an atom of text are read one after the other.
LEMMA TextAtomRead ==
  ASSUME NEW in \in SectionInputs, NEW n \in 1..Len(in.atoms), in.atoms[n].structured,
         NEW s, ReadTo(in, LinesTo(in, n, 0), s), Placed(in, n, s)
  PROVE  ReadTo(in, LinesTo(in, n + 1, 0), LinesRead(in, s, n)) /\ Placed(in, n, LinesRead(in, s, n))
<1> DEFINE m == Len(in.atoms[n].lines)
           l == LinesRead(in, s, n)
<1>1. m \in Nat
  BY SectionInputIs
<1>2. s \in Reading
  BY DEF ReadTo
<1>3. PICK F : LineCourse(F, in, s, n) /\ l = F[m]
  BY <1>2, LinesFold
<1> DEFINE G == {k \in 0..m : ReadTo(in, LinesTo(in, n, k), F[k]) /\ Placed(in, n, F[k])}
<1>4. 0 \in G
  BY <1>1, <1>3 DEF LineCourse
<1>5. ASSUME NEW k \in 0..(m - 1), k \in G
      PROVE  k + 1 \in G
  <2> DEFINE id == <<n, k + 1>>
  <2>1. F[k + 1] = AddLine(in, F[k], id)
    BY <1>3 DEF LineCourse
  <2>2. /\ LinesTo(in, n, k + 1) = LinesTo(in, n, k) \cup {id}
        /\ NextLine(in, LinesTo(in, n, k), id) /\ id[1] = n
    BY LinesToAre
  <2>3. ReadTo(in, LinesTo(in, n, k), F[k]) /\ Placed(in, n, F[k])
    BY <1>5
  <2>4. AtomOf(in, id).structured
    BY DEF AtomOf
  <2> HIDE DEF id
  <2>5. ReadTo(in, LinesTo(in, n, k + 1), F[k + 1]) /\ Placed(in, n, F[k + 1])
    BY <2>1, <2>2, <2>3, <2>4, LineAdded
  <2>6. k + 1 \in 0..m
    BY <1>1
  <2> QED
    BY <2>5, <2>6
<1> HIDE DEF m, l
<1>6. m \in G
  <2> HIDE DEF G
  <2>1. 0..m \subseteq G
    BY <1>1, <1>4, <1>5, CountingUp
  <2>2. m \in 0..m
    BY <1>1
  <2> QED
    BY <2>1, <2>2
<1>7. LinesTo(in, n, m) = LinesTo(in, n + 1, 0)
  BY LinesToAre DEF m
<1> QED
  BY <1>3, <1>6, <1>7 DEF l

\* The lines of an atom that is no text, among all lines.
LEMMA AtomLines ==
  ASSUME NEW in \in SectionInputs, NEW n \in 1..Len(in.atoms),
         NEW ids, ids = [i \in DOMAIN in.atoms[n].lines |-> <<n, i>>]
  PROVE  /\ ids \in Seq(Id) /\ Rising(ids, Earlier)
         /\ \A x : x \in ToSet(ids) <=> x \in LineIds(in) /\ x[1] = n
         /\ \A x : x \in LinesTo(in, n + 1, 0) <=> x \in LinesTo(in, n, 0) \/ x \in ToSet(ids)
         /\ \A d \in LinesTo(in, n, 0), x \in ToSet(ids) : AtomsBefore(d, x)
         /\ \A g \in LineIds(in), x \in ToSet(ids) : AtomsBefore(g, x) => g \in LinesTo(in, n, 0) \/ g \in ToSet(ids)
<1> DEFINE m == Len(in.atoms[n].lines)
<1>1. /\ m \in Nat /\ DOMAIN in.atoms[n].lines = 1..m /\ n \in Nat /\ LineIds(in) \subseteq Id
      /\ \A i \in 1..m : <<n, i>> \in LineIds(in)
      /\ \A x \in LineIds(in) : x[1] = n => \E i \in 1..m : x = <<n, i>>
  <2>1. Len(in.atoms) \in Nat /\ m \in Nat /\ DOMAIN in.atoms[n].lines = 1..m /\ LineIds(in) \subseteq Id
    BY SectionInputIs
  <2>2. \A i \in 1..m : <<n, i>> \in LineIds(in)
    BY SectionInputIs
  <2>3. n \in Nat
    BY <2>1
  <2>4. ASSUME NEW x \in LineIds(in), x[1] = n
        PROVE  \E i \in 1..m : x = <<n, i>>
    <3>1. PICK k \in 1..Len(in.atoms) : \E i \in 1..Len(in.atoms[k].lines) : x = <<k, i>>
      BY SectionInputIs
    <3> QED
      BY <2>4, <3>1
  <2> QED
    BY <2>1, <2>2, <2>3, <2>4
<1> HIDE DEF m
<1>2. ids \in [1..m -> Id] /\ \A i \in 1..m : ids[i] = <<n, i>>
  BY <1>1
<1>3. ids \in Seq(Id) /\ Len(ids) = m
  BY <1>1, <1>2, ListOf
<1>4. \A x : x \in ToSet(ids) <=> \E i \in 1..m : x = <<n, i>>
  <2>1. \A x : x \in ToSet(ids) <=> \E i \in 1..Len(ids) : ids[i] = x
    BY <1>3, ToSetOf
  <2> QED
    BY <1>2, <1>3, <2>1
<1>5. \A x : x \in ToSet(ids) <=> x \in LineIds(in) /\ x[1] = n
  <2>1. \A i \in 1..m : <<n, i>>[1] = n
    OBVIOUS
  <2> QED
    BY <1>1, <1>4, <2>1
<1>6. Rising(ids, Earlier)
  <2>1. ASSUME NEW i \in 1..m, NEW j \in 1..m, i < j
        PROVE  <<ids[i], ids[j]>> \in Earlier
    <3>1. AtomsBefore(ids[i], ids[j])
      BY <1>2, <2>1 DEF AtomsBefore
    <3>2. ids[i] \in Id /\ ids[j] \in Id
      BY <1>2
    <3> QED
      BY <3>1, <3>2, EarlierOrders
  <2> QED
    BY <1>3, <2>1 DEF Rising
<1>7. \A x \in LineIds(in) : x[1] \in Nat /\ x[2] \in Nat \ {0}
  <2>1. ASSUME NEW x \in LineIds(in)
        PROVE  x[1] \in Nat /\ x[2] \in Nat \ {0}
    <3>1. PICK k \in 1..Len(in.atoms) : \E i \in 1..Len(in.atoms[k].lines) : x = <<k, i>>
      BY SectionInputIs
    <3>2. PICK i \in 1..Len(in.atoms[k].lines) : x = <<k, i>>
      BY <3>1
    <3>3. Len(in.atoms) \in Nat /\ Len(in.atoms[k].lines) \in Nat
      BY SectionInputIs
    <3> QED
      BY <3>2, <3>3
  <2> QED
    BY <2>1
<1>8. \A x : x \in LinesTo(in, n, 0) <=> x \in LineIds(in) /\ x[1] < n
  BY <1>1, <1>7 DEF LinesTo
<1>9. \A x : x \in LinesTo(in, n + 1, 0) <=> x \in LineIds(in) /\ (x[1] < n \/ x[1] = n)
  BY <1>1, <1>7 DEF LinesTo
<1>10. \A d \in LinesTo(in, n, 0), x \in ToSet(ids) : AtomsBefore(d, x)
  BY <1>5, <1>8 DEF AtomsBefore
<1>11. \A g \in LineIds(in), x \in ToSet(ids) : AtomsBefore(g, x) => g \in LinesTo(in, n, 0) \/ g \in ToSet(ids)
  BY <1>5, <1>8 DEF AtomsBefore
<1> QED
  BY <1>3, <1>5, <1>6, <1>8, <1>9, <1>10, <1>11

\* An atom that is no text is written out as it is.
LEMMA OtherAtomRead ==
  ASSUME NEW in \in SectionInputs, NEW n \in 1..Len(in.atoms), ~in.atoms[n].structured,
         NEW s, ReadTo(in, LinesTo(in, n, 0), s), Placed(in, n, s)
  PROVE  /\ ReadTo(in, LinesTo(in, n + 1, 0), AddSectionAtom(in, s, n))
         /\ Placed(in, n + 1, AddSectionAtom(in, s, n))
<1> DEFINE D == LinesTo(in, n, 0)
           E == LinesTo(in, n + 1, 0)
           ids == [i \in DOMAIN in.atoms[n].lines |-> <<n, i>>]
           f == Flush(in, s)
           x == Text(n, ids, Path(f.headings), FALSE)
           r == AddSectionAtom(in, s, n)
<1>1. r = [f EXCEPT !.out = Append(f.out, x)]
  BY DEF AddSectionAtom
<1>2. n \in Nat /\ SoFar(in, D) /\ D \subseteq LineIds(in) /\ LineIds(in) \subseteq Id
  <2>1. Len(in.atoms) \in Nat /\ LineIds(in) \subseteq Id
    BY SectionInputIs
  <2>2. SoFar(in, D)
    BY LinesToAre
  <2>3. n \in Nat
    BY <2>1
  <2> HIDE DEF D
  <2> QED
    BY <2>1, <2>2, <2>3 DEF SoFar
<1>3. ReadTo(in, D, f) /\ f.body = <<>> /\ \A m : Placed(in, m, f)
  BY <1>2, FlushFiles
<1>4. /\ ids \in Seq(Id) /\ Rising(ids, Earlier)
      /\ \A y : y \in ToSet(ids) <=> y \in LineIds(in) /\ y[1] = n
      /\ \A y : y \in E <=> y \in D \/ y \in ToSet(ids)
      /\ \A d \in D, y \in ToSet(ids) : AtomsBefore(d, y)
      /\ \A g \in LineIds(in), y \in ToSet(ids) : AtomsBefore(g, y) => g \in D \/ g \in ToSet(ids)
  BY AtomLines
<1> HIDE DEF D, E, ids, f, r
<1>5. /\ f \in Reading /\ f.out \in Seq(TextType) /\ f.headings \in [1..6 -> Slot]
      /\ OpenIn(in, D, f.headings) /\ InOrderFiled(in, f.out) /\ f.base = 0
  BY <1>3 DEF ReadTo, Reading, Placed
<1>6. \A y \in ToSet(ids) : ~Heading(in, y) /\ KeptLine(in, y)
  BY <1>4 DEF Heading, KeptLine, AtomOf
<1>7. /\ Path(f.headings) \in Seq(Id) /\ Rising(Path(f.headings), Earlier)
      /\ ToSet(Path(f.headings)) = {h \in D : Open(in, D, h)}
  BY <1>2, <1>5, PathOpen
<1>8. x \in TextType /\ x.base = n /\ x.lines = ids /\ x.path = Path(f.headings)
  BY <1>2, <1>4, <1>7 DEF Text, TextType
<1> HIDE DEF x
<1>9. ASSUME NEW y \in ToSet(ids)
      PROVE  ToSet(x.path) = Above(in, y) /\ y[1] = x.base
  <2>1. y \in LineIds(in) /\ y[1] = n
    BY <1>4
  <2>2. \A g \in LineIds(in) : AtomsBefore(g, y) /\ Heading(in, g) => g \in D
    BY <1>4, <1>6
  <2>3. \A h \in D : Heading(in, h) => AtomsBefore(h, y)
    BY <1>4
  <2>4. Above(in, y) = {h \in D : Open(in, D, h)}
    BY <1>2, <2>1, <2>2, <2>3, AboveIs
  <2> QED
    BY <1>7, <1>8, <2>1, <2>4
<1>10. Filed(in, x)
  BY <1>4, <1>7, <1>8, <1>9 DEF Filed
<1>11. OpenIn(in, E, f.headings)
  BY <1>4, <1>5, <1>6, OthersOpenNothing
<1>12. \A y : y \in D /\ KeptLine(in, y) <=> InTexts(f.out, y)
  <2>1. ToSet(f.body) = {}
    BY <1>3 DEF ToSet
  <2> QED
    BY <1>3, <2>1 DEF ReadTo
<1>13. \A i \in 1..Len(f.out) : AllBefore(f.out[i].lines, x.lines)
  <2>1. ASSUME NEW i \in 1..Len(f.out), NEW a \in ToSet(f.out[i].lines), NEW b \in ToSet(ids)
        PROVE  <<a, b>> \in Earlier
    <3>1. InTexts(f.out, a)
      BY DEF InTexts
    <3>2. a \in D
      BY <1>12, <3>1
    <3>3. AtomsBefore(a, b) /\ a \in Id /\ b \in Id
      BY <1>2, <1>4, <3>2
    <3> QED
      BY <3>3, EarlierOrders
  <2> QED
    BY <1>8, <2>1 DEF AllBefore
<1>14. \A y : y \in E /\ KeptLine(in, y) <=> y \in ToSet(x.lines) \/ InTexts(f.out, y)
  BY <1>4, <1>6, <1>8, <1>12
<1>15. r \in Reading /\ r.out = Append(f.out, x) /\ r.body = <<>> /\ r.headings = f.headings /\ r.base = 0
  <2>1. Append(f.out, x) \in Seq(TextType)
    BY <1>5, <1>8, OneTextMore
  <2> QED
    BY <1>1, <1>3, <1>5, <2>1 DEF Reading
<1>16. ReadTo(in, E, r)
  BY <1>5, <1>8, <1>10, <1>11, <1>13, <1>14, <1>15, TextAdded
<1>17. Placed(in, n + 1, r)
  BY <1>15 DEF Placed, ToSet
<1> QED
  BY <1>16, <1>17 DEF E, r

\* Each atom is added to what has been read.
LEMMA AtomRead ==
  ASSUME NEW in \in SectionInputs, NEW n \in 1..Len(in.atoms),
         NEW s, ReadTo(in, LinesTo(in, n, 0), s), Placed(in, n, s)
  PROVE  /\ ReadTo(in, LinesTo(in, n + 1, 0), AddSectionAtom(in, s, n))
         /\ Placed(in, n + 1, AddSectionAtom(in, s, n))
<1> DEFINE E == LinesTo(in, n + 1, 0)
           l == LinesRead(in, s, n)
           r == AddSectionAtom(in, s, n)
<1>1. CASE ~in.atoms[n].structured
  BY <1>1, OtherAtomRead
<1>2. CASE in.atoms[n].structured /\ in.atoms[n].parser
  <2>1. r = Flush(in, l)
    BY <1>2 DEF AddSectionAtom, EndAtom, LinesRead
  <2>2. ReadTo(in, E, l) /\ Placed(in, n, l)
    BY <1>2, TextAtomRead
  <2>3. SoFar(in, E)
    <3>1. Len(in.atoms[n].lines) \in Nat
      BY SectionInputIs
    <3> QED
      BY <3>1, LinesToAre
  <2> HIDE DEF E, l, r
  <2>4. ReadTo(in, E, r) /\ Placed(in, n + 1, r)
    BY <2>1, <2>2, <2>3, FlushFiles
  <2> QED
    BY <2>4 DEF E, r
<1>3. CASE in.atoms[n].structured /\ ~in.atoms[n].parser
  <2>1. r = l
    BY <1>3 DEF AddSectionAtom, EndAtom, LinesRead
  <2>2. ReadTo(in, E, l) /\ Placed(in, n, l)
    BY <1>3, TextAtomRead
  <2>3. \A y \in LineIds(in) : AtomOf(in, y).structured => ~AtomOf(in, y).parser
    <3>1. DOMAIN in.atoms = 1..Len(in.atoms)
      BY SectionInputIs
    <3>2. \A k \in DOMAIN in.atoms : in.atoms[k].structured => in.atoms[k].parser = in.atoms[n].parser
      BY <1>3, <3>1, SectionAssumption
    <3>3. ASSUME NEW y \in LineIds(in)
          PROVE  y[1] \in DOMAIN in.atoms
      <4>1. PICK k \in DOMAIN in.atoms : \E i \in DOMAIN in.atoms[k].lines : y = <<k, i>>
        BY DEF LineIds
      <4> QED
        BY <4>1
    <3> QED
      BY <1>3, <3>2, <3>3 DEF AtomOf
  <2>4. E \subseteq LineIds(in)
    BY DEF LinesTo
  <2> HIDE DEF E, l, r
  <2>5. \A y \in ToSet(l.body) : y \in LineIds(in)
    BY <2>2, <2>4 DEF ReadTo
  <2>6. Placed(in, n + 1, l)
    BY <2>2, <2>3, <2>5 DEF Placed
  <2> QED
    BY <2>1, <2>2, <2>6 DEF E, r
<1> QED
  BY <1>1, <1>2, <1>3

\* At the start nothing has been read.
LEMMA StartTyped ==
  ASSUME NEW in \in SectionInputs
  PROVE  /\ StartAt \in Reading
         /\ ReadTo(in, LinesTo(in, 1, 0), StartAt) /\ Placed(in, 1, StartAt)
<1>1. /\ StartAt.out = <<>> /\ StartAt.body = <<>> /\ StartAt.base = 0
      /\ \A l \in 1..6 : StartAt.headings[l] = <<>>
  BY DEF StartAt, NoHeadings
<1>2. StartAt \in Reading
  <2>1. NoHeadings \in [1..6 -> Slot]
    BY DEF NoHeadings, Slot
  <2>2. <<>> \in Seq(TextType) /\ <<>> \in Seq(Id) /\ 0 \in Nat
    OBVIOUS
  <2> QED
    BY <2>1, <2>2 DEF StartAt, Reading
<1>3. LinesTo(in, 1, 0) = {}
  <2>1. ASSUME NEW id \in LinesTo(in, 1, 0)
        PROVE  FALSE
    <3>1. id \in LineIds(in) /\ (id[1] < 1 \/ id[2] <= 0)
      BY DEF LinesTo
    <3>2. PICK k \in 1..Len(in.atoms) : \E i \in 1..Len(in.atoms[k].lines) : id = <<k, i>>
      BY <3>1, SectionInputIs
    <3>3. PICK i \in 1..Len(in.atoms[k].lines) : id = <<k, i>>
      BY <3>2
    <3>4. Len(in.atoms) \in Nat /\ Len(in.atoms[k].lines) \in Nat
      BY SectionInputIs
    <3>5. id[1] = k /\ id[2] = i
      BY <3>3
    <3> QED
      BY <3>1, <3>4, <3>5
  <2> QED
    BY <2>1
<1>4. ToSet(<<>>) = {} /\ Rising(<<>>, Earlier) /\ Len(<<>>) = 0 /\ 1..0 = {}
  BY DEF ToSet, Rising
<1>5. OpenIn(in, {}, StartAt.headings)
  <2>1. \A h : <<h>> # <<>>
    OBVIOUS
  <2>2. \A h : ~Open(in, {}, h)
    BY DEF Open
  <2> QED
    BY <1>1, <2>1, <2>2 DEF OpenIn
<1>6. InOrderFiled(in, <<>>) /\ \A id : ~InTexts(<<>>, id)
  BY <1>4 DEF InOrderFiled, InTexts
<1>7. ReadTo(in, {}, StartAt)
  BY <1>1, <1>2, <1>4, <1>5, <1>6 DEF ReadTo
<1>8. Placed(in, 1, StartAt)
  BY <1>1, <1>4 DEF Placed
<1> QED
  BY <1>2, <1>3, <1>7, <1>8

\* The reading of the atoms, and its course.
AtomsRead(in) ==
  FoldLeft(LAMBDA s, n : AddSectionAtom(in, s, n), StartAt, [n \in DOMAIN in.atoms |-> n])
AtomCourse(F, in) ==
  /\ F[0] = StartAt
  /\ \A k \in 0..(Len(in.atoms) - 1) : F[k + 1] = AddSectionAtom(in, F[k], k + 1)

LEMMA AtomsFold ==
  ASSUME NEW in \in SectionInputs
  PROVE  \E F : AtomCourse(F, in) /\ AtomsRead(in) = F[Len(in.atoms)]
<1> DEFINE n == Len(in.atoms)
           X == Reading
           step == [p \in X \X (1..n) |-> AddSectionAtom(in, p[1], p[2])]
           places == [k \in DOMAIN in.atoms |-> k]
           Folds(it) == it = [s \in SUBSET (DOMAIN places) |->
                                IF s = {} THEN StartAt ELSE AddSectionAtom(in, it[s \ {Max(s)}], places[Max(s)])]
           it == CHOOSE it : Folds(it)
<1>1. n \in Nat /\ DOMAIN in.atoms = 1..n /\ StartAt \in X
  BY SectionInputIs, StartTyped
<1>2. DOMAIN places = 1..n /\ \A k \in 1..n : places[k] = k
  BY <1>1
<1>3. ASSUME NEW p \in X, NEW k \in 1..n
      PROVE  <<p, k>> \in X \X (1..n) /\ step[<<p, k>>] = AddSectionAtom(in, p, k)
             /\ AddSectionAtom(in, p, k) \in X
  <2>1. AddSectionAtom(in, p, k) \in X
    BY <1>1, SectionInputIs, SectionAtomTyped
  <2>2. <<p, k>> \in X \X (1..n) /\ <<p, k>>[1] = p /\ <<p, k>>[2] = k
    OBVIOUS
  <2> HIDE DEF X, n
  <2> QED
    BY <2>1, <2>2
<1>4. step \in [X \X (1..n) -> X]
  <2>1. ASSUME NEW p \in X \X (1..n)
        PROVE  AddSectionAtom(in, p[1], p[2]) \in X
    <3>1. p[1] \in X /\ p[2] \in 1..n
      OBVIOUS
    <3> HIDE DEF X
    <3> QED
      BY <1>3, <3>1
  <2> QED
    BY <2>1
<1>5. AtomsRead(in) = it[1..n]
  <2>1. AtomsRead(in) = it[DOMAIN places]
    BY DEF AtomsRead, FoldLeft, MapThenFoldSet
  <2> HIDE DEF it, places
  <2> QED
    BY <1>2, <2>1
<1> HIDE DEF step, n, X, places
<1>6. PICK g : FoldsSets(g, n, X, StartAt, step)
  BY <1>1, <1>4, FoldRecursion
<1>7. ASSUME NEW s \in SUBSET (1..n), s # {}
      PROVE  Max(s) \in 1..n /\ s \ {Max(s)} \in SUBSET (1..n)
  <2>1. s \subseteq Nat /\ \A m \in s : m <= n
    BY <1>1
  <2>2. Max(s) \in s
    BY <1>1, <1>7, <2>1, NatMax
  <2> QED
    BY <2>2
<1>8. Folds(g)
  <2>1. ASSUME NEW s \in SUBSET (1..n)
        PROVE  g[s] = IF s = {} THEN StartAt ELSE AddSectionAtom(in, g[s \ {Max(s)}], places[Max(s)])
    <3>1. CASE s = {}
      BY <1>6, <3>1 DEF FoldsSets
    <3>2. CASE s # {}
      <4>1. Max(s) \in 1..n /\ g[s \ {Max(s)}] \in X
        BY <1>6, <1>7, <3>2 DEF FoldsSets
      <4>2. g[s] = step[<<g[s \ {Max(s)}], Max(s)>>]
        BY <1>6, <3>2 DEF FoldsSets
      <4>3. step[<<g[s \ {Max(s)}], Max(s)>>] = AddSectionAtom(in, g[s \ {Max(s)}], Max(s))
        BY <1>3, <4>1
      <4>4. places[Max(s)] = Max(s)
        BY <1>2, <4>1
      <4> QED
        BY <3>2, <4>2, <4>3, <4>4
    <3> QED
      BY <3>1, <3>2
  <2>2. g \in [SUBSET (1..n) -> X]
    BY <1>6 DEF FoldsSets
  <2> QED
    BY <1>2, <2>1, <2>2
<1>9. Folds(it)
  <2> HIDE DEF Folds
  <2> QED
    BY <1>8
<1>10. \A s \in SUBSET (1..n) :
         it[s] = IF s = {} THEN StartAt ELSE AddSectionAtom(in, it[s \ {Max(s)}], places[Max(s)])
  <2> HIDE DEF it
  <2> QED
    BY <1>2, <1>9
<1> HIDE DEF it, Folds
<1>11. SolvesFold(it, n, X, StartAt, step)
  <2>1. {} \in SUBSET (1..n)
    OBVIOUS
  <2>2. ASSUME NEW s \in SUBSET (1..n), s # {}, it[s \ {Max(s)}] \in X
        PROVE  it[s] = step[<<it[s \ {Max(s)}], Max(s)>>]
    <3>1. Max(s) \in 1..n
      BY <1>7, <2>2
    <3>2. places[Max(s)] = Max(s)
      BY <1>2, <3>1
    <3>3. it[s] = AddSectionAtom(in, it[s \ {Max(s)}], Max(s))
      BY <1>10, <2>2, <3>2
    <3>4. step[<<it[s \ {Max(s)}], Max(s)>>] = AddSectionAtom(in, it[s \ {Max(s)}], Max(s))
      BY <1>3, <2>2, <3>1
    <3> QED
      BY <3>3, <3>4
  <2> QED
    BY <1>10, <2>1, <2>2 DEF SolvesFold
<1>12. PICK F : FoldsUp(F, it, n, X, StartAt, step)
  BY <1>1, <1>4, <1>11, FoldCourse
<1>13. ASSUME NEW k \in 0..(n - 1)
       PROVE  F[k + 1] = AddSectionAtom(in, F[k], k + 1)
  <2> DEFINE m == k + 1
  <2>1. m \in 1..n /\ m - 1 = k
    BY <1>1
  <2> HIDE DEF m
  <2>2. F[m] = step[<<F[k], m>>] /\ F[k] \in X
    BY <1>12, <2>1 DEF FoldsUp
  <2>3. F[m] = AddSectionAtom(in, F[k], m)
    BY <1>3, <2>1, <2>2
  <2> QED
    BY <2>3 DEF m
<1>14. F[0] = StartAt /\ F[n] = it[1..n]
  BY <1>12 DEF FoldsUp
<1> QED
  BY <1>5, <1>13, <1>14 DEF AtomCourse, n

\* The whole document is read.
LEMMA DocumentRead ==
  ASSUME NEW in \in SectionInputs, NEW out, out = prepareStructuredAtoms(in)
  PROVE  /\ out \in Seq(TextType) /\ InOrderFiled(in, out)
         /\ \A id : id \in LineIds(in) /\ KeptLine(in, id) <=> InTexts(out, id)
<1> DEFINE n == Len(in.atoms)
           s == AtomsRead(in)
           D == LineIds(in)
<1>1. n \in Nat
  BY SectionInputIs
<1>2. PICK F : AtomCourse(F, in) /\ s = F[n]
  BY AtomsFold
<1> DEFINE G == {k \in 0..n : ReadTo(in, LinesTo(in, k + 1, 0), F[k]) /\ Placed(in, k + 1, F[k])}
<1>3. 0 \in G
  <2>1. F[0] = StartAt /\ 0 \in 0..n /\ 0 + 1 = 1
    BY <1>1, <1>2 DEF AtomCourse
  <2> QED
    BY <2>1, StartTyped
<1>4. ASSUME NEW k \in 0..(n - 1), k \in G
      PROVE  k + 1 \in G
  <2> DEFINE m == k + 1
  <2>1. F[m] = AddSectionAtom(in, F[k], m)
    BY <1>2 DEF AtomCourse
  <2>2. ReadTo(in, LinesTo(in, m, 0), F[k]) /\ Placed(in, m, F[k])
    BY <1>4
  <2>3. m \in 1..n /\ m \in 0..n
    BY <1>1
  <2> HIDE DEF m
  <2>4. ReadTo(in, LinesTo(in, m + 1, 0), F[m]) /\ Placed(in, m + 1, F[m])
    BY <2>1, <2>2, <2>3, AtomRead
  <2>5. m \in G
    BY <2>3, <2>4
  <2> QED
    BY <2>5 DEF m
<1> HIDE DEF n
<1>5. n \in G
  <2> HIDE DEF G
  <2>1. 0..n \subseteq G
    BY <1>1, <1>3, <1>4, CountingUp
  <2>2. n \in 0..n
    BY <1>1
  <2> QED
    BY <2>1, <2>2
<1>6. LinesTo(in, n + 1, 0) = D
  <2>1. ASSUME NEW id \in D
        PROVE  id \in LinesTo(in, n + 1, 0)
    <3>1. PICK k \in 1..n : \E i \in 1..Len(in.atoms[k].lines) : id = <<k, i>>
      BY SectionInputIs DEF n
    <3>2. id[1] < n + 1
      BY <1>1, <3>1
    <3> QED
      BY <3>2 DEF LinesTo
  <2>2. LinesTo(in, n + 1, 0) \subseteq D
    BY DEF LinesTo
  <2> QED
    BY <2>1, <2>2
<1>7. SoFar(in, D)
  BY DEF SoFar
<1>8. out = Flush(in, s).out
  BY Zenon DEF prepareStructuredAtoms, AtomsRead
<1> DEFINE f == Flush(in, s)
<1> HIDE DEF s, D
<1>9. ReadTo(in, D, s) /\ Placed(in, n + 1, s)
  BY <1>2, <1>5, <1>6
<1>10. ReadTo(in, D, f) /\ f.body = <<>>
  BY <1>7, <1>9, FlushFiles
<1>11. out = f.out
  BY <1>8
<1> HIDE DEF f
<1>12. ToSet(f.body) = {}
  BY <1>10 DEF ToSet
<1> QED
  BY <1>10, <1>11, <1>12 DEF ReadTo, Reading, D

\* The lines of the texts, in the order of the document.
LEMMA TextsHold ==
  ASSUME NEW in \in SectionInputs, NEW out \in Seq(TextType), InOrderFiled(in, out),
         NEW all, all = FlattenSeq([i \in DOMAIN out |-> out[i].lines])
  PROVE  /\ \A id : id \in ToSet(all) <=> InTexts(out, id)
         /\ \A j, k \in DOMAIN all : j < k => AtomsBefore(all[j], all[k])
<1> DEFINE seqs == [i \in DOMAIN out |-> out[i].lines]
<1>1. Len(out) \in Nat /\ DOMAIN out = 1..Len(out) /\ \A i \in 1..Len(out) : out[i] \in TextType
  BY LenProperties, ElementOfSeq
<1>2. seqs \in Seq(Seq(Id)) /\ Len(seqs) = Len(out) /\ \A i \in 1..Len(out) : seqs[i] = out[i].lines
  <2>1. seqs \in [1..Len(out) -> Seq(Id)]
    BY <1>1 DEF TextType
  <2>2. \A i \in 1..Len(out) : seqs[i] = out[i].lines
    BY <1>1
  <2> HIDE DEF seqs
  <2> QED
    BY <1>1, <2>1, <2>2, ListOf
<1> HIDE DEF seqs
<1>3. \A i \in 1..Len(seqs) : Rising(seqs[i], Earlier)
  BY <1>2 DEF InOrderFiled, Filed
<1>4. \A i, j \in 1..Len(seqs) : i < j => \A a \in ToSet(seqs[i]), b \in ToSet(seqs[j]) : <<a, b>> \in Earlier
  BY <1>2 DEF InOrderFiled, AllBefore
<1>5. /\ all \in Seq(Id) /\ Rising(all, Earlier)
      /\ \A x : x \in ToSet(all) <=> \E i \in 1..Len(seqs) : x \in ToSet(seqs[i])
  BY <1>2, <1>3, <1>4, FlattenRises DEF seqs
<1>6. \A id : id \in ToSet(all) <=> InTexts(out, id)
  BY <1>2, <1>5 DEF InTexts
<1>7. ASSUME NEW j \in DOMAIN all, NEW k \in DOMAIN all, j < k
      PROVE  AtomsBefore(all[j], all[k])
  <2>1. DOMAIN all = 1..Len(all)
    BY <1>5, LenProperties
  <2>2. <<all[j], all[k]>> \in Earlier
    BY <1>5, <1>7, <2>1 DEF Rising
  <2> QED
    BY <2>2 DEF Earlier
<1> QED
  BY <1>6, <1>7

\* The texts of a document stand where they belong.
LEMMA SectionsStand ==
  ASSUME Sectioned, call.in \in SectionInputs, Result = prepareStructuredAtoms(call.in)
  PROVE  SectionsAreTrue
<1> DEFINE in == call.in
           out == Result
           all == FlattenSeq([i \in DOMAIN out |-> out[i].lines])
<1>1. /\ out \in Seq(TextType) /\ InOrderFiled(in, out)
      /\ \A id : id \in LineIds(in) /\ KeptLine(in, id) <=> InTexts(out, id)
  BY DocumentRead
<1>2. /\ \A id : id \in ToSet(all) <=> InTexts(out, id)
      /\ \A j, k \in DOMAIN all : j < k => AtomsBefore(all[j], all[k])
  BY <1>1, TextsHold
<1>3. DOMAIN out = 1..Len(out) /\ \A i \in 1..Len(out) : out[i].path \in Seq(Id)
  <2> HIDE DEF out
  <2>1. DOMAIN out = 1..Len(out) /\ \A i \in 1..Len(out) : out[i] \in TextType
    BY <1>1, LenProperties, ElementOfSeq
  <2> QED
    BY <2>1 DEF TextType
<1>4. LinesKept
  <2> HIDE DEF all
  <2>1. {id \in LineIds(in) : KeptLine(in, id)} = ToSet(all)
    BY <1>1, <1>2
  <2> QED
    BY <1>2, <2>1 DEF LinesKept, all
<1>5. \A i \in DOMAIN out : Filed(in, out[i])
  BY <1>1, <1>3 DEF InOrderFiled
<1>6. PathIsEnclosing
  <2>1. ASSUME NEW i \in DOMAIN out, NEW j \in DOMAIN out[i].path, NEW k \in DOMAIN out[i].path, j < k
        PROVE  AtomsBefore(out[i].path[j], out[i].path[k])
    <3>1. Rising(out[i].path, Earlier) /\ DOMAIN out[i].path = 1..Len(out[i].path)
      BY <1>3, <1>5, LenProperties DEF Filed
    <3>2. <<out[i].path[j], out[i].path[k]>> \in Earlier
      BY <2>1, <3>1 DEF Rising
    <3> QED
      BY <3>2 DEF Earlier
  <2> QED
    BY <1>5, <2>1 DEF PathIsEnclosing, Filed, Above
<1>7. PlacesAreTrue
  BY <1>5 DEF PlacesAreTrue, Filed
<1> QED
  BY <1>4, <1>6, <1>7 DEF SectionsAreTrue

\* The book and paper templates file texts where they belong: each text
\* carries exactly the headings that enclose its lines, coarsest first; no
\* line is lost, repeated or moved; a text with coordinates has lines of the
\* one atom whose page it shows (prepareStructuredAtoms).
THEOREM SectionsAreFiled == AlgorithmsSpec => []SectionsAreTrue
<1>1. Answered => SectionsAreTrue
  <2> SUFFICES ASSUME Answered, Sectioned
               PROVE  SectionsAreTrue
    BY DEF SectionsAreTrue, PathIsEnclosing, LinesKept, PlacesAreTrue
  <2>1. call.in \in SectionInputs
    BY InputOf DEF Sectioned, Returned
  <2>2. Result = prepareStructuredAtoms(call.in)
    BY DEF Answered, Sectioned, Returned
  <2> QED
    BY <2>1, <2>2, SectionsStand
<1> QED
  BY <1>1, AnsweredAlways, PTL

-----------------------------------------------------------------------------
(* The splitter.                                                           *)

Solid(in, p) == ~BlankRune(in, p)
Positions(in) == DOMAIN in.text

\* What the splitter needs of its input.
Splittable(in) == in.text \in Seq(Runes) /\ in.target \in Nat \ {0} /\ in.overlap \in Nat

LEMMA SplitInputIs ==
  ASSUME NEW in, Splittable(in)
  PROVE  /\ in.target \in Nat \ {0} /\ in.overlap \in Nat
         /\ Len(in.text) \in Nat /\ Positions(in) = 1..Len(in.text) /\ Positions(in) \subseteq Nat
         /\ Parts(in) = Seq(Positions(in))
<1>1. in.target \in Nat \ {0} /\ in.overlap \in Nat /\ in.text \in Seq(Runes)
  BY DEF Splittable
<1>2. Len(in.text) \in Nat /\ Positions(in) = 1..Len(in.text)
  BY <1>1, LenProperties DEF Positions
<1> QED
  BY <1>1, <1>2 DEF Parts, Positions

\* What rises has its places in the order of its elements.
LEMMA RisingPlaces ==
  ASSUME NEW in, Splittable(in), NEW q \in Parts(in), Rising(q, Less)
  PROVE  \A i, j \in 1..Len(q) : /\ i < j <=> q[i] < q[j]
                                 /\ i <= j <=> q[i] <= q[j]
<1>1. Len(q) \in Nat /\ \A i \in 1..Len(q) : q[i] \in Nat
  BY SplitInputIs, LenProperties, ElementOfSeq
<1>2. \A i, j \in 1..Len(q) : i < j => q[i] < q[j]
  BY DEF Rising, Less
<1>3. \A i, j \in 1..Len(q) : i < j \/ i = j \/ j < i
  BY <1>1
<1> QED
  BY <1>1, <1>2, <1>3

\* Trimming keeps all that is not blank.
LEMMA TrimIs ==
  ASSUME NEW in, Splittable(in), NEW q \in Parts(in), NEW t, t = TrimRunes(in, q)
  PROVE  /\ t \in Parts(in) /\ Len(t) <= Len(q) /\ ToSet(t) \subseteq ToSet(q)
         /\ \A p \in ToSet(q) : Solid(in, p) => p \in ToSet(t)
         /\ t = <<>> <=> \A p \in ToSet(q) : ~Solid(in, p)
         /\ Rising(q, Less) => Rising(t, Less)
<1> DEFINE n == Len(q)
           solid == {i \in DOMAIN q : ~BlankRune(in, q[i])}
           a == Min(solid)
           b == Max(solid)
<1>1. q \in Seq(Positions(in)) /\ Parts(in) = Seq(Positions(in)) /\ n \in Nat /\ DOMAIN q = 1..n
  BY SplitInputIs, LenProperties
<1>2. \A x : x \in ToSet(q) <=> \E i \in 1..n : q[i] = x
  BY <1>1, ToSetOf
<1>3. CASE solid = {}
  <2>1. t = <<>>
    BY <1>3 DEF TrimRunes
  <2>2. \A p \in ToSet(q) : ~Solid(in, p)
    BY <1>1, <1>2, <1>3 DEF Solid
  <2>3. <<>> \in Seq(Positions(in)) /\ Len(<<>>) = 0 /\ ToSet(<<>>) = {} /\ Rising(<<>>, Less)
    BY DEF ToSet, Rising
  <2> HIDE DEF n, solid
  <2> QED
    BY <1>1, <2>1, <2>2, <2>3 DEF n
<1>4. CASE solid # {}
  <2>1. solid \subseteq Nat /\ solid \subseteq 1..n /\ \A i \in solid : i <= n
    BY <1>1
  <2>2. a \in solid /\ \A i \in solid : a <= i
    <3>1. PICK k \in solid : \A i \in solid : k <= i
      <4> HIDE DEF solid
      <4> QED
        BY <1>4, <2>1, NatMin
    <3> HIDE DEF solid
    <3> QED
      BY <3>1 DEF Min
  <2>3. b \in solid /\ \A i \in solid : i <= b
    <3> HIDE DEF solid, n
    <3> QED
      BY <1>1, <1>4, <2>1, NatMax
  <2>4. t = SubSeq(q, a, b)
    BY <1>4 DEF TrimRunes
  <2>5. \A i \in solid : Solid(in, q[i])
    BY DEF Solid
  <2>6. \A i \in 1..n : Solid(in, q[i]) => i \in solid
    BY <1>1 DEF Solid
  <2> HIDE DEF solid, a, b
  <2>7. a \in 1..n /\ b \in 1..n /\ a <= b /\ b \in 0..n /\ a <= b + 1
    BY <1>1, <2>1, <2>2, <2>3
  <2>8. /\ t \in Parts(in) /\ Len(t) = b - a + 1
        /\ \A i \in 1..(b - a + 1) : t[i] = q[a + i - 1]
        /\ \A x : x \in ToSet(t) <=> \E i \in a..b : q[i] = x
    BY <1>1, <2>4, <2>7, PartOf
  <2>9. Len(t) <= n /\ Len(t) >= 1
    BY <1>1, <2>7, <2>8
  <2>10. \A i \in a..b : i \in 1..n
    BY <1>1, <2>7
  <2>11. ToSet(t) \subseteq ToSet(q)
    BY <1>2, <2>8, <2>10
  <2>12. ASSUME NEW p \in ToSet(q), Solid(in, p)
         PROVE  p \in ToSet(t)
    <3>1. PICK i \in 1..n : q[i] = p
      BY <1>2
    <3>2. i \in a..b
      BY <1>1, <2>2, <2>3, <2>6, <2>7, <2>12, <3>1
    <3> QED
      BY <2>8, <3>1, <3>2
  <2>13. t # <<>> /\ \E p \in ToSet(q) : Solid(in, p)
    BY <1>2, <2>2, <2>5, <2>7, <2>9
  <2>14. ASSUME Rising(q, Less)
         PROVE  Rising(t, Less)
    <3>1. ASSUME NEW i \in 1..Len(t), NEW j \in 1..Len(t), i < j
          PROVE  <<t[i], t[j]>> \in Less
      <4> DEFINE k == a + i - 1
                 l == a + j - 1
      <4>1. k \in 1..n /\ l \in 1..n /\ k < l
        BY <1>1, <2>7, <2>8, <3>1
      <4>2. t[i] = q[k] /\ t[j] = q[l]
        BY <2>8
      <4> HIDE DEF k, l
      <4> QED
        BY <2>14, <4>1, <4>2 DEF Rising, n
    <3> QED
      BY <3>1 DEF Rising
  <2> QED
    BY <2>8, <2>9, <2>11, <2>12, <2>13, <2>14 DEF n
<1> QED
  BY <1>3, <1>4

\* The tail of a chunk.
LEMMA TailIs ==
  ASSUME NEW in, Splittable(in), NEW q \in Parts(in), NEW k \in Nat,
         NEW w, w = tailRunes(q, k)
  PROVE  /\ w \in Parts(in) /\ Len(w) <= k /\ ToSet(w) \subseteq ToSet(q)
         /\ Rising(q, Less) => /\ Rising(w, Less)
                               /\ \A a \in ToSet(w), p \in ToSet(q) : a <= p => p \in ToSet(w)
<1> DEFINE n == Len(q)
           b == n - k + 1
<1>1. q \in Seq(Positions(in)) /\ Parts(in) = Seq(Positions(in)) /\ n \in Nat /\ Positions(in) \subseteq Nat
  BY SplitInputIs, LenProperties
<1>2. CASE n <= k
  BY <1>1, <1>2 DEF tailRunes
<1>3. CASE ~(n <= k)
  <2>1. w = SubSeq(q, b, n)
    BY <1>3 DEF tailRunes
  <2>2. b \in 1..(n + 1) /\ n \in 0..n /\ b <= n + 1 /\ b >= 1 /\ (k > 0 => b \in 1..n) /\ n - b + 1 = k
    BY <1>1, <1>3
  <2> HIDE DEF b
  <2>3. CASE k = 0
    <3>1. b = n + 1
      BY <1>1, <2>2, <2>3
    <3>2. n < b /\ b \in Int /\ n \in Int
      BY <1>1, <3>1
    <3>3. w = <<>>
      BY <2>1, <3>2, SubSeqEmpty
    <3>4. <<>> \in Seq(Positions(in)) /\ Len(<<>>) = 0 /\ ToSet(<<>>) = {} /\ Rising(<<>>, Less)
      BY DEF ToSet, Rising
    <3>5. ToSet(w) = {} /\ Rising(w, Less) /\ Len(w) = 0 /\ w \in Parts(in)
      BY <1>1, <3>3, <3>4
    <3> QED
      BY <2>3, <3>5
  <2>4. CASE k > 0
    <3>1. /\ w \in Parts(in) /\ Len(w) = n - b + 1
          /\ \A i \in 1..(n - b + 1) : w[i] = q[b + i - 1]
          /\ \A x : x \in ToSet(w) <=> \E i \in b..n : q[i] = x
      <4>1. b \in 1..Len(q) /\ n \in 0..Len(q) /\ b <= n + 1
        BY <2>2, <2>4
      <4> QED
        BY <1>1, <2>1, <4>1, PartOf
    <3>2. \A x : x \in ToSet(q) <=> \E i \in 1..n : q[i] = x
      BY <1>1, ToSetOf
    <3>3. \A i \in b..n : i \in 1..n
      BY <1>1, <2>2
    <3>4. Len(w) <= k
      BY <1>1, <2>2, <3>1
    <3>5. ASSUME Rising(q, Less)
          PROVE  Rising(w, Less)
      <4>1. ASSUME NEW i \in 1..Len(w), NEW j \in 1..Len(w), i < j
            PROVE  <<w[i], w[j]>> \in Less
        <5> DEFINE u == b + i - 1
                   v == b + j - 1
        <5>1. u \in 1..n /\ v \in 1..n /\ u < v
          BY <1>1, <2>2, <3>1, <4>1
        <5>2. w[i] = q[u] /\ w[j] = q[v]
          BY <3>1
        <5> HIDE DEF u, v
        <5> QED
          BY <3>5, <5>1, <5>2 DEF Rising, n
      <4> QED
        BY <4>1 DEF Rising
    <3>6. ASSUME Rising(q, Less), NEW a \in ToSet(w), NEW p \in ToSet(q), a <= p
          PROVE  p \in ToSet(w)
      <4>1. PICK i \in b..n : q[i] = a
        BY <3>1
      <4>2. PICK j \in 1..n : q[j] = p
        BY <3>2
      <4>3. i \in 1..n /\ i <= j
        BY <3>3, <3>6, <4>1, <4>2, RisingPlaces DEF n
      <4>4. j \in b..n
        BY <1>1, <2>2, <4>1, <4>2, <4>3
      <4> QED
        BY <3>1, <4>2, <4>4
    <3> QED
      BY <3>1, <3>2, <3>3, <3>4, <3>5, <3>6
  <2> QED
    BY <2>3, <2>4
<1> QED
  BY <1>2, <1>3

\* What has been cut off so far.
Has(cs, p) == \E i \in 1..Len(cs) : p \in ToSet(cs[i])

\* What comes in C after something of q is in q, unless it is blank.
Final(in, C, q) == \A a \in ToSet(q), p \in C : Solid(in, p) /\ a <= p => p \in ToSet(q)

\* Only blanks are missing between two positions of C.
Gapless(in, C) ==
  /\ C \subseteq Positions(in)
  /\ \A a, b \in C, p \in Positions(in) : Solid(in, p) /\ a <= p /\ p <= b => p \in C

ChunkIn(in, C, c) ==
  /\ Rising(c, Less) /\ Gapless(in, ToSet(c)) /\ ToSet(c) \subseteq C
  /\ c # <<>> /\ Len(c) <= in.target + in.overlap

\* How a chunk goes on after the one before it.
GoesOn(in, c, d) ==
  /\ \A q \in ToSet(d) : \E p \in ToSet(c) : p <= q
  /\ Few(ToSet(c) \cap ToSet(d), in.overlap)

AddsAfter(cs) ==
  \A i \in 1..Len(cs) : \A p \in ToSet(cs[i]) :
    \/ \E j \in 1..(i - 1) : p \in ToSet(cs[j])
    \/ \A j \in 1..(i - 1) : \A q \in ToSet(cs[j]) : q < p

ChunksOf(in, C, cs) ==
  /\ cs \in Seq(Parts(in))
  /\ \A i \in 1..Len(cs) : ChunkIn(in, C, cs[i])
  /\ \A i \in 1..(Len(cs) - 1) : GoesOn(in, cs[i], cs[i + 1])
  /\ AddsAfter(cs)

Complete(in, C, cs) ==
  /\ \A p \in C : Solid(in, p) => Has(cs, p)
  /\ cs # <<>> => Final(in, C, cs[Len(cs)])

\* What a function that cuts promises; whole says that it is not asked for
\* parts longer than a chunk may be.
Cuts(in, cut, whole) ==
  /\ cut \in [Parts(in) -> Seq(Parts(in))]
  /\ \A q \in Parts(in) :
       /\ Rising(q, Less) /\ Gapless(in, ToSet(q)) /\ q # <<>>
       /\ whole => Len(q) <= in.target + in.overlap
       => ChunksOf(in, ToSet(q), cut[q]) /\ Complete(in, ToSet(q), cut[q])

\* The chunks that are out and the one being gathered, C being what has been
\* read.
Gathering(in) == [chunks : Seq(Parts(in)), current : Parts(in)]
GatheredTo(in, C, whole, s) ==
  /\ s \in Gathering(in)
  /\ ChunksOf(in, C, s.chunks)
  /\ Rising(s.current, Less) /\ ToSet(s.current) \subseteq C
  /\ Final(in, C, s.current)
  /\ \A p \in C : Solid(in, p) => Has(s.chunks, p) \/ p \in ToSet(s.current)
  /\ \A p \in ToSet(s.current) : Has(s.chunks, p) \/ \A q \in C : Has(s.chunks, q) => q < p
  /\ s.chunks # <<>> =>
       /\ GoesOn(in, s.chunks[Len(s.chunks)], s.current)
       /\ (\A p \in ToSet(s.current) : ~Solid(in, p)) => Final(in, C, s.chunks[Len(s.chunks)])
  /\ whole => Len(s.current) <= in.target + in.overlap

LEMMA ChunksJoin ==
  ASSUME NEW in, Splittable(in), NEW C, NEW T, T \subseteq C, C \subseteq Positions(in),
         NEW cs, NEW ds, ChunksOf(in, C, cs), ChunksOf(in, T, ds), ds # <<>>,
         cs # <<>> => GoesOn(in, cs[Len(cs)], ds[1]),
         \A p \in T : Has(cs, p) \/ \A q \in C : Has(cs, q) => q < p
  PROVE  /\ ChunksOf(in, C, cs \o ds) /\ cs \o ds # <<>>
         /\ \A p : Has(cs \o ds, p) <=> Has(cs, p) \/ Has(ds, p)
         /\ (cs \o ds)[Len(cs \o ds)] = ds[Len(ds)]
<1> DEFINE n == Len(cs)
           m == Len(ds)
           e == cs \o ds
<1>1. /\ cs \in Seq(Parts(in)) /\ ds \in Seq(Parts(in))
      /\ \A i \in 1..n : ChunkIn(in, C, cs[i])
      /\ \A i \in 1..m : ChunkIn(in, T, ds[i])
  BY DEF ChunksOf
<1>2. /\ e \in Seq(Parts(in)) /\ Len(e) = n + m /\ n \in Nat /\ m \in Nat
      /\ \A i \in 1..n : i \in 1..Len(e) /\ e[i] = cs[i]
      /\ \A i \in 1..m : n + i \in 1..Len(e) /\ e[n + i] = ds[i]
      /\ \A i \in 1..Len(e) : \/ i \in 1..n /\ e[i] = cs[i]
                              \/ i - n \in 1..m /\ i > n /\ e[i] = ds[i - n]
  BY <1>1, ConcatPlaces
<1>3. m >= 1
  BY <1>1, <1>2, EmptySeq
<1> HIDE DEF n, m, e
<1>4. ASSUME NEW i \in 1..Len(e)
      PROVE  ChunkIn(in, C, e[i])
  <2>1. CASE i \in 1..n /\ e[i] = cs[i]
    BY <1>1, <2>1
  <2>2. CASE i - n \in 1..m /\ e[i] = ds[i - n]
    BY <1>1, <2>2 DEF ChunkIn
  <2> QED
    BY <1>2, <2>1, <2>2
<1>5. ASSUME NEW i \in 1..(Len(e) - 1)
      PROVE  GoesOn(in, e[i], e[i + 1])
  <2>1. CASE i < n
    <3>1. i \in 1..n /\ i + 1 \in 1..n /\ i \in 1..(n - 1)
      BY <1>2, <2>1
    <3> QED
      BY <1>2, <3>1 DEF ChunksOf, n
  <2>2. CASE i = n
    <3>1. n \in 1..n /\ 1 \in 1..m /\ n + 1 = i + 1 /\ cs # <<>>
      <4>1. n >= 1
        BY <1>2, <2>2
      <4>2. n \in 1..n /\ 1 \in 1..m /\ n + 1 = i + 1
        BY <1>2, <1>3, <2>2, <4>1
      <4>3. cs # <<>>
        BY <4>1 DEF n
      <4> QED
        BY <4>2, <4>3
    <3> QED
      BY <1>2, <2>2, <3>1 DEF n
  <2>3. CASE i > n
    <3> DEFINE k == i - n
    <3>1. k \in 1..(m - 1) /\ k \in 1..m /\ k + 1 \in 1..m /\ n + k = i /\ n + (k + 1) = i + 1
      BY <1>2, <2>3
    <3> HIDE DEF k
    <3>2. GoesOn(in, ds[k], ds[k + 1])
      BY <3>1 DEF ChunksOf, m
    <3> QED
      BY <1>2, <3>1, <3>2
  <2> QED
    BY <1>2, <2>1, <2>2, <2>3
<1>6. ASSUME NEW i \in 1..Len(e), NEW p \in ToSet(e[i])
      PROVE  \/ \E j \in 1..(i - 1) : p \in ToSet(e[j])
             \/ \A j \in 1..(i - 1) : \A q \in ToSet(e[j]) : q < p
  <2>1. CASE i \in 1..n /\ e[i] = cs[i]
    <3>1. \A j \in 1..(i - 1) : j \in 1..n
      BY <1>2, <2>1
    <3>2. \/ \E j \in 1..(i - 1) : p \in ToSet(cs[j])
          \/ \A j \in 1..(i - 1) : \A q \in ToSet(cs[j]) : q < p
      BY <1>6, <2>1 DEF ChunksOf, AddsAfter, n
    <3> QED
      BY <1>2, <3>1, <3>2
  <2>2. CASE i - n \in 1..m /\ i > n /\ e[i] = ds[i - n]
    <3> DEFINE k == i - n
    <3>1. k \in 1..m /\ p \in ToSet(ds[k]) /\ \A j \in 1..n : j \in 1..(i - 1)
      BY <1>2, <1>6, <2>2
    <3>2. \A j \in 1..(k - 1) : n + j \in 1..(i - 1) /\ j \in 1..m
      BY <1>2, <3>1
    <3>3. \A j \in 1..(i - 1) : j \in 1..n \/ (j > n /\ j - n \in 1..(k - 1) /\ n + (j - n) = j)
      BY <1>2, <3>1
    <3> HIDE DEF k
    <3>4. p \in T
      BY <1>1, <3>1 DEF ChunkIn
    <3>5. CASE Has(cs, p)
      <4>1. PICK j \in 1..n : p \in ToSet(cs[j])
        BY <3>5 DEF Has, n
      <4> QED
        BY <1>2, <3>1, <4>1
    <3>6. CASE \A q \in C : Has(cs, q) => q < p
      <4>1. \A j \in 1..n : \A q \in ToSet(cs[j]) : q < p
        <5>1. ASSUME NEW j \in 1..n, NEW q \in ToSet(cs[j])
              PROVE  q < p
          <6>1. q \in C
            BY <1>1, <5>1 DEF ChunkIn
          <6>2. Has(cs, q)
            BY <5>1 DEF Has, n
          <6> QED
            BY <3>6, <6>1, <6>2
        <5> QED
          BY <5>1
      <4>2. \/ \E j \in 1..(k - 1) : p \in ToSet(ds[j])
            \/ \A j \in 1..(k - 1) : \A q \in ToSet(ds[j]) : q < p
        BY <3>1 DEF ChunksOf, AddsAfter, m
      <4>3. CASE \E j \in 1..(k - 1) : p \in ToSet(ds[j])
        BY <1>2, <3>2, <4>3
      <4>4. CASE \A j \in 1..(k - 1) : \A q \in ToSet(ds[j]) : q < p
        <5>1. ASSUME NEW j \in 1..(i - 1), NEW q \in ToSet(e[j])
              PROVE  q < p
          <6>1. CASE j \in 1..n
            BY <1>2, <4>1, <5>1, <6>1
          <6>2. CASE j - n \in 1..(k - 1) /\ n + (j - n) = j
            <7> DEFINE l == j - n
            <7>1. l \in 1..(k - 1) /\ n + l = j /\ l \in 1..m
              BY <3>2, <6>2
            <7> HIDE DEF l
            <7> QED
              BY <1>2, <4>4, <5>1, <7>1
          <6> QED
            BY <3>3, <6>1, <6>2
        <5> QED
          BY <5>1
      <4> QED
        BY <4>2, <4>3, <4>4
    <3> QED
      BY <3>4, <3>5, <3>6
  <2> QED
    BY <1>2, <2>1, <2>2
<1>7. ASSUME NEW p
      PROVE  Has(e, p) <=> Has(cs, p) \/ Has(ds, p)
  <2>1. Has(cs, p) => Has(e, p)
    BY <1>2 DEF Has, n
  <2>2. Has(ds, p) => Has(e, p)
    BY <1>2 DEF Has, m
  <2>3. Has(e, p) => Has(cs, p) \/ Has(ds, p)
    BY <1>2 DEF Has, n, m
  <2> QED
    BY <2>1, <2>2, <2>3
<1>8. e # <<>> /\ e[Len(e)] = ds[m]
  <2>1. m \in 1..m /\ Len(e) # 0
    BY <1>2, <1>3
  <2>2. e # <<>>
    BY <2>1
  <2> QED
    BY <1>2, <2>1, <2>2
<1>9. ChunksOf(in, C, e)
  BY <1>2, <1>4, <1>5, <1>6 DEF ChunksOf, AddsAfter
<1> QED
  BY <1>7, <1>8, <1>9 DEF e, n, m

\* A part that is one chunk.
LEMMA OneChunk ==
  ASSUME NEW in, Splittable(in), NEW q \in Parts(in), Rising(q, Less), Gapless(in, ToSet(q)),
         q # <<>>, Len(q) <= in.target + in.overlap
  PROVE  ChunksOf(in, ToSet(q), <<q>>) /\ Complete(in, ToSet(q), <<q>>)
<1> DEFINE cs == <<q>>
<1>1. cs \in Seq(Parts(in)) /\ Len(cs) = 1 /\ cs[1] = q
  OBVIOUS
<1>2. \A i : i \in 1..1 <=> i = 1
  OBVIOUS
<1>3. 1..0 = {} /\ 1 - 1 = 0
  OBVIOUS
<1>4. \A p \in ToSet(q) : q[1] = q[1]
  OBVIOUS
<1> HIDE DEF cs
<1>5. ChunkIn(in, ToSet(q), q)
  BY DEF ChunkIn
<1>6. ChunksOf(in, ToSet(q), cs)
  BY <1>1, <1>2, <1>3, <1>5 DEF ChunksOf, AddsAfter
<1>7. \A p \in ToSet(q) : Has(cs, p)
  BY <1>1, <1>2 DEF Has
<1>8. Final(in, ToSet(q), q)
  BY DEF Final
<1> QED
  BY <1>1, <1>6, <1>7, <1>8 DEF Complete, cs

\* Writing the chunk out, cut if it is too long.
LEMMA FlushCuts ==
  ASSUME NEW in, Splittable(in), NEW whole, NEW cut, Cuts(in, cut, whole),
         NEW C, Gapless(in, C), NEW s, GatheredTo(in, C, whole, s)
  PROVE  /\ ChunksOf(in, C, FlushPart(in, cut, s.chunks, s.current))
         /\ Complete(in, C, FlushPart(in, cut, s.chunks, s.current))
<1> DEFINE t == TrimRunes(in, s.current)
           cs == s.chunks
           ds == IF Finer(t, in.target) THEN cut[t] ELSE <<t>>
           e == FlushPart(in, cut, cs, s.current)
<1>1. /\ cs \in Seq(Parts(in)) /\ s.current \in Parts(in) /\ C \subseteq Positions(in)
      /\ Rising(s.current, Less) /\ ToSet(s.current) \subseteq C
  BY DEF GatheredTo, Gathering, Gapless
<1>2. /\ t \in Parts(in) /\ Len(t) <= Len(s.current) /\ ToSet(t) \subseteq ToSet(s.current)
      /\ \A p \in ToSet(s.current) : Solid(in, p) => p \in ToSet(t)
      /\ t = <<>> <=> \A p \in ToSet(s.current) : ~Solid(in, p)
      /\ Rising(t, Less)
  <2> DEFINE c == s.current
  <2> HIDE DEF c
  <2>1. c \in Parts(in) /\ Rising(c, Less)
    BY <1>1 DEF c
  <2>2. /\ TrimRunes(in, c) \in Parts(in) /\ Len(TrimRunes(in, c)) <= Len(c)
        /\ ToSet(TrimRunes(in, c)) \subseteq ToSet(c)
        /\ \A p \in ToSet(c) : Solid(in, p) => p \in ToSet(TrimRunes(in, c))
        /\ TrimRunes(in, c) = <<>> <=> \A p \in ToSet(c) : ~Solid(in, p)
        /\ Rising(TrimRunes(in, c), Less)
    BY <2>1, TrimIs
  <2> QED
    BY <2>2 DEF c
<1>3. e = IF t = <<>> THEN cs ELSE cs \o ds
  BY DEF FlushPart
<1> HIDE DEF t, e, cs
<1>4. CASE t = <<>>
  <2>1. \A p \in ToSet(s.current) : ~Solid(in, p)
    BY <1>2, <1>4
  <2>2. \A p \in C : Solid(in, p) => Has(cs, p)
    BY <2>1 DEF GatheredTo, cs
  <2>3. cs # <<>> => Final(in, C, cs[Len(cs)])
    BY <2>1 DEF GatheredTo, cs
  <2>4. ChunksOf(in, C, cs)
    BY DEF GatheredTo, cs
  <2> QED
    BY <1>3, <1>4, <2>2, <2>3, <2>4 DEF Complete, e, cs
<1>5. CASE t # <<>>
  <2>1. Final(in, C, t)
    <3>1. Final(in, C, s.current)
      BY DEF GatheredTo
    <3> QED
      BY <1>2, <3>1 DEF Final
  <2>2. Gapless(in, ToSet(t))
    <3>1. ToSet(t) \subseteq C
      BY <1>1, <1>2
    <3>2. ASSUME NEW a \in ToSet(t), NEW b \in ToSet(t), NEW p \in Positions(in),
                 Solid(in, p), a <= p, p <= b
          PROVE  p \in ToSet(t)
      <4>1. p \in C
        BY <3>1, <3>2 DEF Gapless
      <4> QED
        BY <2>1, <3>2, <4>1 DEF Final
    <3> QED
      BY <1>1, <3>1, <3>2 DEF Gapless
  <2>3. Len(t) \in Nat /\ Len(s.current) \in Nat /\ in.target \in Nat /\ in.overlap \in Nat
    BY <1>1, <1>2, SplitInputIs, LenProperties
  <2>4. ChunksOf(in, ToSet(t), ds) /\ Complete(in, ToSet(t), ds)
    <3>1. CASE Finer(t, in.target)
      <4>1. whole => Len(t) <= in.target + in.overlap
        BY <1>2, <2>3 DEF GatheredTo
      <4>2. ds = cut[t]
        BY <3>1
      <4>3. ChunksOf(in, ToSet(t), cut[t]) /\ Complete(in, ToSet(t), cut[t])
        BY <1>2, <1>5, <2>2, <4>1 DEF Cuts
      <4> QED
        BY <4>2, <4>3
    <3>2. CASE ~Finer(t, in.target)
      <4>1. Len(t) <= in.target + in.overlap
        BY <2>3, <3>2 DEF Finer
      <4>2. ds = <<t>>
        BY <3>2
      <4> HIDE DEF ds
      <4>3. ChunksOf(in, ToSet(t), <<t>>) /\ Complete(in, ToSet(t), <<t>>)
        BY <1>2, <1>5, <2>2, <4>1, OneChunk
      <4> QED
        BY <4>2, <4>3
    <3> QED
      BY <3>1, <3>2
  <2> HIDE DEF ds
  <2>5. ds # <<>> /\ 1 \in 1..Len(ds) /\ Len(ds) \in 1..Len(ds)
    <3>1. \E p \in ToSet(s.current) : Solid(in, p)
      BY <1>2, <1>5
    <3>2. PICK p \in ToSet(t) : Solid(in, p)
      BY <1>2, <3>1
    <3>3. Has(ds, p)
      BY <2>4, <3>2 DEF Complete
    <3>4. PICK i \in 1..Len(ds) : p \in ToSet(ds[i])
      BY <3>3 DEF Has
    <3>5. ds \in Seq(Parts(in)) /\ Len(ds) \in Nat
      BY <2>4, LenProperties DEF ChunksOf
    <3>6. Len(ds) >= 1
      BY <3>4, <3>5
    <3> QED
      BY <3>5, <3>6
  <2>6. ChunkIn(in, ToSet(t), ds[1]) /\ ChunkIn(in, ToSet(t), ds[Len(ds)])
    BY <2>4, <2>5 DEF ChunksOf
  <2>7. cs # <<>> => GoesOn(in, cs[Len(cs)], ds[1])
    <3>1. ToSet(ds[1]) \subseteq ToSet(s.current)
      BY <1>2, <2>6 DEF ChunkIn
    <3>2. ASSUME cs # <<>>
          PROVE  GoesOn(in, cs[Len(cs)], ds[1])
      <4>1. GoesOn(in, cs[Len(cs)], s.current)
        BY <3>2 DEF GatheredTo, cs
      <4>2. ToSet(cs[Len(cs)]) \cap ToSet(ds[1]) \subseteq ToSet(cs[Len(cs)]) \cap ToSet(s.current)
        BY <3>1
      <4>3. Few(ToSet(cs[Len(cs)]) \cap ToSet(ds[1]), in.overlap)
        BY <2>3, <4>1, <4>2, FewLess DEF GoesOn
      <4> QED
        BY <3>1, <4>1, <4>3 DEF GoesOn
    <3> QED
      BY <3>2
  <2>8. \A p \in ToSet(t) : Has(cs, p) \/ \A q \in C : Has(cs, q) => q < p
    BY <1>2 DEF GatheredTo, cs
  <2>9. ChunksOf(in, C, cs) /\ ToSet(t) \subseteq C
    BY <1>1, <1>2 DEF GatheredTo, cs
  <2>10. /\ ChunksOf(in, C, e) /\ e # <<>>
         /\ \A p : Has(e, p) <=> Has(cs, p) \/ Has(ds, p)
         /\ e[Len(e)] = ds[Len(ds)]
    <3> DEFINE T == ToSet(t)
    <3>1. e = cs \o ds
      BY <1>3, <1>5
    <3>2. T \subseteq C /\ ChunksOf(in, T, ds) /\ \A p \in T : Has(cs, p) \/ \A q \in C : Has(cs, q) => q < p
      BY <2>4, <2>8, <2>9
    <3>3. C \subseteq Positions(in) /\ ChunksOf(in, C, cs) /\ ds # <<>>
      BY <1>1, <2>5, <2>9
    <3> HIDE DEF T
    <3>4. /\ ChunksOf(in, C, cs \o ds) /\ cs \o ds # <<>>
          /\ \A p : Has(cs \o ds, p) <=> Has(cs, p) \/ Has(ds, p)
          /\ (cs \o ds)[Len(cs \o ds)] = ds[Len(ds)]
      BY <2>7, <3>2, <3>3, ChunksJoin
    <3> QED
      BY <3>1, <3>4
  <2>11. ASSUME NEW p \in C, Solid(in, p)
         PROVE  Has(e, p)
    <3>1. Has(cs, p) \/ p \in ToSet(s.current)
      BY <2>11 DEF GatheredTo, cs
    <3>2. p \in ToSet(s.current) => Has(ds, p)
      BY <1>2, <2>4, <2>11 DEF Complete
    <3> QED
      BY <2>10, <3>1, <3>2
  <2>12. Final(in, C, ds[Len(ds)])
    <3>1. Final(in, ToSet(t), ds[Len(ds)])
      BY <2>4, <2>5 DEF Complete
    <3>2. ToSet(ds[Len(ds)]) \subseteq ToSet(t)
      BY <2>6 DEF ChunkIn
    <3> QED
      BY <2>1, <3>1, <3>2 DEF Final
  <2>13. Complete(in, C, e)
    BY <2>10, <2>11, <2>12 DEF Complete
  <2> QED
    BY <2>10, <2>13 DEF e, cs
<1> QED
  BY <1>4, <1>5

\* What comes next in the text.
NextPiece(in, C, whole, piece) ==
  /\ piece \in Parts(in) /\ Rising(piece, Less)
  /\ \A c \in C, p \in ToSet(piece) : c < p
  /\ whole => Len(piece) <= in.target

\* A chunk begins with the tail of the last one.
LEMMA ChunkBegun ==
  ASSUME NEW in, Splittable(in), NEW whole, NEW C, C \subseteq Positions(in),
         NEW cs, ChunksOf(in, C, cs), Complete(in, C, cs),
         NEW piece, NextPiece(in, C, whole, piece)
  PROVE  GatheredTo(in, C \cup ToSet(piece), whole,
                  [chunks |-> cs, current |-> Carried(cs, in.overlap) \o piece])
<1> DEFINE E == C \cup ToSet(piece)
           w == Carried(cs, in.overlap)
           c == w \o piece
           l == cs[Len(cs)]
           s == [chunks |-> cs, current |-> c]
<1>1. /\ in.target \in Nat /\ in.overlap \in Nat /\ Parts(in) = Seq(Positions(in))
      /\ Positions(in) \subseteq Nat /\ piece \in Parts(in) /\ cs \in Seq(Parts(in))
  BY SplitInputIs DEF NextPiece, ChunksOf
<1>2. CASE cs = <<>>
  <2>1. w = <<>>
    BY <1>2 DEF Carried
  <2>2. c = piece
    BY <1>1, <2>1, ConcatEmptySeq
  <2> HIDE DEF c
  <2>3. s.chunks = cs /\ s.current = piece /\ s \in Gathering(in)
    BY <1>1, <2>2 DEF Gathering
  <2> HIDE DEF s
  <2>4. \A p : ~Has(cs, p)
    BY <1>2 DEF Has
  <2>5. \A p \in C : ~Solid(in, p)
    BY <2>4 DEF Complete
  <2>6. ChunksOf(in, E, cs)
    BY DEF ChunksOf, ChunkIn
  <2>7. Final(in, E, piece)
    BY <2>5 DEF Final
  <2>8. whole => Len(piece) <= in.target + in.overlap
    <3>1. Len(piece) \in Nat
      BY <1>1, LenProperties
    <3> QED
      BY <1>1, <3>1 DEF NextPiece
  <2>9. Rising(piece, Less)
    BY DEF NextPiece
  <2>10. GatheredTo(in, E, whole, s)
    BY <1>2, <2>3, <2>4, <2>5, <2>6, <2>7, <2>8, <2>9 DEF GatheredTo
  <2> QED
    BY <2>10 DEF s, c
<1>3. CASE cs # <<>>
  <2>1. Len(cs) \in 1..Len(cs)
    <3>1. Len(cs) \in Nat /\ Len(cs) # 0
      BY <1>1, <1>3, LenProperties, EmptySeq
    <3> QED
      BY <3>1
  <2>2. l \in Parts(in) /\ ChunkIn(in, C, l)
    BY <1>1, <2>1, ElementOfSeq DEF ChunksOf
  <2>3. /\ w \in Parts(in) /\ Len(w) <= in.overlap /\ ToSet(w) \subseteq ToSet(l) /\ Rising(w, Less)
        /\ \A a \in ToSet(w), p \in ToSet(l) : a <= p => p \in ToSet(w)
    <3>1. CASE in.overlap > 0
      <4>1. w = tailRunes(l, in.overlap)
        BY <1>3, <3>1 DEF Carried, Last
      <4>2. Rising(l, Less)
        BY <2>2 DEF ChunkIn
      <4> HIDE DEF w, l
      <4> QED
        BY <1>1, <2>2, <4>1, <4>2, TailIs
    <3>2. CASE ~(in.overlap > 0)
      <4>1. w = <<>>
        BY <3>2 DEF Carried
      <4>2. <<>> \in Parts(in) /\ Len(<<>>) = 0 /\ ToSet(<<>>) = {} /\ Rising(<<>>, Less)
        BY <1>1 DEF ToSet, Rising
      <4> HIDE DEF w
      <4> QED
        BY <1>1, <4>1, <4>2
    <3> QED
      BY <3>1, <3>2
  <2>4. /\ ToSet(l) \subseteq C /\ Final(in, C, l) /\ \A p \in ToSet(l) : Has(cs, p)
    BY <1>3, <2>1, <2>2 DEF ChunkIn, Complete, Has
  <2>5. \A x \in C, p \in ToSet(piece) : x < p
    BY DEF NextPiece
  <2>6. \A p \in E : p \in Nat
    <3>1. ToSet(piece) \subseteq Positions(in)
      BY <1>1, ToSetOf, ElementOfSeq
    <3> QED
      BY <1>1, <3>1
  <2> HIDE DEF w, l, c
  <2>7. /\ c \in Parts(in) /\ Len(c) = Len(w) + Len(piece) /\ Len(w) \in Nat /\ Len(piece) \in Nat
        /\ \A p : p \in ToSet(c) <=> p \in ToSet(w) \/ p \in ToSet(piece)
    BY <1>1, <2>3, ConcatPlaces, ConcatSet DEF c
  <2>8. Rising(c, Less)
    <3>1. \A a \in ToSet(w), b \in ToSet(piece) : <<a, b>> \in Less
      BY <2>3, <2>4, <2>5, <2>6 DEF Less
    <3>2. Rising(piece, Less)
      BY DEF NextPiece
    <3> QED
      BY <1>1, <2>3, <3>1, <3>2, ConcatRises DEF c
  <2>9. Final(in, E, c)
    <3>1. ASSUME NEW a \in ToSet(c), NEW p \in E, Solid(in, p), a <= p
          PROVE  p \in ToSet(c)
      <4>1. CASE p \in ToSet(piece)
        BY <2>7, <4>1
      <4>2. CASE p \in C
        <5>1. a \in ToSet(w)
          <6>1. a \in ToSet(piece) => p < a
            BY <2>5, <4>2
          <6>2. a \in E /\ a \in Nat /\ p \in Nat
            BY <2>3, <2>4, <2>6, <2>7, <3>1
          <6> QED
            BY <2>7, <3>1, <6>1, <6>2
        <5>2. p \in ToSet(l)
          BY <2>3, <2>4, <3>1, <4>2, <5>1 DEF Final
        <5> QED
          BY <2>3, <2>7, <3>1, <5>1, <5>2
      <4> QED
        BY <4>1, <4>2
    <3> QED
      BY <3>1 DEF Final
  <2>10. GoesOn(in, l, c)
    <3>1. ASSUME NEW q \in ToSet(c)
          PROVE  \E p \in ToSet(l) : p <= q
      <4>1. CASE q \in ToSet(w)
        <5>1. q \in ToSet(l) /\ q \in Nat
          BY <2>3, <2>4, <2>6, <4>1
        <5>2. q <= q
          BY <5>1
        <5> QED
          BY <5>1, <5>2
      <4>2. CASE q \in ToSet(piece)
        <5>1. \E p : p \in ToSet(l)
          <6>1. l \in Seq(Positions(in)) /\ l # <<>>
            BY <1>1, <2>2 DEF ChunkIn
          <6>2. 1 \in 1..Len(l)
            <7>1. Len(l) \in Nat /\ Len(l) # 0
              BY <6>1, LenProperties, EmptySeq
            <7> QED
              BY <7>1
          <6> QED
            BY <6>1, <6>2, ToSetOf
        <5>2. PICK p \in ToSet(l) : TRUE
          BY <5>1
        <5>3. p \in C /\ p < q /\ p \in Nat /\ q \in Nat
          BY <2>4, <2>5, <2>6, <4>2, <5>2
        <5> QED
          BY <5>3
      <4> QED
        BY <2>7, <4>1, <4>2
    <3>2. Few(ToSet(l) \cap ToSet(c), in.overlap)
      <4>1. ToSet(l) \cap ToSet(c) \subseteq ToSet(w)
        <5>1. ASSUME NEW p \in ToSet(l), p \in ToSet(piece)
              PROVE  FALSE
          <6>1. p \in C /\ p < p /\ p \in Nat
            BY <2>4, <2>5, <2>6, <5>1
          <6> QED
            BY <6>1
        <5> QED
          BY <2>7, <5>1
      <4>2. Few(ToSet(w), Len(w))
        BY <1>1, <2>3, ListIsFew
      <4>3. Few(ToSet(w), in.overlap)
        <5>1. Cardinality(ToSet(w)) \in Nat
          BY <4>2, FS_CardinalityType DEF Few
        <5> QED
          BY <1>1, <2>3, <2>7, <4>2, <5>1 DEF Few
      <4> QED
        BY <1>1, <4>1, <4>3, FewLess
    <3> QED
      BY <3>1, <3>2 DEF GoesOn
  <2>11. ASSUME \A p \in ToSet(c) : ~Solid(in, p)
         PROVE  Final(in, E, l)
    <3>1. \A p \in ToSet(piece) : ~Solid(in, p)
      BY <2>7, <2>11
    <3> QED
      BY <2>4, <3>1 DEF Final
  <2>12. ChunksOf(in, E, cs)
    BY DEF ChunksOf, ChunkIn
  <2>13. \A p \in E : Solid(in, p) => Has(cs, p) \/ p \in ToSet(c)
    BY <2>7 DEF Complete
  <2>14. \A p \in ToSet(c) : Has(cs, p) \/ \A q \in E : Has(cs, q) => q < p
    <3>1. ASSUME NEW p \in ToSet(piece), NEW q, Has(cs, q)
          PROVE  q < p
      <4>1. q \in C
        BY <3>1 DEF Has, ChunksOf, ChunkIn
      <4> QED
        BY <2>5, <4>1
    <3> QED
      BY <2>3, <2>4, <2>7, <3>1
  <2>15. Len(piece) <= in.target => Len(c) <= in.target + in.overlap
    BY <1>1, <2>3, <2>7
  <2>16. s \in Gathering(in) /\ s.chunks = cs /\ s.current = c
    BY <1>1, <2>7 DEF Gathering
  <2>17. ToSet(c) \subseteq E
    BY <2>3, <2>4, <2>7
  <2> HIDE DEF s
  <2>18. GatheredTo(in, E, whole, s)
    BY <2>8, <2>9, <2>10, <2>11, <2>12, <2>13, <2>14, <2>15, <2>16, <2>17 DEF GatheredTo, NextPiece, l
  <2> QED
    BY <2>18 DEF s, c, w
<1> QED
  BY <1>2, <1>3

\* A chunk goes on.
LEMMA PieceTaken ==
  ASSUME NEW in, Splittable(in), NEW whole, NEW C, C \subseteq Positions(in),
         NEW s, GatheredTo(in, C, whole, s), NEW piece, NextPiece(in, C, whole, piece),
         Len(s.current) + Len(piece) <= in.target \/ s.current = <<>>
  PROVE  GatheredTo(in, C \cup ToSet(piece), whole, [s EXCEPT !.current = Take(@, piece)])
<1> DEFINE E == C \cup ToSet(piece)
           w == s.current
           cs == s.chunks
           c == w \o piece
           l == cs[Len(cs)]
           r == [s EXCEPT !.current = Take(@, piece)]
<1>1. /\ in.target \in Nat /\ in.overlap \in Nat /\ Parts(in) = Seq(Positions(in))
      /\ Positions(in) \subseteq Nat /\ piece \in Parts(in) /\ cs \in Seq(Parts(in)) /\ w \in Parts(in)
  BY SplitInputIs DEF NextPiece, GatheredTo, Gathering
<1>2. /\ ToSet(w) \subseteq C /\ Rising(w, Less) /\ Final(in, C, w)
      /\ \A p \in C : Solid(in, p) => Has(cs, p) \/ p \in ToSet(w)
      /\ \A p \in ToSet(w) : Has(cs, p) \/ \A q \in C : Has(cs, q) => q < p
      /\ ChunksOf(in, C, cs)
  BY DEF GatheredTo
<1>3. \A x \in C, p \in ToSet(piece) : x < p
  BY DEF NextPiece
<1>4. \A p \in E : p \in Nat
  <2>1. ToSet(piece) \subseteq Positions(in)
    <3>1. piece \in Seq(Positions(in))
      BY <1>1
    <3> QED
      BY <3>1, ToSetOf, ElementOfSeq
  <2> QED
    BY <1>1, <2>1
<1>5. r.chunks = cs /\ r.current = c /\ (c \in Parts(in) => r \in Gathering(in))
  BY <1>1 DEF GatheredTo, Gathering, Take
<1>6. /\ c \in Parts(in) /\ Len(c) = Len(w) + Len(piece) /\ Len(w) \in Nat /\ Len(piece) \in Nat
      /\ \A p : p \in ToSet(c) <=> p \in ToSet(w) \/ p \in ToSet(piece)
  <2> HIDE DEF w
  <2> QED
    BY <1>1, ConcatPlaces, ConcatSet
<1>7. whole => Len(c) <= in.target + in.overlap
  <2>1. w = <<>> => Len(w) = 0
    OBVIOUS
  <2> HIDE DEF c
  <2> QED
    BY <1>1, <1>6, <2>1 DEF NextPiece
<1> HIDE DEF c, w, r, cs, l
<1>8. Rising(c, Less)
  <2>1. \A a \in ToSet(w), b \in ToSet(piece) : <<a, b>> \in Less
    BY <1>2, <1>3, <1>4 DEF Less
  <2>2. Rising(piece, Less)
    BY DEF NextPiece
  <2> QED
    BY <1>1, <1>2, <2>1, <2>2, ConcatRises DEF c
<1>9. Final(in, E, c)
  <2>1. ASSUME NEW a \in ToSet(c), NEW p \in E, Solid(in, p), a <= p
        PROVE  p \in ToSet(c)
    <3>1. CASE p \in ToSet(piece)
      BY <1>6, <3>1
    <3>2. CASE p \in C
      <4>1. a \in ToSet(piece) => p < a
        BY <1>3, <3>2
      <4>2. a \in E /\ a \in Nat /\ p \in Nat
        BY <1>2, <1>4, <1>6, <2>1
      <4>3. a \in ToSet(w)
        BY <1>6, <2>1, <4>1, <4>2
      <4> QED
        BY <1>2, <1>6, <2>1, <3>2, <4>3 DEF Final
    <3> QED
      BY <3>1, <3>2
  <2> QED
    BY <2>1 DEF Final
<1>10. \A p : Has(cs, p) => p \in C
  BY <1>2 DEF Has, ChunksOf, ChunkIn
<1>11. ASSUME cs # <<>>
       PROVE  /\ GoesOn(in, l, c)
              /\ (\A p \in ToSet(c) : ~Solid(in, p)) => Final(in, E, l)
  <2>1. Len(cs) \in 1..Len(cs)
    <3>1. Len(cs) \in Nat /\ Len(cs) # 0
      BY <1>1, <1>11, LenProperties, EmptySeq
    <3> QED
      BY <3>1
  <2>2. l \in Parts(in) /\ ChunkIn(in, C, l) /\ ToSet(l) \subseteq C
    BY <1>1, <1>2, <2>1, ElementOfSeq DEF ChunksOf, ChunkIn, l
  <2>3. GoesOn(in, l, w) /\ ((\A p \in ToSet(w) : ~Solid(in, p)) => Final(in, C, l))
    BY <1>11 DEF GatheredTo, cs, l, w
  <2>4. \E p : p \in ToSet(l)
    <3>1. l \in Seq(Positions(in)) /\ l # <<>>
      BY <1>1, <2>2 DEF ChunkIn
    <3>2. Len(l) \in Nat /\ Len(l) # 0
      BY <3>1, LenProperties, EmptySeq
    <3>3. 1 \in 1..Len(l)
      BY <3>2
    <3> QED
      BY <3>1, <3>3, ToSetOf
  <2>5. ASSUME NEW q \in ToSet(c)
        PROVE  \E p \in ToSet(l) : p <= q
    <3>1. CASE q \in ToSet(w)
      BY <2>3, <3>1 DEF GoesOn
    <3>2. CASE q \in ToSet(piece)
      <4>1. PICK p \in ToSet(l) : TRUE
        BY <2>4
      <4>2. p \in C /\ p < q /\ p \in Nat /\ q \in Nat
        BY <1>3, <1>4, <2>2, <3>2, <4>1
      <4> QED
        BY <4>2
    <3> QED
      BY <1>6, <3>1, <3>2
  <2>6. ToSet(l) \cap ToSet(c) \subseteq ToSet(l) \cap ToSet(w)
    <3>1. ASSUME NEW p \in ToSet(l), p \in ToSet(piece)
          PROVE  FALSE
      <4>1. p \in C /\ p < p /\ p \in Nat
        BY <1>3, <1>4, <2>2, <3>1
      <4> QED
        BY <4>1
    <3> QED
      BY <1>6, <3>1
  <2>7. Few(ToSet(l) \cap ToSet(c), in.overlap)
    BY <1>1, <2>3, <2>6, FewLess DEF GoesOn
  <2>8. ASSUME \A p \in ToSet(c) : ~Solid(in, p)
        PROVE  Final(in, E, l)
    <3>1. \A p \in ToSet(piece) : ~Solid(in, p)
      BY <1>6, <2>8
    <3>2. Final(in, C, l)
      BY <1>6, <2>3, <2>8
    <3> QED
      BY <3>1, <3>2 DEF Final
  <2> QED
    BY <2>5, <2>7, <2>8 DEF GoesOn
<1>12. ChunksOf(in, E, cs)
  BY <1>2 DEF ChunksOf, ChunkIn
<1>13. \A p \in E : Solid(in, p) => Has(cs, p) \/ p \in ToSet(c)
  BY <1>2, <1>6
<1>14. \A p \in ToSet(c) : Has(cs, p) \/ \A q \in E : Has(cs, q) => q < p
  BY <1>2, <1>3, <1>6, <1>10
<1>15. ToSet(c) \subseteq E
  BY <1>2, <1>6
<1> QED
  BY <1>5, <1>6, <1>7, <1>8, <1>9, <1>11, <1>12, <1>13, <1>14, <1>15 DEF GatheredTo, l, r

LEMMA PieceAdded ==
  ASSUME NEW in, Splittable(in), NEW whole, NEW cut, Cuts(in, cut, whole),
         NEW C, Gapless(in, C), NEW s, GatheredTo(in, C, whole, s),
         NEW piece, NextPiece(in, C, whole, piece)
  PROVE  GatheredTo(in, C \cup ToSet(piece), whole, AddPiece(in, cut, s, piece))
<1>1. CASE Len(s.current) + Len(piece) > in.target /\ s.current # <<>>
  <2> DEFINE chunks == FlushPart(in, cut, s.chunks, s.current)
  <2>1. AddPiece(in, cut, s, piece) = [chunks |-> chunks, current |-> Carried(chunks, in.overlap) \o piece]
    BY <1>1 DEF AddPiece
  <2>2. ChunksOf(in, C, chunks) /\ Complete(in, C, chunks)
    BY FlushCuts
  <2> HIDE DEF chunks
  <2> QED
    BY <2>1, <2>2, ChunkBegun DEF Gapless
<1>2. CASE ~(Len(s.current) + Len(piece) > in.target /\ s.current # <<>>)
  <2>1. AddPiece(in, cut, s, piece) = [s EXCEPT !.current = Take(@, piece)]
    BY <1>2 DEF AddPiece
  <2>2. Len(s.current) \in Nat /\ Len(piece) \in Nat /\ in.target \in Nat
    BY SplitInputIs, LenProperties DEF GatheredTo, Gathering, NextPiece
  <2>3. Len(s.current) + Len(piece) <= in.target \/ s.current = <<>>
    BY <1>2, <2>2
  <2> QED
    BY <2>1, <2>3, PieceTaken DEF Gapless
<1> QED
  BY <1>1, <1>2

\* The type of what the steps of the splitter return.
LEMMA FlushPartTyped ==
  ASSUME NEW in, Splittable(in), NEW cut \in [Parts(in) -> Seq(Parts(in))],
         NEW cs \in Seq(Parts(in)), NEW c \in Parts(in)
  PROVE  FlushPart(in, cut, cs, c) \in Seq(Parts(in))
<1> DEFINE t == TrimRunes(in, c)
           ds == IF Finer(t, in.target) THEN cut[t] ELSE <<t>>
<1>1. t \in Parts(in)
  BY TrimIs
<1> HIDE DEF t
<1>2. ds \in Seq(Parts(in))
  BY <1>1
<1>3. FlushPart(in, cut, cs, c) = IF t = <<>> THEN cs ELSE cs \o ds
  BY DEF FlushPart, t
<1> HIDE DEF ds
<1>4. cs \o ds \in Seq(Parts(in))
  BY <1>2, ConcatPlaces
<1> QED
  BY <1>3, <1>4

LEMMA AddPieceTyped ==
  ASSUME NEW in, Splittable(in), NEW cut \in [Parts(in) -> Seq(Parts(in))],
         NEW s \in Gathering(in), NEW piece \in Parts(in)
  PROVE  AddPiece(in, cut, s, piece) \in Gathering(in)
<1> DEFINE cs == FlushPart(in, cut, s.chunks, s.current)
           w == Carried(cs, in.overlap)
<1>1. /\ s.chunks \in Seq(Parts(in)) /\ s.current \in Parts(in)
      /\ Parts(in) = Seq(Positions(in)) /\ in.overlap \in Nat
  BY SplitInputIs DEF Gathering
<1>2. cs \in Seq(Parts(in))
  BY <1>1, FlushPartTyped
<1> HIDE DEF cs
<1>3. w \in Parts(in)
  <2>1. CASE in.overlap > 0 /\ cs # <<>>
    <3>1. w = tailRunes(cs[Len(cs)], in.overlap)
      BY <2>1 DEF Carried, Last
    <3>2. Len(cs) \in Nat /\ Len(cs) # 0
      BY <1>2, <2>1, LenProperties, EmptySeq
    <3>3. Len(cs) \in 1..Len(cs)
      BY <3>2
    <3>4. cs[Len(cs)] \in Parts(in)
      BY <1>2, <3>3, ElementOfSeq
    <3> HIDE DEF w
    <3> QED
      BY <1>1, <3>1, <3>4, TailIs
  <2>2. CASE ~(in.overlap > 0 /\ cs # <<>>)
    BY <1>1, <2>2 DEF Carried
  <2> QED
    BY <2>1, <2>2
<1> HIDE DEF w
<1>4. s.current \o piece \in Parts(in) /\ w \o piece \in Parts(in)
  <2> DEFINE c == s.current
  <2> HIDE DEF c
  <2>1. c \in Seq(Positions(in)) /\ piece \in Seq(Positions(in)) /\ w \in Seq(Positions(in))
    BY <1>1, <1>3 DEF c
  <2>2. c \o piece \in Seq(Positions(in)) /\ w \o piece \in Seq(Positions(in))
    BY <2>1, ConcatPlaces
  <2> QED
    BY <1>1, <2>2 DEF c
<1>5. [chunks |-> cs, current |-> w \o piece] \in Gathering(in)
  BY <1>2, <1>4 DEF Gathering
<1>6. [s EXCEPT !.current = Take(@, piece)] \in Gathering(in)
  BY <1>1, <1>4 DEF Gathering, Take
<1> QED
  BY <1>5, <1>6 DEF AddPiece, cs, w

LEMMA NextRuneTyped ==
  ASSUME NEW in, Splittable(in), NEW seps, NEW ps \in Seq(Parts(in)), NEW p \in Positions(in)
  PROVE  NextRune(in, seps, ps, p) \in Seq(Parts(in))
<1>1. Parts(in) = Seq(Positions(in)) /\ <<p>> \in Parts(in)
  <2>1. <<p>> \in Seq(Positions(in))
    OBVIOUS
  <2> QED
    BY <2>1, SplitInputIs
<1>2. Append(ps, <<p>>) \in Seq(Parts(in))
  BY <1>1, AppendProperties
<1>3. CASE ps = <<>>
  BY <1>2, <1>3 DEF NextRune
<1>4. CASE ps # <<>>
  <2> DEFINE k == Len(ps)
             v == Append(ps[k], p)
  <2>1. k \in Nat /\ k # 0
    BY <1>4, LenProperties, EmptySeq
  <2>2. k \in 1..k
    BY <2>1
  <2>3. v \in Parts(in)
    BY <1>1, <2>2, ElementOfSeq, AppendProperties
  <2>4. [ps EXCEPT ![Len(ps)] = Append(@, p)] = [ps EXCEPT ![k] = v]
    OBVIOUS
  <2>5. [ps EXCEPT ![k] = v] \in Seq(Parts(in))
    <3> HIDE DEF v
    <3> QED
      BY <2>2, <2>3, ListExcept
  <2> QED
    BY <1>2, <2>4, <2>5 DEF NextRune
<1> QED
  BY <1>3, <1>4

\* The gathering of the pieces, and its course.
PiecesGathered(in, cut, pieces) ==
  FoldLeft(LAMBDA t, piece : AddPiece(in, cut, t, piece), [chunks |-> <<>>, current |-> <<>>], pieces)
GatherCourse(F, in, cut, pieces) ==
  /\ F[0] = [chunks |-> <<>>, current |-> <<>>] /\ F[Len(pieces)] \in Gathering(in)
  /\ \A k \in 1..Len(pieces) : /\ F[k] \in Gathering(in) /\ F[k - 1] \in Gathering(in)
                               /\ F[k] = AddPiece(in, cut, F[k - 1], pieces[k])

LEMMA GatherStart ==
  ASSUME NEW in, Splittable(in)
  PROVE  [chunks |-> <<>>, current |-> <<>>] \in Gathering(in)
<1>1. Parts(in) = Seq(Positions(in))
  BY SplitInputIs
<1> QED
  BY <1>1 DEF Gathering

LEMMA GatherFold ==
  ASSUME NEW in, Splittable(in), NEW cut \in [Parts(in) -> Seq(Parts(in))], NEW pieces \in Seq(Parts(in))
  PROVE  \E F : GatherCourse(F, in, cut, pieces) /\ PiecesGathered(in, cut, pieces) = F[Len(pieces)]
<1> DEFINE n == Len(pieces)
           X == Gathering(in)
           step == [p \in X \X (1..n) |-> AddPiece(in, cut, p[1], pieces[p[2]])]
           Folds(it) == it = [s \in SUBSET (DOMAIN pieces) |->
                                IF s = {} THEN [chunks |-> <<>>, current |-> <<>>] ELSE AddPiece(in, cut, it[s \ {Max(s)}], pieces[Max(s)])]
           it == CHOOSE it : Folds(it)
<1>1. n \in Nat /\ DOMAIN pieces = 1..n /\ [chunks |-> <<>>, current |-> <<>>] \in X
  BY LenProperties, GatherStart
<1>2. ASSUME NEW p \in X, NEW k \in 1..n
      PROVE  <<p, k>> \in X \X (1..n) /\ step[<<p, k>>] = AddPiece(in, cut, p, pieces[k])
             /\ AddPiece(in, cut, p, pieces[k]) \in X
  <2>1. AddPiece(in, cut, p, pieces[k]) \in X
    BY <1>1, ElementOfSeq, AddPieceTyped
  <2>2. <<p, k>> \in X \X (1..n) /\ <<p, k>>[1] = p /\ <<p, k>>[2] = k
    OBVIOUS
  <2> HIDE DEF X, n
  <2> QED
    BY <2>1, <2>2
<1>3. step \in [X \X (1..n) -> X]
  <2>1. ASSUME NEW p \in X \X (1..n)
        PROVE  AddPiece(in, cut, p[1], pieces[p[2]]) \in X
    <3>1. p[1] \in X /\ p[2] \in 1..n
      OBVIOUS
    <3> HIDE DEF X
    <3> QED
      BY <1>2, <3>1
  <2> QED
    BY <2>1
<1>4. PiecesGathered(in, cut, pieces) = it[1..n]
  <2>1. PiecesGathered(in, cut, pieces) = it[DOMAIN pieces]
    BY DEF PiecesGathered, FoldLeft, MapThenFoldSet
  <2> HIDE DEF it
  <2> QED
    BY <1>1, <2>1
<1> HIDE DEF step, n, X
<1>5. PICK g : FoldsSets(g, n, X, [chunks |-> <<>>, current |-> <<>>], step)
  BY <1>1, <1>3, FoldRecursion
<1>6. ASSUME NEW s \in SUBSET (1..n), s # {}
      PROVE  Max(s) \in 1..n /\ s \ {Max(s)} \in SUBSET (1..n)
  <2>1. s \subseteq Nat /\ \A m \in s : m <= n
    BY <1>1
  <2>2. Max(s) \in s
    BY <1>1, <1>6, <2>1, NatMax
  <2> QED
    BY <2>2
<1>7. Folds(g)
  <2>1. ASSUME NEW s \in SUBSET (1..n)
        PROVE  g[s] = IF s = {} THEN [chunks |-> <<>>, current |-> <<>>] ELSE AddPiece(in, cut, g[s \ {Max(s)}], pieces[Max(s)])
    <3>1. CASE s = {}
      BY <1>5, <3>1 DEF FoldsSets
    <3>2. CASE s # {}
      <4>1. Max(s) \in 1..n /\ g[s \ {Max(s)}] \in X
        BY <1>5, <1>6, <3>2 DEF FoldsSets
      <4>2. g[s] = step[<<g[s \ {Max(s)}], Max(s)>>]
        BY <1>5, <3>2 DEF FoldsSets
      <4>3. step[<<g[s \ {Max(s)}], Max(s)>>] = AddPiece(in, cut, g[s \ {Max(s)}], pieces[Max(s)])
        BY <1>2, <4>1
      <4> QED
        BY <3>2, <4>2, <4>3
    <3> QED
      BY <3>1, <3>2
  <2>2. g \in [SUBSET (1..n) -> X]
    BY <1>5 DEF FoldsSets
  <2> QED
    BY <1>1, <2>1, <2>2
<1>8. Folds(it)
  <2> HIDE DEF Folds
  <2> QED
    BY <1>7
<1>9. \A s \in SUBSET (1..n) :
         it[s] = IF s = {} THEN [chunks |-> <<>>, current |-> <<>>] ELSE AddPiece(in, cut, it[s \ {Max(s)}], pieces[Max(s)])
  <2> HIDE DEF it
  <2> QED
    BY <1>1, <1>8
<1> HIDE DEF it, Folds
<1>10. SolvesFold(it, n, X, [chunks |-> <<>>, current |-> <<>>], step)
  <2>1. {} \in SUBSET (1..n)
    OBVIOUS
  <2>2. ASSUME NEW s \in SUBSET (1..n), s # {}, it[s \ {Max(s)}] \in X
        PROVE  it[s] = step[<<it[s \ {Max(s)}], Max(s)>>]
    <3>1. Max(s) \in 1..n
      BY <1>6, <2>2
    <3>2. it[s] = AddPiece(in, cut, it[s \ {Max(s)}], pieces[Max(s)])
      BY <1>9, <2>2
    <3>3. step[<<it[s \ {Max(s)}], Max(s)>>] = AddPiece(in, cut, it[s \ {Max(s)}], pieces[Max(s)])
      BY <1>2, <2>2, <3>1
    <3> QED
      BY <3>2, <3>3
  <2> QED
    BY <1>9, <2>1, <2>2 DEF SolvesFold
<1>11. PICK F : FoldsUp(F, it, n, X, [chunks |-> <<>>, current |-> <<>>], step)
  BY <1>1, <1>3, <1>10, FoldCourse
<1>12. ASSUME NEW k \in 1..n
       PROVE  F[k] \in X /\ F[k - 1] \in X /\ F[k] = AddPiece(in, cut, F[k - 1], pieces[k])
  <2>1. F[k] = step[<<F[k - 1], k>>] /\ F[k - 1] \in X /\ F[k] \in X
    BY <1>11 DEF FoldsUp
  <2>2. F[k] = AddPiece(in, cut, F[k - 1], pieces[k])
    BY <1>2, <2>1
  <2> QED
    BY <2>1, <2>2
<1>13. F[0] = [chunks |-> <<>>, current |-> <<>>] /\ F[n] = it[1..n] /\ F[n] \in X
  <2>1. n \in 0..n
    BY <1>1
  <2> QED
    BY <1>11, <2>1 DEF FoldsUp
<1> QED
  BY <1>4, <1>12, <1>13 DEF GatherCourse, n, X

\* The cutting of a part after the separators, and its course.
RuneCourse(F, in, part, seps) ==
  /\ F[0] = <<>> /\ F[Len(part)] \in Seq(Parts(in))
  /\ \A k \in 1..Len(part) : /\ F[k] \in Seq(Parts(in)) /\ F[k - 1] \in Seq(Parts(in))
                             /\ F[k] = NextRune(in, seps, F[k - 1], part[k])

LEMMA RuneFold ==
  ASSUME NEW in, Splittable(in), NEW part \in Seq(Positions(in)), NEW seps
  PROVE  \E F : RuneCourse(F, in, part, seps) /\ splitKeepSeparator(in, part, seps) = F[Len(part)]
<1> DEFINE n == Len(part)
           X == Seq(Parts(in))
           step == [p \in X \X (1..n) |-> NextRune(in, seps, p[1], part[p[2]])]
           Folds(it) == it = [s \in SUBSET (DOMAIN part) |->
                                IF s = {} THEN <<>> ELSE NextRune(in, seps, it[s \ {Max(s)}], part[Max(s)])]
           it == CHOOSE it : Folds(it)
<1>1. n \in Nat /\ DOMAIN part = 1..n /\ <<>> \in X
  BY LenProperties
<1>2. ASSUME NEW p \in X, NEW k \in 1..n
      PROVE  <<p, k>> \in X \X (1..n) /\ step[<<p, k>>] = NextRune(in, seps, p, part[k])
             /\ NextRune(in, seps, p, part[k]) \in X
  <2>1. NextRune(in, seps, p, part[k]) \in X
    BY <1>1, ElementOfSeq, NextRuneTyped
  <2>2. <<p, k>> \in X \X (1..n) /\ <<p, k>>[1] = p /\ <<p, k>>[2] = k
    OBVIOUS
  <2> HIDE DEF X, n
  <2> QED
    BY <2>1, <2>2
<1>3. step \in [X \X (1..n) -> X]
  <2>1. ASSUME NEW p \in X \X (1..n)
        PROVE  NextRune(in, seps, p[1], part[p[2]]) \in X
    <3>1. p[1] \in X /\ p[2] \in 1..n
      OBVIOUS
    <3> HIDE DEF X
    <3> QED
      BY <1>2, <3>1
  <2> QED
    BY <2>1
<1>4. splitKeepSeparator(in, part, seps) = it[1..n]
  <2>1. splitKeepSeparator(in, part, seps) = it[DOMAIN part]
    BY DEF splitKeepSeparator, FoldLeft, MapThenFoldSet
  <2> HIDE DEF it
  <2> QED
    BY <1>1, <2>1
<1> HIDE DEF step, n, X
<1>5. PICK g : FoldsSets(g, n, X, <<>>, step)
  BY <1>1, <1>3, FoldRecursion
<1>6. ASSUME NEW s \in SUBSET (1..n), s # {}
      PROVE  Max(s) \in 1..n /\ s \ {Max(s)} \in SUBSET (1..n)
  <2>1. s \subseteq Nat /\ \A m \in s : m <= n
    BY <1>1
  <2>2. Max(s) \in s
    BY <1>1, <1>6, <2>1, NatMax
  <2> QED
    BY <2>2
<1>7. Folds(g)
  <2>1. ASSUME NEW s \in SUBSET (1..n)
        PROVE  g[s] = IF s = {} THEN <<>> ELSE NextRune(in, seps, g[s \ {Max(s)}], part[Max(s)])
    <3>1. CASE s = {}
      BY <1>5, <3>1 DEF FoldsSets
    <3>2. CASE s # {}
      <4>1. Max(s) \in 1..n /\ g[s \ {Max(s)}] \in X
        BY <1>5, <1>6, <3>2 DEF FoldsSets
      <4>2. g[s] = step[<<g[s \ {Max(s)}], Max(s)>>]
        BY <1>5, <3>2 DEF FoldsSets
      <4>3. step[<<g[s \ {Max(s)}], Max(s)>>] = NextRune(in, seps, g[s \ {Max(s)}], part[Max(s)])
        BY <1>2, <4>1
      <4> QED
        BY <3>2, <4>2, <4>3
    <3> QED
      BY <3>1, <3>2
  <2>2. g \in [SUBSET (1..n) -> X]
    BY <1>5 DEF FoldsSets
  <2> QED
    BY <1>1, <2>1, <2>2
<1>8. Folds(it)
  <2> HIDE DEF Folds
  <2> QED
    BY <1>7
<1>9. \A s \in SUBSET (1..n) :
         it[s] = IF s = {} THEN <<>> ELSE NextRune(in, seps, it[s \ {Max(s)}], part[Max(s)])
  <2> HIDE DEF it
  <2> QED
    BY <1>1, <1>8
<1> HIDE DEF it, Folds
<1>10. SolvesFold(it, n, X, <<>>, step)
  <2>1. {} \in SUBSET (1..n)
    OBVIOUS
  <2>2. ASSUME NEW s \in SUBSET (1..n), s # {}, it[s \ {Max(s)}] \in X
        PROVE  it[s] = step[<<it[s \ {Max(s)}], Max(s)>>]
    <3>1. Max(s) \in 1..n
      BY <1>6, <2>2
    <3>2. it[s] = NextRune(in, seps, it[s \ {Max(s)}], part[Max(s)])
      BY <1>9, <2>2
    <3>3. step[<<it[s \ {Max(s)}], Max(s)>>] = NextRune(in, seps, it[s \ {Max(s)}], part[Max(s)])
      BY <1>2, <2>2, <3>1
    <3> QED
      BY <3>2, <3>3
  <2> QED
    BY <1>9, <2>1, <2>2 DEF SolvesFold
<1>11. PICK F : FoldsUp(F, it, n, X, <<>>, step)
  BY <1>1, <1>3, <1>10, FoldCourse
<1>12. ASSUME NEW k \in 1..n
       PROVE  F[k] \in X /\ F[k - 1] \in X /\ F[k] = NextRune(in, seps, F[k - 1], part[k])
  <2>1. F[k] = step[<<F[k - 1], k>>] /\ F[k - 1] \in X /\ F[k] \in X
    BY <1>11 DEF FoldsUp
  <2>2. F[k] = NextRune(in, seps, F[k - 1], part[k])
    BY <1>2, <2>1
  <2> QED
    BY <2>1, <2>2
<1>13. F[0] = <<>> /\ F[n] = it[1..n] /\ F[n] \in X
  <2>1. n \in 0..n
    BY <1>1
  <2> QED
    BY <1>11, <2>1 DEF FoldsUp
<1> QED
  BY <1>4, <1>12, <1>13 DEF RuneCourse, n, X

\* What the pieces of a part are.
PiecesOf(in, q, whole, ps) ==
  /\ ps \in Seq(Parts(in))
  /\ \A i \in 1..Len(ps) : Rising(ps[i], Less) /\ (whole => Len(ps[i]) <= in.target)
  /\ \A i, j \in 1..Len(ps) : i < j => \A a \in ToSet(ps[i]), b \in ToSet(ps[j]) : a < b
  /\ \A x : x \in ToSet(q) <=> \E i \in 1..Len(ps) : x \in ToSet(ps[i])

\* Gathering pieces gives the chunks of their part.
LEMMA GatherCuts ==
  ASSUME NEW in, Splittable(in), NEW whole, NEW cut, Cuts(in, cut, whole),
         NEW q \in Parts(in), Gapless(in, ToSet(q)), NEW ps, PiecesOf(in, q, whole, ps)
  PROVE  /\ ChunksOf(in, ToSet(q), GatherPieces(in, cut, ps))
         /\ Complete(in, ToSet(q), GatherPieces(in, cut, ps))
<1> DEFINE n == Len(ps)
           C(k) == {x \in ToSet(q) : \E i \in 1..k : x \in ToSet(ps[i])}
<1>1. /\ n \in Nat /\ ps \in Seq(Parts(in)) /\ cut \in [Parts(in) -> Seq(Parts(in))]
      /\ ToSet(q) \subseteq Positions(in) /\ Positions(in) \subseteq Nat /\ Parts(in) = Seq(Positions(in))
  BY SplitInputIs, LenProperties DEF PiecesOf, Cuts, Gapless
<1>2. PICK F : GatherCourse(F, in, cut, ps) /\ PiecesGathered(in, cut, ps) = F[n]
  BY <1>1, GatherFold
<1>3. ASSUME NEW k \in 0..n
      PROVE  Gapless(in, C(k))
  <2>1. ASSUME NEW a \in C(k), NEW b \in C(k), NEW p \in Positions(in), Solid(in, p), a <= p, p <= b
        PROVE  p \in C(k)
    <3>1. p \in ToSet(q)
      BY <2>1 DEF Gapless
    <3>2. PICK j \in 1..n : p \in ToSet(ps[j])
      BY <3>1 DEF PiecesOf
    <3>3. PICK i \in 1..k : b \in ToSet(ps[i])
      BY <2>1
    <3>4. i \in 1..n
      BY <1>1, <3>3
    <3>5. i < j => b < p
      BY <3>2, <3>3, <3>4 DEF PiecesOf
    <3>6. b \in Nat /\ p \in Nat
      BY <1>1, <2>1
    <3>7. j <= i
      BY <1>1, <2>1, <3>5, <3>6
    <3>8. j \in 1..k
      BY <1>1, <3>7
    <3> QED
      BY <3>1, <3>2, <3>8
  <2> QED
    BY <1>1, <2>1 DEF Gapless
<1>4. ASSUME NEW k \in 1..n
      PROVE  /\ C(k) = C(k - 1) \cup ToSet(ps[k])
             /\ NextPiece(in, C(k - 1), whole, ps[k])
  <2>1. /\ ps[k] \in Parts(in) /\ Rising(ps[k], Less) /\ (whole => Len(ps[k]) <= in.target)
        /\ ToSet(ps[k]) \subseteq ToSet(q)
    BY <1>1, ElementOfSeq DEF PiecesOf
  <2>2. \A i : i \in 1..k <=> i \in 1..(k - 1) \/ i = k
    BY <1>1
  <2>3. \A i \in 1..(k - 1) : i \in 1..n /\ i < k
    BY <1>1
  <2>4. ASSUME NEW c \in C(k - 1), NEW p \in ToSet(ps[k])
        PROVE  c < p
    <3>1. PICK i \in 1..(k - 1) : c \in ToSet(ps[i])
      OBVIOUS
    <3> QED
      BY <2>3, <2>4, <3>1 DEF PiecesOf
  <2>5. C(k) = C(k - 1) \cup ToSet(ps[k])
    BY <2>1, <2>2
  <2> HIDE DEF C, n
  <2> QED
    BY <2>1, <2>4, <2>5 DEF NextPiece
<1>5. C(0) = {} /\ C(n) = ToSet(q)
  <2>1. C(0) = {}
    OBVIOUS
  <2>2. C(n) = ToSet(q)
    BY DEF PiecesOf
  <2> QED
    BY <2>1, <2>2
<1> HIDE DEF C
<1>6. GatheredTo(in, {}, whole, F[0])
  <2>1. F[0] = [chunks |-> <<>>, current |-> <<>>]
    BY <1>2 DEF GatherCourse
  <2>2. F[0].chunks = <<>> /\ F[0].current = <<>> /\ F[0] \in Gathering(in)
    BY <2>1, GatherStart
  <2>3. <<>> \in Seq(Parts(in)) /\ Len(<<>>) = 0 /\ ToSet(<<>>) = {} /\ Rising(<<>>, Less)
    BY DEF ToSet, Rising
  <2>4. ChunksOf(in, {}, <<>>)
    <3>1. 1..0 = {} /\ 1..(0 - 1) = {}
      OBVIOUS
    <3> QED
      BY <2>3, <3>1 DEF ChunksOf, AddsAfter
  <2>5. 0 <= in.target + in.overlap
    BY SplitInputIs
  <2>6. Final(in, {}, <<>>)
    BY DEF Final
  <2> QED
    BY <2>2, <2>3, <2>4, <2>5, <2>6 DEF GatheredTo
<1> DEFINE G == {k \in 0..n : GatheredTo(in, C(k), whole, F[k])}
<1>7. 0 \in G
  <2>1. 0 \in 0..n
    BY <1>1
  <2> QED
    BY <1>5, <1>6, <2>1
<1>8. ASSUME NEW k \in 0..(n - 1), k \in G
      PROVE  k + 1 \in G
  <2> DEFINE m == k + 1
  <2>1. m \in 1..n /\ m \in 0..n /\ m - 1 = k /\ k \in 0..n
    BY <1>1
  <2> HIDE DEF m
  <2>2. GatheredTo(in, C(m - 1), whole, F[m - 1]) /\ Gapless(in, C(m - 1))
    BY <1>3, <1>8, <2>1
  <2>3. C(m) = C(m - 1) \cup ToSet(ps[m]) /\ NextPiece(in, C(m - 1), whole, ps[m])
    BY <1>4, <2>1
  <2>4. F[m] = AddPiece(in, cut, F[m - 1], ps[m])
    BY <1>2, <2>1 DEF GatherCourse
  <2> DEFINE D == C(m - 1)
             f == F[m - 1]
             p == ps[m]
  <2>5. GatheredTo(in, D, whole, f) /\ Gapless(in, D) /\ NextPiece(in, D, whole, p)
    BY <2>2, <2>3
  <2> HIDE DEF D, f, p
  <2>6. GatheredTo(in, D \cup ToSet(p), whole, AddPiece(in, cut, f, p))
    BY <2>5, PieceAdded
  <2>7. GatheredTo(in, C(m), whole, F[m])
    BY <2>3, <2>4, <2>6 DEF D, f, p
  <2> QED
    BY <2>1, <2>7 DEF m
<1>9. n \in G
  <2>1. 0..n \subseteq G
    <3> HIDE DEF G
    <3> QED
      BY <1>1, <1>7, <1>8, CountingUp
  <2>2. n \in 0..n
    BY <1>1
  <2> HIDE DEF G, n
  <2> QED
    BY <2>1, <2>2
<1>10. GatheredTo(in, ToSet(q), whole, F[n])
  BY <1>5, <1>9
<1> DEFINE s == PiecesGathered(in, cut, ps)
<1>11. GatherPieces(in, cut, ps) = FlushPart(in, cut, s.chunks, s.current)
  BY DEF GatherPieces, PiecesGathered
<1>12. GatheredTo(in, ToSet(q), whole, s)
  BY <1>2, <1>10
<1> HIDE DEF s, G, n
<1> QED
  BY <1>11, <1>12, FlushCuts

LEMMA GatherTyped ==
  ASSUME NEW in, Splittable(in), NEW cut \in [Parts(in) -> Seq(Parts(in))], NEW ps \in Seq(Parts(in))
  PROVE  GatherPieces(in, cut, ps) \in Seq(Parts(in))
<1> DEFINE s == PiecesGathered(in, cut, ps)
<1>1. PICK F : GatherCourse(F, in, cut, ps) /\ s = F[Len(ps)]
  BY GatherFold
<1>2. GatherPieces(in, cut, ps) = FlushPart(in, cut, s.chunks, s.current)
  BY DEF GatherPieces, PiecesGathered
<1> HIDE DEF s
<1>3. s.chunks \in Seq(Parts(in)) /\ s.current \in Parts(in)
  BY <1>1 DEF GatherCourse, Gathering
<1> QED
  BY <1>2, <1>3, FlushPartTyped

LEMMA WholeCuts ==
  ASSUME NEW in, Splittable(in)
  PROVE  Cuts(in, Whole(in), TRUE)
<1>1. \A q \in Parts(in) : Whole(in)[q] = <<q>> /\ <<q>> \in Seq(Parts(in))
  BY DEF Whole
<1>2. Whole(in) \in [Parts(in) -> Seq(Parts(in))]
  BY <1>1 DEF Whole
<1>3. ASSUME NEW q \in Parts(in), Rising(q, Less), Gapless(in, ToSet(q)), q # <<>>,
             Len(q) <= in.target + in.overlap
      PROVE  ChunksOf(in, ToSet(q), Whole(in)[q]) /\ Complete(in, ToSet(q), Whole(in)[q])
  <2>1. ChunksOf(in, ToSet(q), <<q>>) /\ Complete(in, ToSet(q), <<q>>)
    BY <1>3, OneChunk
  <2>2. Whole(in)[q] = <<q>>
    BY <1>1
  <2> QED
    BY <2>1, <2>2
<1> QED
  BY <1>2, <1>3 DEF Cuts

\* Pieces of the target's length.
LEMMA HardPieces ==
  ASSUME NEW in, Splittable(in), NEW q \in Parts(in), NEW ps, ps = hardSplit(q, in.target)
  PROVE  ps \in Seq(Parts(in)) /\ (Rising(q, Less) => PiecesOf(in, q, TRUE, ps))
<1> DEFINE len == Len(q)
           t == in.target
           N == (len + t - 1) \div t
           A(n) == (n - 1) * t + 1
           B(n) == Min({n * t, len})
           piece(n) == SubSeq(q, A(n), B(n))
<1>1. len \in Nat /\ t \in Nat \ {0} /\ Parts(in) = Seq(Positions(in)) /\ q \in Seq(Positions(in))
  BY SplitInputIs, LenProperties
<1>2. ps = [n \in 1..N |-> piece(n)]
  BY DEF hardSplit
<1> HIDE DEF len, t
<1>3. /\ N \in Nat
      /\ \A n \in 1..N : A(n) \in 1..len /\ B(n) \in 1..len /\ A(n) <= B(n) /\ B(n) - A(n) + 1 <= t
      /\ \A m, n \in 1..N : m < n => B(m) < A(n)
      /\ \A i \in 1..len : \E n \in 1..N : A(n) <= i /\ i <= B(n)
  BY <1>1, Blocks
<1> HIDE DEF N, A, B
<1>4. ASSUME NEW n \in 1..N
      PROVE  /\ piece(n) \in Parts(in) /\ Len(piece(n)) = B(n) - A(n) + 1
             /\ \A i \in 1..Len(piece(n)) : A(n) + i - 1 \in 1..len /\ piece(n)[i] = q[A(n) + i - 1]
             /\ \A x : x \in ToSet(piece(n)) <=> \E i \in A(n)..B(n) : q[i] = x
  <2> DEFINE a == A(n)
             b == B(n)
  <2>1. a \in 1..len /\ b \in 1..len /\ a <= b
    BY <1>3
  <2> HIDE DEF a, b
  <2>2. a \in 1..Len(q) /\ b \in 0..Len(q) /\ a <= b + 1
    BY <1>1, <2>1 DEF len
  <2>3. /\ SubSeq(q, a, b) \in Parts(in) /\ Len(SubSeq(q, a, b)) = b - a + 1
        /\ \A i \in 1..(b - a + 1) : SubSeq(q, a, b)[i] = q[a + i - 1]
        /\ \A x : x \in ToSet(SubSeq(q, a, b)) <=> \E i \in a..b : q[i] = x
    BY <1>1, <2>2, PartOf
  <2>4. \A i \in 1..(b - a + 1) : a + i - 1 \in 1..len
    BY <1>1, <2>1
  <2> QED
    BY <2>3, <2>4 DEF a, b
<1>5. ps \in Seq(Parts(in)) /\ Len(ps) = N /\ \A n \in 1..N : ps[n] = piece(n)
  <2>1. ps \in [1..N -> Parts(in)] /\ \A n \in 1..N : ps[n] = piece(n)
    BY <1>2, <1>4
  <2> HIDE DEF piece
  <2> QED
    BY <1>3, <2>1, ListOf
<1> HIDE DEF piece
<1>6. ASSUME NEW n \in 1..N
      PROVE  Len(ps[n]) <= t
  <2>1. ps[n] = piece(n)
    BY <1>5
  <2>2. Len(piece(n)) = B(n) - A(n) + 1
    BY <1>4
  <2>3. B(n) - A(n) + 1 <= t
    BY <1>3
  <2> QED
    BY <2>1, <2>2, <2>3
<1>7. ASSUME Rising(q, Less), NEW n \in 1..N
      PROVE  Rising(ps[n], Less)
  <2> DEFINE p == piece(n)
             a == A(n)
  <2>1. p = ps[n] /\ a \in 1..len
    BY <1>3, <1>5
  <2>2. p \in Parts(in) /\ \A i \in 1..Len(p) : a + i - 1 \in 1..len /\ p[i] = q[a + i - 1]
    BY <1>4
  <2> HIDE DEF p, a
  <2>3. Len(p) \in Nat
    BY <1>1, <2>2, LenProperties
  <2>4. ASSUME NEW i \in 1..Len(p), NEW j \in 1..Len(p), i < j
        PROVE  <<p[i], p[j]>> \in Less
    <3> DEFINE u == a + i - 1
               v == a + j - 1
    <3>1. u \in 1..len /\ v \in 1..len /\ p[i] = q[u] /\ p[j] = q[v]
      BY <2>2
    <3>2. u < v
      BY <1>1, <2>1, <2>3, <2>4
    <3> HIDE DEF u, v
    <3> QED
      BY <1>7, <3>1, <3>2 DEF Rising, len
  <2> QED
    BY <2>1, <2>4 DEF Rising
<1>8. ASSUME Rising(q, Less), NEW m \in 1..N, NEW n \in 1..N, m < n,
             NEW a \in ToSet(ps[m]), NEW b \in ToSet(ps[n])
      PROVE  a < b
  <2>1. PICK i \in A(m)..B(m) : q[i] = a
    BY <1>4, <1>5
  <2>2. PICK j \in A(n)..B(n) : q[j] = b
    BY <1>4, <1>5
  <2>3. A(m) \in 1..len /\ B(m) \in 1..len /\ A(n) \in 1..len /\ B(n) \in 1..len /\ B(m) < A(n)
    BY <1>3, <1>8
  <2>4. i \in 1..len /\ j \in 1..len /\ i < j
    BY <1>1, <2>1, <2>2, <2>3
  <2> QED
    BY <1>1, <1>8, <2>1, <2>2, <2>4, RisingPlaces DEF len
<1>9. ASSUME NEW x
      PROVE  x \in ToSet(q) <=> \E n \in 1..N : x \in ToSet(ps[n])
  <2>1. x \in ToSet(q) <=> \E i \in 1..len : q[i] = x
    BY <1>1, ToSetOf DEF len
  <2>2. ASSUME NEW i \in 1..len, q[i] = x
        PROVE  \E n \in 1..N : x \in ToSet(ps[n])
    <3>1. PICK n \in 1..N : A(n) <= i /\ i <= B(n)
      BY <1>3
    <3>2. i \in A(n)..B(n)
      BY <1>1, <1>3, <3>1
    <3> QED
      BY <1>4, <1>5, <2>2, <3>2
  <2>3. ASSUME NEW n \in 1..N, x \in ToSet(ps[n])
        PROVE  \E i \in 1..len : q[i] = x
    <3>1. PICK i \in A(n)..B(n) : q[i] = x
      BY <1>4, <1>5, <2>3
    <3>2. A(n) \in 1..len /\ B(n) \in 1..len
      BY <1>3
    <3>3. i \in 1..len
      BY <1>1, <3>1, <3>2
    <3> QED
      BY <3>1, <3>3
  <2> QED
    BY <2>1, <2>2, <2>3
<1> QED
  BY <1>5, <1>6, <1>7, <1>8, <1>9 DEF PiecesOf, t

LEMMA HardCuts ==
  ASSUME NEW in, Splittable(in)
  PROVE  Cuts(in, splitHard(in), FALSE)
<1>1. ASSUME NEW q \in Parts(in)
      PROVE  /\ splitHard(in)[q] = GatherPieces(in, Whole(in), hardSplit(q, in.target))
             /\ GatherPieces(in, Whole(in), hardSplit(q, in.target)) \in Seq(Parts(in))
  <2>1. hardSplit(q, in.target) \in Seq(Parts(in))
    BY HardPieces
  <2>2. Whole(in) \in [Parts(in) -> Seq(Parts(in))]
    BY WholeCuts DEF Cuts
  <2> QED
    BY <2>1, <2>2, GatherTyped DEF splitHard
<1>2. splitHard(in) \in [Parts(in) -> Seq(Parts(in))]
  BY <1>1 DEF splitHard
<1>3. ASSUME NEW q \in Parts(in), Rising(q, Less), Gapless(in, ToSet(q))
      PROVE  ChunksOf(in, ToSet(q), splitHard(in)[q]) /\ Complete(in, ToSet(q), splitHard(in)[q])
  <2> DEFINE ps == hardSplit(q, in.target)
  <2>1. PiecesOf(in, q, TRUE, ps)
    BY <1>3, HardPieces
  <2> HIDE DEF ps
  <2>2. /\ ChunksOf(in, ToSet(q), GatherPieces(in, Whole(in), ps))
        /\ Complete(in, ToSet(q), GatherPieces(in, Whole(in), ps))
    BY <1>3, <2>1, WholeCuts, GatherCuts
  <2> QED
    BY <1>1, <2>2 DEF ps
<1> QED
  BY <1>2, <1>3 DEF Cuts

\* Pieces in the order of the text.
Ordered(ps) ==
  /\ \A i \in 1..Len(ps) : Rising(ps[i], Less)
  /\ \A i, j \in 1..Len(ps) : i < j => \A a \in ToSet(ps[i]), b \in ToSet(ps[j]) : a < b

LEMMA RuneKept ==
  ASSUME NEW in, Splittable(in), NEW seps, NEW ps \in Seq(Parts(in)), Ordered(ps),
         NEW p \in Positions(in), \A x : Has(ps, x) => x < p
  PROVE  /\ Ordered(NextRune(in, seps, ps, p))
         /\ \A x : Has(NextRune(in, seps, ps, p), x) <=> Has(ps, x) \/ x = p
<1> DEFINE k == Len(ps)
<1>1. /\ k \in Nat /\ Parts(in) = Seq(Positions(in)) /\ Positions(in) \subseteq Nat
  BY SplitInputIs, LenProperties
<1>2. /\ <<p>> \in Parts(in) /\ Rising(<<p>>, Less) /\ \A x : x \in ToSet(<<p>>) <=> x = p
  <2>1. <<p>> \in Seq(Positions(in)) /\ Len(<<p>>) = 1 /\ <<p>>[1] = p
    OBVIOUS
  <2>2. \A i, j \in 1..1 : ~(i < j)
    OBVIOUS
  <2>3. Rising(<<p>>, Less)
    BY <2>1, <2>2 DEF Rising
  <2>4. \A x : x \in ToSet(<<p>>) <=> \E i \in 1..Len(<<p>>) : <<p>>[i] = x
    BY <2>1, ToSetOf
  <2>5. \A i : i \in 1..Len(<<p>>) <=> i = 1
    OBVIOUS
  <2>6. \A x : x \in ToSet(<<p>>) <=> x = p
    BY <2>1, <2>4, <2>5
  <2> QED
    BY <1>1, <2>1, <2>3, <2>6
<1>3. \A i \in 1..k : \A x \in ToSet(ps[i]) : x < p
  BY DEF Has
<1>4. CASE NextRune(in, seps, ps, p) = Append(ps, <<p>>)
  <2> DEFINE q == <<p>>
             r == Append(ps, q)
  <2> HIDE DEF q
  <2>1. q \in Parts(in) /\ Rising(q, Less) /\ \A x : x \in ToSet(q) <=> x = p
    BY <1>2 DEF q
  <2>2. /\ r \in Seq(Parts(in)) /\ Len(r) = k + 1 /\ r[k + 1] = q
        /\ \A i \in 1..k : r[i] = ps[i]
    BY <2>1, AppendProperties
  <2> HIDE DEF r, k
  <2>3. \A i \in 1..Len(r) : i \in 1..k \/ i = k + 1
    BY <1>1, <2>2
  <2>4. \A i \in 1..k : i \in 1..Len(r) /\ i # k + 1
    BY <1>1, <2>2
  <2>5. k + 1 \in 1..Len(r) /\ \A i \in 1..k : ~(k + 1 < i)
    BY <1>1, <2>2
  <2>6. \A i \in 1..Len(r) : Rising(r[i], Less)
    BY <2>1, <2>2, <2>3 DEF Ordered, k
  <2>7. ASSUME NEW i \in 1..Len(r), NEW j \in 1..Len(r), i < j, NEW a \in ToSet(r[i]), NEW b \in ToSet(r[j])
        PROVE  a < b
    <3>1. i \in 1..k
      BY <1>1, <2>2, <2>7
    <3>2. CASE j \in 1..k
      BY <2>2, <2>7, <3>1, <3>2 DEF Ordered, k
    <3>3. CASE j = k + 1
      BY <1>3, <2>1, <2>2, <2>7, <3>1, <3>3
    <3> QED
      BY <2>3, <3>2, <3>3
  <2>8. ASSUME NEW x
        PROVE  Has(r, x) <=> Has(ps, x) \/ x = p
    <3>1. Has(ps, x) => Has(r, x)
      BY <2>2, <2>4 DEF Has, k
    <3>2. x = p => Has(r, x)
      BY <2>1, <2>2, <2>5 DEF Has
    <3>3. Has(r, x) => Has(ps, x) \/ x = p
      BY <2>1, <2>2, <2>3 DEF Has, k
    <3> QED
      BY <3>1, <3>2, <3>3
  <2> QED
    BY <1>4, <2>6, <2>7, <2>8 DEF Ordered, r, q
<1>5. CASE ps # <<>> /\ NextRune(in, seps, ps, p) = [ps EXCEPT ![Len(ps)] = Append(@, p)]
  <2> DEFINE l == ps[k]
             v == Append(l, p)
             r == [ps EXCEPT ![k] = v]
  <2>1. k \in 1..k
    <3>1. k # 0
      BY <1>5, EmptySeq
    <3> QED
      BY <1>1, <3>1
  <2>2. l \in Parts(in) /\ Rising(l, Less)
    BY <2>1, ElementOfSeq DEF Ordered
  <2> HIDE DEF l
  <2>3. v = l \o <<p>> /\ v \in Parts(in)
    BY <1>1, <2>2, AppendIsConcat, AppendProperties
  <2>4. \A x : x \in ToSet(v) <=> x \in ToSet(l) \/ x = p
    BY <1>1, <1>2, <2>2, <2>3, ConcatSet
  <2>5. Rising(v, Less)
    <3>1. \A a \in ToSet(l), b \in ToSet(<<p>>) : <<a, b>> \in Less
      <4>1. ToSet(l) \subseteq Positions(in)
        <5>1. l \in Seq(Positions(in))
          BY <1>1, <2>2
        <5> QED
          BY <5>1, ToSetOf, ElementOfSeq
      <4>2. \A a \in ToSet(l) : a < p
        BY <1>3, <2>1 DEF l
      <4>3. p \in Nat /\ \A a \in ToSet(l) : a \in Nat
        BY <1>1, <4>1
      <4> QED
        BY <1>2, <4>2, <4>3 DEF Less
    <3> QED
      BY <1>1, <1>2, <2>2, <2>3, <3>1, ConcatRises
  <2>6. NextRune(in, seps, ps, p) = r
    BY <1>5 DEF l
  <2> HIDE DEF v, k
  <2>7. Len(r) = k /\ \A i \in 1..k : r[i] = IF i = k THEN v ELSE ps[i]
    BY <2>1, <2>3, ListExcept DEF k
  <2> HIDE DEF r
  <2>8. \A i \in 1..k : Rising(r[i], Less)
    BY <2>5, <2>7 DEF Ordered, k
  <2>9. ASSUME NEW i \in 1..k, NEW j \in 1..k, i < j, NEW a \in ToSet(r[i]), NEW b \in ToSet(r[j])
        PROVE  a < b
    <3>1. i # k /\ r[i] = ps[i]
      BY <1>1, <2>7, <2>9
    <3>2. CASE j = k /\ b = p
      BY <1>3, <2>9, <3>1, <3>2
    <3>3. CASE j = k /\ b \in ToSet(l)
      <4>1. b \in ToSet(ps[j])
        BY <3>3 DEF l
      <4> QED
        BY <2>9, <3>1, <4>1 DEF Ordered, k
    <3>4. CASE j # k
      BY <2>7, <2>9, <3>1, <3>4 DEF Ordered, k
    <3>5. j = k => r[j] = v
      BY <2>7
    <3> QED
      BY <2>4, <2>9, <3>2, <3>3, <3>4, <3>5
  <2>10. ASSUME NEW x
         PROVE  Has(r, x) <=> Has(ps, x) \/ x = p
    <3>1. x = p => Has(r, x)
      BY <2>1, <2>4, <2>7 DEF Has
    <3>2. ASSUME NEW i \in 1..k, x \in ToSet(ps[i])
          PROVE  x \in ToSet(r[i])
      BY <2>4, <2>7, <3>2 DEF l
    <3>3. ASSUME NEW i \in 1..k, x \in ToSet(r[i])
          PROVE  x \in ToSet(ps[i]) \/ x = p
      BY <2>4, <2>7, <3>3 DEF l
    <3> QED
      BY <2>7, <3>1, <3>2, <3>3 DEF Has, k
  <2> QED
    BY <2>6, <2>7, <2>8, <2>9, <2>10 DEF Ordered
<1> QED
  BY <1>4, <1>5 DEF NextRune

\* Pieces that end at a separator.
LEMMA SeparatorPieces ==
  ASSUME NEW in, Splittable(in), NEW q \in Parts(in), NEW seps, NEW ps, ps = splitKeepSeparator(in, q, seps)
  PROVE  ps \in Seq(Parts(in)) /\ (Rising(q, Less) => PiecesOf(in, q, FALSE, ps))
<1> DEFINE n == Len(q)
           Read(k, x) == \E i \in 1..k : q[i] = x
<1>1. n \in Nat /\ Parts(in) = Seq(Positions(in)) /\ Positions(in) \subseteq Nat /\ q \in Seq(Positions(in))
  BY SplitInputIs, LenProperties
<1>2. PICK F : RuneCourse(F, in, q, seps) /\ ps = F[n]
  BY <1>1, RuneFold
<1>3. ps \in Seq(Parts(in))
  BY <1>2 DEF RuneCourse
<1>4. ASSUME Rising(q, Less)
      PROVE  PiecesOf(in, q, FALSE, ps)
  <2> DEFINE G == {k \in 0..n : Ordered(F[k]) /\ \A x : Has(F[k], x) <=> Read(k, x)}
  <2>1. 0 \in G
    <3>1. F[0] = <<>>
      BY <1>2 DEF RuneCourse
    <3>2. Len(F[0]) = 0 /\ 1..0 = {} /\ 0 \in 0..n
      BY <1>1, <3>1
    <3>3. Ordered(F[0])
      BY <3>2 DEF Ordered
    <3>4. \A x : ~Has(F[0], x) /\ ~Read(0, x)
      BY <3>2 DEF Has
    <3> QED
      BY <3>2, <3>3, <3>4
  <2>2. ASSUME NEW k \in 0..(n - 1), k \in G
        PROVE  k + 1 \in G
    <3> DEFINE m == k + 1
               ts == F[m - 1]
               p == q[m]
    <3>1. m \in 1..n /\ m \in 0..n /\ m - 1 = k /\ \A i : i \in 1..m <=> i \in 1..k \/ i = m
      BY <1>1
    <3> HIDE DEF m
    <3>2. Ordered(ts) /\ \A x : Has(ts, x) <=> Read(k, x)
      BY <2>2, <3>1
    <3>3. ts \in Seq(Parts(in)) /\ F[m] = NextRune(in, seps, ts, p)
      BY <1>2, <3>1 DEF RuneCourse
    <3>4. p \in Positions(in)
      BY <1>1, <3>1, ElementOfSeq
    <3>5. \A x : Read(k, x) => x < p
      <4>1. ASSUME NEW i \in 1..k
            PROVE  q[i] < p
        <5>1. i \in 1..n /\ i < m
          BY <1>1, <3>1
        <5> QED
          BY <1>4, <3>1, <5>1, RisingPlaces DEF n
      <4> QED
        BY <4>1
    <3>6. \A x : Read(m, x) <=> Read(k, x) \/ x = p
      BY <3>1
    <3> HIDE DEF Read, ts, p
    <3>7. /\ Ordered(NextRune(in, seps, ts, p))
          /\ \A x : Has(NextRune(in, seps, ts, p), x) <=> Has(ts, x) \/ x = p
      BY <3>2, <3>3, <3>4, <3>5, RuneKept
    <3>8. Ordered(F[m]) /\ \A x : Has(F[m], x) <=> Read(m, x)
      BY <3>2, <3>3, <3>6, <3>7
    <3> QED
      BY <3>1, <3>8 DEF m
  <2>3. n \in G
    <3>1. 0..n \subseteq G
      <4> HIDE DEF G
      <4> QED
        BY <1>1, <2>1, <2>2, CountingUp
    <3>2. n \in 0..n
      BY <1>1
    <3> HIDE DEF G, n
    <3> QED
      BY <3>1, <3>2
  <2>4. Ordered(ps) /\ \A x : Has(ps, x) <=> Read(n, x)
    BY <1>2, <2>3
  <2>5. \A x : x \in ToSet(q) <=> Read(n, x)
    BY <1>1, ToSetOf
  <2> HIDE DEF Read, n
  <2> QED
    BY <1>3, <2>4, <2>5 DEF PiecesOf, Ordered, Has
<1> QED
  BY <1>3, <1>4

\* Cutting at one more separator.
LEMMA SplitAtTyped ==
  ASSUME NEW in, Splittable(in), NEW cut \in [Parts(in) -> Seq(Parts(in))], NEW sep
  PROVE  /\ SplitAt(in, cut, sep) \in [Parts(in) -> Seq(Parts(in))]
         /\ \A q \in Parts(in) :
              SplitAt(in, cut, sep)[q] = GatherPieces(in, cut, splitKeepSeparator(in, q, {sep}))
<1>1. \A q \in Parts(in) : GatherPieces(in, cut, splitKeepSeparator(in, q, {sep})) \in Seq(Parts(in))
  BY SeparatorPieces, GatherTyped
<1> QED
  BY <1>1 DEF SplitAt

LEMMA SplitAtCuts ==
  ASSUME NEW in, Splittable(in), NEW cut, Cuts(in, cut, FALSE), NEW sep
  PROVE  Cuts(in, SplitAt(in, cut, sep), FALSE)
<1> DEFINE c == SplitAt(in, cut, sep)
<1>1. cut \in [Parts(in) -> Seq(Parts(in))]
  BY DEF Cuts
<1>2. /\ c \in [Parts(in) -> Seq(Parts(in))]
      /\ \A q \in Parts(in) : c[q] = GatherPieces(in, cut, splitKeepSeparator(in, q, {sep}))
  BY <1>1, SplitAtTyped
<1> HIDE DEF c
<1>3. ASSUME NEW q \in Parts(in), Rising(q, Less), Gapless(in, ToSet(q))
      PROVE  ChunksOf(in, ToSet(q), c[q]) /\ Complete(in, ToSet(q), c[q])
  <2> DEFINE ps == splitKeepSeparator(in, q, {sep})
  <2>1. PiecesOf(in, q, FALSE, ps)
    BY <1>3, SeparatorPieces
  <2>2. c[q] = GatherPieces(in, cut, ps)
    BY <1>2
  <2> HIDE DEF ps
  <2>3. /\ ChunksOf(in, ToSet(q), GatherPieces(in, cut, ps))
        /\ Complete(in, ToSet(q), GatherPieces(in, cut, ps))
    BY <1>3, <2>1, GatherCuts
  <2> QED
    BY <2>2, <2>3
<1>4. Cuts(in, c, FALSE)
  BY <1>2, <1>3 DEF Cuts
<1> QED
  BY <1>4 DEF c

\* From the finest separator to the coarsest, and the course of it.
LEMMA ReversedIs ==
  Len(Reverse(Separators)) \in Nat /\ DOMAIN Reverse(Separators) = 1..Len(Reverse(Separators))
<1>1. Separators \in Seq(Runes) /\ Len(Separators) \in Nat
  BY SplitAssumption, LenProperties
<1>2. \A i \in 1..Len(Separators) : Len(Separators) - i + 1 \in 1..Len(Separators)
  BY <1>1
<1>3. \A i \in 1..Len(Separators) : Separators[(Len(Separators) - i) + 1] \in Runes
  BY <1>1, <1>2, ElementOfSeq
<1>4. Reverse(Separators) \in [1..Len(Separators) -> Runes]
  BY <1>3 DEF Reverse
<1>5. Reverse(Separators) \in Seq(Runes)
  BY <1>1, <1>4, ListOf
<1> QED
  BY <1>5, LenProperties

LEMMA HardTyped ==
  ASSUME NEW in, Splittable(in)
  PROVE  splitHard(in) \in [Parts(in) -> Seq(Parts(in))]
  BY HardCuts DEF Cuts

SeparatorCourse(F, in) ==
  /\ F[0] = splitHard(in)
  /\ F[Len(Reverse(Separators))] \in [Parts(in) -> Seq(Parts(in))]
  /\ \A k \in 1..Len(Reverse(Separators)) :
       /\ F[k] \in [Parts(in) -> Seq(Parts(in))] /\ F[k - 1] \in [Parts(in) -> Seq(Parts(in))]
       /\ F[k] = SplitAt(in, F[k - 1], Reverse(Separators)[k])

LEMMA SeparatorFold ==
  ASSUME NEW in, Splittable(in)
  PROVE  \E F : SeparatorCourse(F, in) /\ splitWithSeparators(in) = F[Len(Reverse(Separators))]
<1> DEFINE n == Len(Reverse(Separators))
           X == [Parts(in) -> Seq(Parts(in))]
           step == [p \in X \X (1..n) |-> SplitAt(in, p[1], Reverse(Separators)[p[2]])]
           Folds(it) == it = [s \in SUBSET (DOMAIN Reverse(Separators)) |->
                                IF s = {} THEN splitHard(in) ELSE SplitAt(in, it[s \ {Max(s)}], Reverse(Separators)[Max(s)])]
           it == CHOOSE it : Folds(it)
<1>1. n \in Nat /\ DOMAIN Reverse(Separators) = 1..n /\ splitHard(in) \in X
  BY ReversedIs, HardTyped
<1>2. ASSUME NEW p \in X, NEW k \in 1..n
      PROVE  <<p, k>> \in X \X (1..n) /\ step[<<p, k>>] = SplitAt(in, p, Reverse(Separators)[k])
             /\ SplitAt(in, p, Reverse(Separators)[k]) \in X
  <2>1. SplitAt(in, p, Reverse(Separators)[k]) \in X
    BY <1>1, SplitAtTyped
  <2>2. <<p, k>> \in X \X (1..n) /\ <<p, k>>[1] = p /\ <<p, k>>[2] = k
    OBVIOUS
  <2> HIDE DEF X, n
  <2> QED
    BY <2>1, <2>2
<1>3. step \in [X \X (1..n) -> X]
  <2>1. ASSUME NEW p \in X \X (1..n)
        PROVE  SplitAt(in, p[1], Reverse(Separators)[p[2]]) \in X
    <3>1. p[1] \in X /\ p[2] \in 1..n
      OBVIOUS
    <3> HIDE DEF X
    <3> QED
      BY <1>2, <3>1
  <2> QED
    BY <2>1
<1>4. splitWithSeparators(in) = it[1..n]
  <2>1. splitWithSeparators(in) = it[DOMAIN Reverse(Separators)]
    BY DEF splitWithSeparators, FoldLeft, MapThenFoldSet
  <2> HIDE DEF it
  <2> QED
    BY <1>1, <2>1
<1> HIDE DEF step, n, X
<1>5. PICK g : FoldsSets(g, n, X, splitHard(in), step)
  BY <1>1, <1>3, FoldRecursion
<1>6. ASSUME NEW s \in SUBSET (1..n), s # {}
      PROVE  Max(s) \in 1..n /\ s \ {Max(s)} \in SUBSET (1..n)
  <2>1. s \subseteq Nat /\ \A m \in s : m <= n
    BY <1>1
  <2>2. Max(s) \in s
    BY <1>1, <1>6, <2>1, NatMax
  <2> QED
    BY <2>2
<1>7. Folds(g)
  <2>1. ASSUME NEW s \in SUBSET (1..n)
        PROVE  g[s] = IF s = {} THEN splitHard(in) ELSE SplitAt(in, g[s \ {Max(s)}], Reverse(Separators)[Max(s)])
    <3>1. CASE s = {}
      BY <1>5, <3>1 DEF FoldsSets
    <3>2. CASE s # {}
      <4>1. Max(s) \in 1..n /\ g[s \ {Max(s)}] \in X
        BY <1>5, <1>6, <3>2 DEF FoldsSets
      <4>2. g[s] = step[<<g[s \ {Max(s)}], Max(s)>>]
        BY <1>5, <3>2 DEF FoldsSets
      <4>3. step[<<g[s \ {Max(s)}], Max(s)>>] = SplitAt(in, g[s \ {Max(s)}], Reverse(Separators)[Max(s)])
        BY <1>2, <4>1
      <4> QED
        BY <3>2, <4>2, <4>3
    <3> QED
      BY <3>1, <3>2
  <2>2. g \in [SUBSET (1..n) -> X]
    BY <1>5 DEF FoldsSets
  <2> QED
    BY <1>1, <2>1, <2>2
<1>8. Folds(it)
  <2> HIDE DEF Folds
  <2> QED
    BY <1>7
<1>9. \A s \in SUBSET (1..n) :
         it[s] = IF s = {} THEN splitHard(in) ELSE SplitAt(in, it[s \ {Max(s)}], Reverse(Separators)[Max(s)])
  <2> HIDE DEF it
  <2> QED
    BY <1>1, <1>8
<1> HIDE DEF it, Folds
<1>10. SolvesFold(it, n, X, splitHard(in), step)
  <2>1. {} \in SUBSET (1..n)
    OBVIOUS
  <2>2. ASSUME NEW s \in SUBSET (1..n), s # {}, it[s \ {Max(s)}] \in X
        PROVE  it[s] = step[<<it[s \ {Max(s)}], Max(s)>>]
    <3>1. Max(s) \in 1..n
      BY <1>6, <2>2
    <3>2. it[s] = SplitAt(in, it[s \ {Max(s)}], Reverse(Separators)[Max(s)])
      BY <1>9, <2>2
    <3>3. step[<<it[s \ {Max(s)}], Max(s)>>] = SplitAt(in, it[s \ {Max(s)}], Reverse(Separators)[Max(s)])
      BY <1>2, <2>2, <3>1
    <3> QED
      BY <3>2, <3>3
  <2> QED
    BY <1>9, <2>1, <2>2 DEF SolvesFold
<1>11. PICK F : FoldsUp(F, it, n, X, splitHard(in), step)
  BY <1>1, <1>3, <1>10, FoldCourse
<1>12. ASSUME NEW k \in 1..n
       PROVE  F[k] \in X /\ F[k - 1] \in X /\ F[k] = SplitAt(in, F[k - 1], Reverse(Separators)[k])
  <2>1. F[k] = step[<<F[k - 1], k>>] /\ F[k - 1] \in X /\ F[k] \in X
    BY <1>11 DEF FoldsUp
  <2>2. F[k] = SplitAt(in, F[k - 1], Reverse(Separators)[k])
    BY <1>2, <2>1
  <2> QED
    BY <2>1, <2>2
<1>13. F[0] = splitHard(in) /\ F[n] = it[1..n] /\ F[n] \in X
  <2>1. n \in 0..n
    BY <1>1
  <2> QED
    BY <1>11, <2>1 DEF FoldsUp
<1> QED
  BY <1>4, <1>12, <1>13 DEF SeparatorCourse, n, X

LEMMA SeparatorsCut ==
  ASSUME NEW in, Splittable(in)
  PROVE  Cuts(in, splitWithSeparators(in), FALSE)
<1> DEFINE n == Len(Reverse(Separators))
<1>1. n \in Nat
  BY ReversedIs
<1>2. PICK F : SeparatorCourse(F, in) /\ splitWithSeparators(in) = F[n]
  BY SeparatorFold
<1> DEFINE G == {k \in 0..n : Cuts(in, F[k], FALSE)}
<1>3. 0 \in G
  <2>1. 0 \in 0..n
    BY <1>1
  <2> QED
    BY <1>2, <2>1, HardCuts DEF SeparatorCourse
<1>4. ASSUME NEW k \in 0..(n - 1), k \in G
      PROVE  k + 1 \in G
  <2> DEFINE m == k + 1
  <2>1. m \in 1..n /\ m \in 0..n /\ m - 1 = k
    BY <1>1
  <2> HIDE DEF m
  <2>2. Cuts(in, F[m - 1], FALSE)
    BY <1>4, <2>1
  <2>3. F[m] = SplitAt(in, F[m - 1], Reverse(Separators)[m])
    BY <1>2, <2>1 DEF SeparatorCourse
  <2>4. Cuts(in, F[m], FALSE)
    BY <2>2, <2>3, SplitAtCuts
  <2> QED
    BY <2>1, <2>4 DEF m
<1>5. n \in G
  <2>1. 0..n \subseteq G
    <3> HIDE DEF G, n
    <3> QED
      BY <1>1, <1>3, <1>4, CountingUp
  <2>2. n \in 0..n
    BY <1>1
  <2> HIDE DEF G, n
  <2> QED
    BY <2>1, <2>2
<1> QED
  BY <1>2, <1>5

\* The splitter keeps what it promises of the solid core of a part.
LEMMA RecursiveSplits ==
  ASSUME NEW in, Splittable(in), NEW q \in Parts(in), Rising(q, Less), Gapless(in, ToSet(q))
  PROVE  \E C : /\ C \subseteq ToSet(q) /\ C \subseteq Positions(in)
                /\ \A p \in ToSet(q) : Solid(in, p) => p \in C
                /\ ChunksOf(in, C, splitRecursive(in, q)) /\ Complete(in, C, splitRecursive(in, q))
<1> DEFINE t == TrimRunes(in, q)
<1>1. /\ in.target \in Nat /\ in.overlap \in Nat /\ Len(in.text) \in Nat
      /\ Positions(in) = 1..Len(in.text) /\ Positions(in) \subseteq Nat /\ Parts(in) = Seq(Positions(in))
  BY SplitInputIs
<1>2. ToSet(q) \subseteq Positions(in)
  BY DEF Gapless
<1>3. /\ t \in Parts(in) /\ ToSet(t) \subseteq ToSet(q) /\ ToSet(t) \subseteq Positions(in) /\ Rising(t, Less)
      /\ \A p \in ToSet(q) : Solid(in, p) => p \in ToSet(t)
      /\ t = <<>> => \A p \in ToSet(q) : ~Solid(in, p)
  BY <1>2, TrimIs
<1>4. splitRecursive(in, q) = IF t = <<>> THEN <<>>
                              ELSE IF Len(t) <= in.target THEN <<t>> ELSE splitWithSeparators(in)[t]
  BY DEF splitRecursive
<1> HIDE DEF t
<1>5. Gapless(in, ToSet(t))
  BY <1>2, <1>3 DEF Gapless
<1>6. Len(t) \in Nat
  BY <1>1, <1>3, LenProperties
<1>7. CASE t = <<>>
  <2>1. ChunksOf(in, ToSet(t), <<>>) /\ Complete(in, ToSet(t), <<>>)
    <3>1. <<>> \in Seq(Parts(in)) /\ Len(<<>>) = 0 /\ 1..0 = {} /\ 1..(0 - 1) = {}
      OBVIOUS
    <3>2. ChunksOf(in, ToSet(t), <<>>)
      BY <3>1 DEF ChunksOf, AddsAfter
    <3>3. \A p \in ToSet(t) : ~Solid(in, p)
      BY <1>3, <1>7
    <3> QED
      BY <3>2, <3>3 DEF Complete
  <2> QED
    BY <1>3, <1>4, <1>7, <2>1
<1>8. CASE t # <<>> /\ Len(t) <= in.target
  <2>1. Len(t) <= in.target + in.overlap
    BY <1>1, <1>6, <1>8
  <2>2. ChunksOf(in, ToSet(t), <<t>>) /\ Complete(in, ToSet(t), <<t>>)
    BY <1>3, <1>5, <1>8, <2>1, OneChunk
  <2>3. splitRecursive(in, q) = <<t>>
    BY <1>4, <1>8
  <2> QED
    BY <1>3, <2>2, <2>3
<1>9. CASE t # <<>> /\ ~(Len(t) <= in.target)
  <2>1. /\ ChunksOf(in, ToSet(t), splitWithSeparators(in)[t])
        /\ Complete(in, ToSet(t), splitWithSeparators(in)[t])
    BY <1>3, <1>5, <1>9, SeparatorsCut DEF Cuts
  <2>2. splitRecursive(in, q) = splitWithSeparators(in)[t]
    BY <1>4, <1>9
  <2> QED
    BY <1>3, <2>1, <2>2
<1> QED
  BY <1>7, <1>8, <1>9

\* All positions of a text make a part of it.
LEMMA AllIs ==
  ASSUME NEW in, Splittable(in)
  PROVE  /\ AllOf(in) \in Parts(in) /\ Rising(AllOf(in), Less) /\ Gapless(in, ToSet(AllOf(in)))
         /\ \A p : p \in ToSet(AllOf(in)) <=> p \in Positions(in)
<1> DEFINE all == AllOf(in)
<1>1. /\ Len(in.text) \in Nat
      /\ Positions(in) = 1..Len(in.text) /\ Positions(in) \subseteq Nat /\ Parts(in) = Seq(Positions(in))
  BY SplitInputIs
<1>2. all \in [1..Len(in.text) -> Positions(in)] /\ \A p \in 1..Len(in.text) : all[p] = p
  BY <1>1 DEF Positions, AllOf
<1> HIDE DEF all
<1>3. all \in Seq(Positions(in)) /\ Len(all) = Len(in.text)
  BY <1>1, <1>2, ListOf
<1>4. Rising(all, Less)
  BY <1>1, <1>2, <1>3 DEF Rising, Less
<1>5. \A p : p \in ToSet(all) <=> p \in Positions(in)
  BY <1>1, <1>2, <1>3, ToSetOf
<1>6. Gapless(in, ToSet(all))
  BY <1>5 DEF Gapless
<1> QED
  BY <1>1, <1>3, <1>4, <1>5, <1>6 DEF all

LEMMA SplittingStands ==
  ASSUME call.in \in SplitInputs, Result = splitRecursive(call.in, AllOf(call.in))
  PROVE  SplittingIsSound
<1> DEFINE in == call.in
           cs == Result
<1>0. Splittable(in)
  BY SplitAssumption DEF SplitInputs, Splittable
<1>1. PICK C : /\ C \subseteq Positions(in)
               /\ \A p \in Positions(in) : Solid(in, p) => p \in C
               /\ ChunksOf(in, C, cs) /\ Complete(in, C, cs)
  <2> HIDE DEF in
  <2>1. PICK C : /\ C \subseteq Positions(in)
                 /\ \A p \in ToSet(AllOf(in)) : Solid(in, p) => p \in C
                 /\ ChunksOf(in, C, splitRecursive(in, AllOf(in)))
                 /\ Complete(in, C, splitRecursive(in, AllOf(in)))
    BY <1>0, AllIs, RecursiveSplits
  <2>2. cs = splitRecursive(in, AllOf(in))
    BY DEF in
  <2> HIDE DEF cs
  <2> QED
    BY <1>0, <2>1, <2>2, AllIs
<1>2. /\ Splittable(in) /\ in.target \in Nat /\ in.overlap \in Nat
      /\ Positions(in) = DOMAIN in.text /\ Positions(in) \subseteq Nat /\ Parts(in) = Seq(Positions(in))
      /\ Positions(in) = 1..Len(in.text) /\ Len(in.text) \in Nat
  <2> HIDE DEF in
  <2> QED
    BY <1>0, SplitInputIs DEF Positions
<1> HIDE DEF in, cs
<1>3. cs \in Seq(Parts(in)) /\ Len(cs) \in Nat /\ DOMAIN cs = 1..Len(cs)
  BY <1>1, LenProperties DEF ChunksOf
<1>4. ASSUME NEW i \in 1..Len(cs)
      PROVE  /\ ChunkIn(in, C, cs[i]) /\ cs[i] \in Parts(in) /\ Len(cs[i]) \in Nat
             /\ 1 \in 1..Len(cs[i])
             /\ \A x : x \in ToSet(cs[i]) <=> \E k \in 1..Len(cs[i]) : cs[i][k] = x
  <2> DEFINE c == cs[i]
  <2>1. ChunkIn(in, C, c) /\ c \in Seq(Positions(in))
    BY <1>1, <1>2, <1>3, ElementOfSeq DEF ChunksOf
  <2> HIDE DEF c
  <2>2. Len(c) \in Nat /\ Len(c) # 0
    BY <2>1, LenProperties, EmptySeq DEF ChunkIn
  <2>3. 1 \in 1..Len(c)
    BY <2>2
  <2>4. \A x : x \in ToSet(c) <=> \E k \in 1..Len(c) : c[k] = x
    BY <2>1, ToSetOf
  <2> QED
    BY <1>2, <2>1, <2>2, <2>3, <2>4 DEF c
<1>5. NothingLost
  <2>1. ASSUME NEW p \in DOMAIN in.text, ~BlankRune(in, p)
        PROVE  p \in UNION {ToSet(cs[i]) : i \in DOMAIN cs}
    <3>1. Has(cs, p)
      BY <1>1, <1>2, <2>1 DEF Complete, Solid
    <3> QED
      BY <1>3, <3>1 DEF Has
  <2> QED
    BY <2>1 DEF NothingLost, in, cs
<1>6. ASSUME NEW i \in 1..Len(cs), NEW k \in 1..(Len(cs[i]) - 1)
      PROVE  /\ cs[i][k] < cs[i][k + 1]
             /\ \A p \in (cs[i][k] + 1)..(cs[i][k + 1] - 1) : BlankRune(in, p)
  <2> DEFINE c == cs[i]
             m == k + 1
  <2>1. c \in Parts(in) /\ Len(c) \in Nat /\ Rising(c, Less) /\ Gapless(in, ToSet(c))
        /\ \A x : x \in ToSet(c) <=> \E j \in 1..Len(c) : c[j] = x
    BY <1>4 DEF ChunkIn
  <2>2. k \in 1..Len(c) /\ m \in 1..Len(c) /\ k < m /\ \A j \in 1..Len(c) : ~(k < j /\ j < m)
    BY <2>1
  <2> HIDE DEF c, m
  <2>3. \A j, l \in 1..Len(c) : /\ j < l <=> c[j] < c[l]
                                /\ j <= l <=> c[j] <= c[l]
    BY <1>2, <2>1, RisingPlaces
  <2>4. c[k] < c[m] /\ c[k] \in Positions(in) /\ c[m] \in Positions(in)
    BY <1>2, <2>1, <2>2, <2>3, ElementOfSeq
  <2> DEFINE u == c[k]
             v == c[m]
  <2>5. u \in ToSet(c) /\ v \in ToSet(c)
    BY <2>1, <2>2
  <2>6. u \in 1..Len(in.text) /\ v \in 1..Len(in.text)
    BY <1>2, <2>4
  <2>7. ASSUME NEW p \in (u + 1)..(v - 1)
        PROVE  BlankRune(in, p)
    <3>1. SUFFICES ASSUME Solid(in, p)
                   PROVE  FALSE
      BY DEF Solid
    <3>2. p \in Positions(in) /\ u < p /\ p < v /\ u <= p /\ p <= v
      <4> HIDE DEF u, v
      <4> QED
        BY <1>2, <2>6
    <3>3. p \in ToSet(c)
      BY <2>1, <2>5, <3>1, <3>2 DEF Gapless
    <3>4. PICK j \in 1..Len(c) : c[j] = p
      BY <2>1, <3>3
    <3>5. k < j /\ j < m
      BY <2>2, <2>3, <3>2, <3>4
    <3> QED
      BY <2>2, <3>5
  <2> QED
    BY <2>4, <2>7 DEF c, m
<1>7. ASSUME NEW i \in 1..(Len(cs) - 1)
      PROVE  /\ Head(cs[i]) <= Head(cs[i + 1])
             /\ Cardinality(ToSet(cs[i]) \cap ToSet(cs[i + 1])) <= in.overlap
  <2> DEFINE c == cs[i]
             m == i + 1
             d == cs[m]
  <2>1. i \in 1..Len(cs) /\ m \in 1..Len(cs)
    BY <1>3
  <2>2. GoesOn(in, c, d)
    BY <1>1 DEF ChunksOf
  <2> HIDE DEF m
  <2>3. /\ c \in Parts(in) /\ d \in Parts(in) /\ 1 \in 1..Len(c) /\ 1 \in 1..Len(d) /\ Len(c) \in Nat
        /\ Rising(c, Less)
        /\ \A x : x \in ToSet(c) <=> \E k \in 1..Len(c) : c[k] = x
        /\ \A x : x \in ToSet(d) <=> \E k \in 1..Len(d) : d[k] = x
    BY <1>4, <2>1 DEF ChunkIn
  <2> HIDE DEF c, d
  <2>4. Head(c) = c[1] /\ Head(d) = d[1]
    <3>1. c # <<>> /\ d # <<>> /\ c \in Seq(Positions(in)) /\ d \in Seq(Positions(in))
      BY <1>2, <2>3
    <3> QED
      BY <3>1
  <2>5. PICK p \in ToSet(c) : p <= d[1]
    BY <2>2, <2>3 DEF GoesOn
  <2>6. PICK k \in 1..Len(c) : c[k] = p
    BY <2>3
  <2>7. c[1] <= p
    <3>1. 1 <= k
      BY <2>6
    <3> QED
      BY <1>2, <2>3, <2>6, <3>1, RisingPlaces
  <2>8. c[1] \in Nat /\ p \in Nat /\ d[1] \in Nat
    BY <1>2, <2>3, <2>6, ElementOfSeq
  <2>9. c[1] <= d[1]
    BY <2>5, <2>7, <2>8
  <2> QED
    BY <2>2, <2>4, <2>9 DEF GoesOn, Few, c, d, m
<1>8. ASSUME NEW i \in 1..Len(cs), NEW p \in ToSet(cs[i]), NEW q,
             p \notin UNION {ToSet(cs[j]) : j \in 1..(i - 1)},
             q \in UNION {ToSet(cs[j]) : j \in 1..(i - 1)}
      PROVE  q < p
  BY <1>1, <1>8 DEF ChunksOf, AddsAfter
<1>9. TextOrder
  <2>1. GoesForwards(cs, in.overlap)
    BY <1>3, <1>6, <1>7, <1>8 DEF GoesForwards
  <2> QED
    BY <1>3, <1>6, <1>7, <2>1 DEF TextOrder, in, cs
<1>10. ChunksBounded
  BY <1>3, <1>4 DEF ChunksBounded, ChunkIn, in, cs
<1> QED
  BY <1>5, <1>9, <1>10 DEF SplittingIsSound

\* The splitter loses nothing but blanks, keeps the text in its order,
\* repeats at most the overlap of a chunk in the next, adds only what comes
\* after all it has, and makes no chunk blank or longer than the target and
\* the overlap together, whatever separators the text has
\* (splitRecursive).
THEOREM SplittingIsWhole == AlgorithmsSpec => []SplittingIsSound
<1>1. Answered => SplittingIsSound
  <2> SUFFICES ASSUME Answered, Splitted
               PROVE  SplittingIsSound
    BY DEF SplittingIsSound, NothingLost, TextOrder, ChunksBounded
  <2>1. call.in \in SplitInputs
    BY InputOf DEF Splitted, Returned
  <2>2. Result = splitRecursive(call.in, AllOf(call.in))
    BY DEF Answered, Splitted, Returned
  <2> QED
    BY <2>1, <2>2, SplittingStands
<1> QED
  BY <1>1, AnsweredAlways, PTL

-----------------------------------------------------------------------------
(* The metrics of one attempt.                                             *)

LEMMA UnitIsLarge == One \in Nat /\ One >= 72
<1>1. One \in Nat \ {0} /\ One % 8 = 0 /\ One % 9 = 0
  BY EvaluationAssumption
<1> QED
  BY <1>1

LEMMA EvidenceIs ==
  ASSUME NEW in \in EvidenceInputs
  PROVE  /\ in.wanted \in Nat \ {0} /\ One % in.wanted = 0
         /\ Len(in.hits) \in Nat /\ DOMAIN in.hits = 1..Len(in.hits)
         /\ \A p \in DOMAIN in.hits : in.hits[p] \subseteq 1..in.wanted
<1>1. in.wanted \in Nat \ {0} /\ One % in.wanted = 0 /\ in.hits \in Seq(SUBSET (1..in.wanted))
  BY EvaluationAssumption
<1> DEFINE S == SUBSET (1..in.wanted)
<1>2. \A p \in 1..Len(in.hits) : in.hits[p] \in S
  <2> HIDE DEF S
  <2> QED
    BY <1>1, ElementOfSeq DEF S
<1> QED
  BY <1>1, <1>2, LenProperties

\* The first place of a piece of evidence, 0 for what no place shows.
LEMMA FirstPlaceIs ==
  ASSUME NEW hits, NEW n \in Nat, DOMAIN hits = 1..n, NEW e
  PROVE  /\ FirstPlace(hits, e) \in 0..n
         /\ FirstPlace(hits, e) # 0 => e \in hits[FirstPlace(hits, e)]
         /\ \A p \in 1..n : e \in hits[p] => FirstPlace(hits, e) # 0 /\ FirstPlace(hits, e) <= p
<1> DEFINE places == {p \in DOMAIN hits : e \in hits[p]}
<1>1. CASE places = {}
  BY <1>1 DEF FirstPlace
<1>2. CASE places # {}
  <2>1. places \subseteq Nat
    OBVIOUS
  <2>2. Min(places) \in places /\ \A p \in places : Min(places) <= p
    BY <1>2, <2>1, NatLeast
  <2>3. FirstPlace(hits, e) = Min(places)
    BY <1>2 DEF FirstPlace
  <2> QED
    BY <2>2, <2>3
<1> QED
  BY <1>1, <1>2

\* The evidence that is shown among the first k places.
ShownBy(hits, n, k) == {e \in 1..n : FirstPlace(hits, e) \in 1..k}
PlacesFound(hits, n) == {FirstPlace(hits, e) : e \in 1..n} \ {0}
FirstFound(hits, n) == IF PlacesFound(hits, n) = {} THEN 0 ELSE Min(PlacesFound(hits, n))

LEMMA ShownIs ==
  ASSUME NEW in \in EvidenceInputs, NEW j \in Nat, NEW k \in Nat, j <= k
  PROVE  LET R(x) == ShownBy(in.hits, in.wanted, x)
         IN  /\ IsFiniteSet(R(j)) /\ Cardinality(R(j)) \in Nat
             /\ Cardinality(R(j)) <= Cardinality(R(k)) /\ Cardinality(R(j)) <= in.wanted
             /\ Cardinality(R(j)) > 0 <=> R(j) # {}
<1> DEFINE n == in.wanted
           R(x) == ShownBy(in.hits, n, x)
<1>1. n \in Nat
  BY EvidenceIs
<1>2. IsFiniteSet(1..n) /\ Cardinality(1..n) = n
  BY <1>1, FS_Interval
<1>3. R(j) \subseteq 1..n /\ R(k) \subseteq 1..n /\ R(j) \subseteq R(k)
  BY DEF ShownBy
<1> HIDE DEF R, n
<1>4. IsFiniteSet(R(j)) /\ IsFiniteSet(R(k)) /\ Cardinality(R(j)) <= n
  BY <1>2, <1>3, FS_Subset
<1>5. Cardinality(R(j)) <= Cardinality(R(k))
  BY <1>3, <1>4, FS_Subset
<1>6. Cardinality(R(j)) \in Nat
  BY <1>4, FS_CardinalityType
<1>7. Cardinality(R(j)) = 0 <=> R(j) = {}
  BY <1>4, FS_EmptySet
<1> QED
  BY <1>4, <1>5, <1>6, <1>7 DEF R, n

LEMMA FirstIs ==
  ASSUME NEW in \in EvidenceInputs, NEW k \in Nat
  PROVE  /\ FirstFound(in.hits, in.wanted) \in Nat
         /\ FirstFound(in.hits, in.wanted) \in 1..k <=> ShownBy(in.hits, in.wanted, k) # {}
<1> DEFINE n == in.wanted
           F == PlacesFound(in.hits, n)
           first == FirstFound(in.hits, n)
<1>1. n \in Nat /\ Len(in.hits) \in Nat /\ DOMAIN in.hits = 1..Len(in.hits)
  BY EvidenceIs
<1>2. \A e \in 1..n : FirstPlace(in.hits, e) \in Nat
  BY <1>1, FirstPlaceIs
<1>3. F \subseteq Nat \ {0}
  BY <1>2 DEF PlacesFound
<1>4. ShownBy(in.hits, n, k) # {} <=> \E p \in F : p <= k
  BY <1>2 DEF PlacesFound, ShownBy
<1>5. CASE F = {}
  BY <1>4, <1>5 DEF FirstFound
<1>6. CASE F # {}
  <2>1. Min(F) \in F /\ \A p \in F : Min(F) <= p
    BY <1>3, <1>6, NatLeast
  <2>2. first = Min(F)
    BY <1>6 DEF FirstFound
  <2> HIDE DEF F, first
  <2>3. first \in Nat \ {0} /\ first \in F /\ \A p \in F : p \in Nat /\ first <= p
    BY <1>3, <2>1, <2>2
  <2>4. first \in 1..k <=> \E p \in F : p <= k
    BY <2>3
  <2> QED
    BY <1>4, <2>3, <2>4 DEF first
<1> QED
  BY <1>5, <1>6

\* One share of the whole.
LEMMA OneShare ==
  ASSUME NEW u \in Nat, NEW d \in Nat \ {0}, u > 0, u % d = 0, NEW c \in Nat, NEW b \in Nat, c <= b
  PROVE  /\ u \div d \in Nat /\ u \div d > 0
         /\ c * (u \div d) \in Nat /\ c * (u \div d) <= b * (u \div d)
         /\ c * (u \div d) > 0 <=> c > 0
         /\ d * (u \div d) = u
<1> DEFINE s == u \div d
<1>1. s \in Nat /\ d * s = u
  BY WholeShare
<1> HIDE DEF s
<1>2. s > 0
  BY <1>1
<1>3. c * s \in Nat /\ c * s <= b * s
  BY <1>1
<1>4. c * s > 0 <=> c > 0
  BY <1>1, <1>2
<1> QED
  BY <1>1, <1>2, <1>3, <1>4 DEF s

LEMMA GainIs ==
  /\ \A p \in 1..10 : Gain[p] \in Nat /\ Gain[p] >= 289 /\ Gain[p] <= 1000
  /\ \A p, q \in 1..10 : p < q => Gain[q] < Gain[p]
<1>1. /\ Gain[1] = 1000 /\ Gain[2] = 631 /\ Gain[3] = 500 /\ Gain[4] = 431 /\ Gain[5] = 387
      /\ Gain[6] = 356 /\ Gain[7] = 333 /\ Gain[8] = 315 /\ Gain[9] = 301 /\ Gain[10] = 289
  BY DEF Gain
<1>2. \A p \in 1..10 : p \in {1, 2, 3, 4, 5, 6, 7, 8, 9, 10}
  OBVIOUS
<1> QED
  BY <1>1, <1>2

\* The places with new evidence are no more than the evidence they show.
LEMMA NewPlacesAre ==
  ASSUME NEW in \in EvidenceInputs
  PROVE  LET N == NewPlaces(in.hits, in.wanted)
             R == ShownBy(in.hits, in.wanted, 10)
         IN  /\ N \subseteq 1..10 /\ IsFiniteSet(N) /\ Cardinality(N) \in Nat
             /\ Cardinality(N) <= Cardinality(R) /\ Cardinality(R) \in Nat
             /\ Cardinality(N) <= in.wanted /\ (N = {} <=> R = {})
             /\ Cardinality(N) > 0 <=> N # {}
<1> DEFINE N == NewPlaces(in.hits, in.wanted)
           R == ShownBy(in.hits, in.wanted, 10)
           f == [e \in R |-> FirstPlace(in.hits, e)]
<1>1. N \subseteq 1..10 /\ N = {f[e] : e \in R}
  BY DEF NewPlaces, ShownBy
<1>2. f \in Surjection(R, N)
  <2> HIDE DEF N, R
  <2>1. f \in [R -> N]
    BY <1>1
  <2> QED
    BY <1>1, <2>1 DEF Surjection
<1>3. IsFiniteSet(R) /\ Cardinality(R) \in Nat /\ Cardinality(R) <= in.wanted
  BY ShownIs
<1>4. in.wanted \in Nat
  BY EvidenceIs
<1>5. N = {} <=> R = {}
  <2> HIDE DEF N, R
  <2> QED
    BY <1>1
<1> HIDE DEF N, R, f
<1>6. IsFiniteSet(N) /\ Cardinality(N) <= Cardinality(R)
  BY <1>2, <1>3, FS_Surjection
<1>7. Cardinality(N) \in Nat
  BY <1>6, FS_CardinalityType
<1>8. Cardinality(N) = 0 <=> N = {}
  BY <1>6, FS_EmptySet
<1>9. Cardinality(N) <= in.wanted /\ (Cardinality(N) > 0 <=> N # {})
  BY <1>3, <1>4, <1>6, <1>7, <1>8
<1> QED
  BY <1>1, <1>3, <1>5, <1>6, <1>7, <1>9 DEF N, R

\* A set of at most m places earns as much as the first m only when it holds
\* them all.
LEMMA FullGain ==
  ASSUME NEW N, N \subseteq 1..10, NEW m \in 1..10, Cardinality(N) <= m \/ m = 10,
         Total(Gain, N) >= Total(Gain, 1..m)
  PROVE  1..m \subseteq N
<1> DEFINE M == 1..m
           A == M \cap N
           B == N \ M
           C == M \ N
           c == Gain[m]
           D == 1..10
<1>1. /\ M \subseteq D /\ N \subseteq D /\ A \subseteq M /\ A \subseteq N /\ B \subseteq N /\ C \subseteq M
      /\ N \cap M = A /\ M \cap N = A /\ N \ A = B /\ M \ A = C
      /\ \A p \in C : p \in D /\ (p = m \/ p < m)
      /\ \A p \in B : p \in D /\ m < p
      /\ m = 10 => B = {}
  OBVIOUS
<1>2. /\ \A p \in D : Gain[p] \in Nat /\ Gain[p] >= 289
      /\ \A p, q \in D : p < q => Gain[q] < Gain[p]
      /\ m \in D
  BY GainIs
<1>3. IsFiniteSet(D) /\ IsFiniteSet(M) /\ Cardinality(M) = m
  <2>1. m \in Int /\ 1 \in Int /\ 10 \in Int /\ m >= 1
    OBVIOUS
  <2>2. Cardinality(1..m) = IF 1 > m THEN 0 ELSE m - 1 + 1
    BY <2>1, FS_Interval
  <2>3. IsFiniteSet(1..10) /\ IsFiniteSet(1..m)
    BY <2>1, FS_Interval
  <2> QED
    BY <2>1, <2>2, <2>3
<1>4. M \ N = C
  OBVIOUS
<1>5. m \in Nat
  OBVIOUS
<1>6. Total(Gain, N) >= Total(Gain, M)
  OBVIOUS
<1>7. C = {} => 1..m \subseteq N
  OBVIOUS
<1>8. c = Gain[m]
  OBVIOUS
<1> HIDE DEF A, B, C, D, M, c
<1>9. IsFiniteSet(N) /\ IsFiniteSet(A) /\ IsFiniteSet(B) /\ IsFiniteSet(C)
  BY <1>1, <1>3, FS_Subset
<1>10. /\ Cardinality(A) \in Nat /\ Cardinality(B) \in Nat /\ Cardinality(C) \in Nat /\ Cardinality(N) \in Nat
  BY <1>9, FS_CardinalityType
<1>11. Cardinality(B) = Cardinality(N) - Cardinality(A)
  <2>1. Cardinality(N \ M) = Cardinality(N) - Cardinality(N \cap M)
    BY <1>9, FS_Difference
  <2>2. N \ M = B
    BY DEF B
  <2> QED
    BY <1>1, <2>1, <2>2
<1>12. Cardinality(C) = m - Cardinality(A)
  <2>1. Cardinality(M \ N) = Cardinality(M) - Cardinality(M \cap N)
    BY <1>3, FS_Difference
  <2> QED
    BY <1>1, <1>3, <1>4, <2>1
<1>13. \A p \in N \cup M : Gain[p] \in Nat
  BY <1>1, <1>2
<1>14. Total(Gain, N) = Total(Gain, A) + Total(Gain, B)
  <2>1. Total(Gain, N) = Total(Gain, A) + Total(Gain, N \ A)
    BY <1>1, <1>9, <1>13, TotalSplits
  <2> QED
    BY <1>1, <2>1
<1>15. Total(Gain, M) = Total(Gain, A) + Total(Gain, C)
  <2>1. Total(Gain, M) = Total(Gain, A) + Total(Gain, M \ A)
    BY <1>1, <1>3, <1>13, TotalSplits
  <2> QED
    BY <1>1, <2>1
<1>16. Total(Gain, A) \in Nat /\ Total(Gain, B) \in Nat /\ Total(Gain, C) \in Nat
  BY <1>1, <1>9, <1>13, TotalTyped
<1>17. c \in Nat /\ c - 1 \in Nat
  BY <1>2, <1>8
<1>18. c * Cardinality(C) <= Total(Gain, C)
  <2>1. \A p \in C : Gain[p] \in Nat /\ c <= Gain[p]
    BY <1>1, <1>2, <1>8
  <2> QED
    BY <1>9, <1>17, <2>1, TotalLow
<1>19. Total(Gain, B) <= (c - 1) * Cardinality(B)
  <2>1. \A p \in B : Gain[p] \in Nat /\ Gain[p] <= c - 1
    BY <1>1, <1>2, <1>8
  <2> QED
    BY <1>9, <1>17, <2>1, TotalHigh
<1>20. Cardinality(B) <= Cardinality(C)
  <2>1. CASE m = 10
    <3>1. Cardinality(B) = 0
      BY <1>1, <2>1, FS_EmptySet
    <3> QED
      BY <1>10, <3>1
  <2>2. CASE Cardinality(N) <= m
    BY <1>5, <1>10, <1>11, <1>12, <2>2
  <2> QED
    BY <2>1, <2>2
<1>21. Cardinality(C) = 0
  <2> DEFINE b == Cardinality(B)
             k == Cardinality(C)
             x == Total(Gain, B)
             y == Total(Gain, C)
             z == Total(Gain, A)
  <2>1. /\ z + x >= z + y /\ z \in Nat
        /\ c * k <= y /\ x <= (c - 1) * b /\ x \in Nat /\ y \in Nat /\ b \in Nat /\ k \in Nat /\ b <= k
    BY <1>6, <1>10, <1>14, <1>15, <1>16, <1>18, <1>19, <1>20
  <2> HIDE DEF b, k, x, y, z
  <2>2. y <= x
    BY <2>1
  <2>3. (c - 1) * b <= (c - 1) * k /\ (c - 1) * b \in Nat /\ (c - 1) * k \in Nat /\ c * k \in Nat
    BY <1>17, <2>1
  <2>4. (c - 1) * k = c * k - k
    BY <1>17, <2>1
  <2> QED
    BY <2>1, <2>2, <2>3, <2>4 DEF k
<1> QED
  BY <1>7, <1>9, <1>21, FS_EmptySet

\* The gain of the hits is zero only when the first ten places show nothing,
\* and full only when they show all that ten places can.
LEMMA GainAgrees ==
  ASSUME NEW in \in EvidenceInputs
  PROVE  LET g == ndcgAt10(in.hits, in.wanted)
             R == ShownBy(in.hits, in.wanted, 10)
         IN  /\ g \in Nat /\ g <= One
             /\ g > 0 <=> R # {}
             /\ g = One => Min({in.wanted, 10}) <= Cardinality(R)
<1> DEFINE n == in.wanted
           N == NewPlaces(in.hits, n)
           R == ShownBy(in.hits, n, 10)
           m == Min({n, 10})
           M == 1..m
           dcg == Total(Gain, N)
           ideal == Total(Gain, M)
           q == (dcg * One) \div ideal
           g == ndcgAt10(in.hits, n)
           D == 1..10
<1>1. n \in Nat \ {0}
  BY EvidenceIs
<1>2. m \in D /\ m = (IF n <= 10 THEN n ELSE 10)
  <2>1. m \in {n, 10} /\ \A k \in {n, 10} : m <= k
    BY <1>1, NatLeast
  <2> HIDE DEF m
  <2> QED
    BY <1>1, <2>1
<1>3. MapThenSumSet(LAMBDA p : Gain[p], N) = dcg /\ MapThenSumSet(LAMBDA p : Gain[p], M) = ideal
  BY DEF Total
<1>4. g = Min({q, One})
  BY <1>3 DEF ndcgAt10
<1>5. /\ N \subseteq D /\ IsFiniteSet(N) /\ Cardinality(N) \in Nat
      /\ Cardinality(N) <= Cardinality(R) /\ Cardinality(R) \in Nat
      /\ Cardinality(N) <= n /\ (N = {} <=> R = {})
      /\ Cardinality(N) > 0 <=> N # {}
  BY NewPlacesAre
<1>6. \A p \in D : Gain[p] \in Nat /\ Gain[p] >= 289 /\ Gain[p] <= 1000
  BY GainIs
<1>7. One \in Nat /\ One >= 72
  BY UnitIsLarge
<1>8. M \subseteq D /\ IsFiniteSet(M) /\ Cardinality(M) = m /\ m \in Nat /\ m >= 1 /\ m <= 10
  <2>1. m \in Int /\ 1 \in Int /\ m >= 1 /\ m <= 10
    BY <1>2
  <2> HIDE DEF m
  <2>2. IsFiniteSet(1..m) /\ Cardinality(1..m) = IF 1 > m THEN 0 ELSE m - 1 + 1
    BY <2>1, FS_Interval
  <2> QED
    BY <2>1, <2>2
<1>9. (Cardinality(N) <= m \/ m = 10) /\ m \in 1..10 /\ N \subseteq 1..10
  BY <1>1, <1>2, <1>5
<1>10. Total(Gain, N) >= Total(Gain, 1..m) => 1..m \subseteq N
  <2> HIDE DEF N, m
  <2> QED
    BY <1>9, FullGain
<1>11. dcg >= ideal => M \subseteq N
  BY <1>10
<1> HIDE DEF n, N, R, m, M, D, g
<1>12. dcg \in Nat /\ ideal \in Nat
  BY <1>5, <1>6, <1>8, TotalTyped
<1>13. 289 * Cardinality(N) <= dcg
  <2>1. \A p \in N : Gain[p] \in Nat /\ 289 <= Gain[p]
    BY <1>5, <1>6
  <2> QED
    BY <1>5, <2>1, TotalLow
<1>14. 289 * Cardinality(M) <= ideal
  <2>1. \A p \in M : Gain[p] \in Nat /\ 289 <= Gain[p]
    BY <1>6, <1>8
  <2> QED
    BY <1>8, <2>1, TotalLow
<1>15. ideal <= 1000 * Cardinality(M)
  <2>1. \A p \in M : Gain[p] \in Nat /\ Gain[p] <= 1000
    BY <1>6, <1>8
  <2> QED
    BY <1>8, <2>1, TotalHigh
<1>16. N = {} => dcg = 0
  BY TotalNone
<1> HIDE DEF dcg, ideal
<1>17. ideal > 0 /\ ideal <= 10000
  BY <1>8, <1>12, <1>14, <1>15
<1>18. dcg * One \in Nat
  BY <1>7, <1>12
<1>19. q \in Nat /\ \A k \in Nat : q >= k <=> dcg * One >= ideal * k
  BY <1>12, <1>17, <1>18, QuotientIs
<1> HIDE DEF q
<1>20. q > 0 <=> R # {}
  <2>1. CASE N = {}
    <3>1. dcg * One = 0
      BY <1>7, <1>16, <2>1
    <3>2. q >= 1 <=> 0 >= ideal * 1
      BY <1>19, <3>1
    <3> QED
      BY <1>5, <1>12, <1>17, <1>19, <2>1, <3>2
  <2>2. CASE N # {}
    <3>1. dcg >= 289
      BY <1>5, <1>12, <1>13, <2>2
    <3>2. dcg * One >= 289 * 72
      <4>1. dcg * One >= 289 * One
        BY <1>7, <1>12, <3>1
      <4> QED
        BY <1>7, <1>18, <4>1
    <3>3. q >= 1 <=> dcg * One >= ideal * 1
      BY <1>19
    <3>4. q >= 1
      BY <1>12, <1>17, <1>18, <3>2, <3>3
    <3> QED
      BY <1>5, <1>19, <2>2, <3>4
  <2> QED
    BY <2>1, <2>2
<1>21. q >= One => dcg >= ideal
  <2>1. q >= One <=> dcg * One >= ideal * One
    BY <1>7, <1>19
  <2>2. dcg < ideal => dcg * One < ideal * One
    BY <1>7, <1>12
  <2> QED
    BY <1>7, <1>12, <1>18, <2>1, <2>2
<1>22. g = (IF q <= One THEN q ELSE One)
  <2>1. g \in {q, One} /\ \A k \in {q, One} : g <= k
    BY <1>4, <1>7, <1>19, NatLeast
  <2> QED
    BY <1>7, <1>19, <2>1
<1>23. g \in Nat /\ g <= One /\ (g > 0 <=> R # {})
  BY <1>7, <1>19, <1>20, <1>22
<1>24. ASSUME g = One
       PROVE  m <= Cardinality(R)
  <2>1. q >= One
    BY <1>7, <1>19, <1>22, <1>24
  <2>2. M \subseteq N
    BY <1>11, <1>21, <2>1 DEF dcg, ideal
  <2>3. Cardinality(M) <= Cardinality(N)
    BY <1>5, <2>2, FS_Subset
  <2> QED
    BY <1>5, <1>8, <2>3
<1> QED
  BY <1>23, <1>24 DEF n, m, R, g

\* The metrics in terms of what the first places show.
LEMMA EvaluateIs ==
  ASSUME NEW hits, NEW n
  PROVE  LET first == FirstFound(hits, n)
             R(k) == ShownBy(hits, n, k)
         IN  evaluateEvidence(hits, n) =
               [hitAt1 |-> IF first \in 1..1 THEN One ELSE 0, hitAt3 |-> IF first \in 1..3 THEN One ELSE 0,
                hitAt5 |-> IF first \in 1..5 THEN One ELSE 0,
                recallAt5 |-> Cardinality(R(5)) * (One \div n), recallAt10 |-> Cardinality(R(10)) * (One \div n),
                mrrAt10 |-> IF first \in 1..10 THEN One \div first ELSE 0, ndcgAt10 |-> ndcgAt10(hits, n)]
BY DEF evaluateEvidence, ShownBy, PlacesFound, FirstFound

\* What MetricsAgree says of one result.
MetricsFit(in, r) ==
  /\ r.hitAt1 <= r.hitAt3 /\ r.hitAt3 <= r.hitAt5
  /\ (r.recallAt5 > 0) = (r.hitAt5 = One)
  /\ r.recallAt5 <= r.recallAt10 /\ r.recallAt10 <= One
  /\ (r.mrrAt10 > 0) = (r.recallAt10 > 0)
  /\ (r.ndcgAt10 > 0) = (r.recallAt10 > 0)
  /\ r.ndcgAt10 <= One
  /\ r.ndcgAt10 = One => r.recallAt10 >= Min({in.wanted, 10}) * (One \div in.wanted)

LEMMA MetricsDoFit ==
  ASSUME NEW in \in EvidenceInputs
  PROVE  MetricsFit(in, evaluateEvidence(in.hits, in.wanted))
<1> DEFINE n == in.wanted
           first == FirstFound(in.hits, n)
           R(k) == ShownBy(in.hits, n, k)
           s == One \div n
           g == ndcgAt10(in.hits, n)
           r == evaluateEvidence(in.hits, n)
           m == Min({n, 10})
           mrr == IF first \in 1..10 THEN One \div first ELSE 0
           c5 == Cardinality(R(5))
           c10 == Cardinality(R(10))
<1>1. n \in Nat \ {0} /\ One % n = 0
  BY EvidenceIs
<1>2. One \in Nat /\ One >= 72
  BY UnitIsLarge
<1>3. /\ c5 \in Nat /\ c10 \in Nat /\ c5 <= c10 /\ c10 <= n
      /\ c5 > 0 <=> R(5) # {}
      /\ c10 > 0 <=> R(10) # {}
  <2>1. /\ Cardinality(ShownBy(in.hits, in.wanted, 5)) \in Nat
        /\ Cardinality(ShownBy(in.hits, in.wanted, 5)) <= Cardinality(ShownBy(in.hits, in.wanted, 10))
        /\ Cardinality(ShownBy(in.hits, in.wanted, 5)) > 0 <=> ShownBy(in.hits, in.wanted, 5) # {}
    BY ShownIs
  <2>2. /\ Cardinality(ShownBy(in.hits, in.wanted, 10)) \in Nat
        /\ Cardinality(ShownBy(in.hits, in.wanted, 10)) <= in.wanted
        /\ Cardinality(ShownBy(in.hits, in.wanted, 10)) > 0 <=> ShownBy(in.hits, in.wanted, 10) # {}
    BY ShownIs
  <2> QED
    BY <2>1, <2>2
<1>4. /\ first \in Nat /\ (first \in 1..5 <=> R(5) # {}) /\ (first \in 1..10 <=> R(10) # {})
  BY FirstIs
<1>5. g \in Nat /\ g <= One /\ (g > 0 <=> R(10) # {}) /\ (g = One => m <= c10)
  BY GainAgrees
<1>6. /\ r.hitAt1 = (IF first \in 1..1 THEN One ELSE 0) /\ r.hitAt3 = (IF first \in 1..3 THEN One ELSE 0)
      /\ r.hitAt5 = (IF first \in 1..5 THEN One ELSE 0)
      /\ r.recallAt5 = c5 * s /\ r.recallAt10 = c10 * s /\ r.mrrAt10 = mrr /\ r.ndcgAt10 = g
  BY EvaluateIs
<1>7. m \in Nat
  <2>1. m \in {n, 10}
    BY <1>1, NatLeast
  <2> QED
    BY <1>1, <2>1
<1> HIDE DEF n, first, R, s, g, r, m, mrr, c5, c10
<1>8. s \in Nat /\ n * s = One /\ c5 * s \in Nat /\ c10 * s \in Nat
      /\ c5 * s <= c10 * s /\ (c5 * s > 0 <=> c5 > 0)
  BY <1>1, <1>2, <1>3, OneShare DEF s
<1>9. c10 * s <= n * s /\ (c10 * s > 0 <=> c10 > 0)
  BY <1>1, <1>2, <1>3, OneShare DEF s
<1>10. mrr > 0 <=> first \in 1..10
  <2>1. CASE first \in 1..10
    <3>1. first \in Nat \ {0} /\ first * 1 <= One
      BY <1>2, <2>1
    <3>2. One \div first \in Nat /\ (One \div first >= 1 <=> One >= first * 1)
      BY <1>2, <3>1, QuotientIs
    <3>3. One \div first > 0
      BY <1>2, <3>1, <3>2
    <3> QED
      BY <2>1, <3>3 DEF mrr
  <2>2. CASE first \notin 1..10
    BY <2>2 DEF mrr
  <2> QED
    BY <2>1, <2>2
<1>11. r.hitAt1 <= r.hitAt3 /\ r.hitAt3 <= r.hitAt5
  BY <1>2, <1>4, <1>6
<1>12. (r.recallAt5 > 0) = (r.hitAt5 = One)
  BY <1>2, <1>3, <1>4, <1>6, <1>8
<1>13. r.recallAt5 <= r.recallAt10 /\ r.recallAt10 <= One
  BY <1>6, <1>8, <1>9
<1>14. (r.mrrAt10 > 0) = (r.recallAt10 > 0)
  BY <1>3, <1>4, <1>6, <1>9, <1>10
<1>15. (r.ndcgAt10 > 0) = (r.recallAt10 > 0) /\ r.ndcgAt10 <= One
  BY <1>3, <1>5, <1>6, <1>9
<1>16. r.ndcgAt10 = One => r.recallAt10 >= m * s
  <2>1. m <= c10 => m * s <= c10 * s
    BY <1>3, <1>7, <1>8
  <2>2. m * s \in Nat
    BY <1>7, <1>8
  <2> QED
    BY <1>5, <1>6, <1>8, <2>1, <2>2
<1> QED
  BY <1>11, <1>12, <1>13, <1>14, <1>15, <1>16 DEF MetricsFit, n, r, m, s

\* The hits without what an earlier hit has shown.
Fresh(hits) == [p \in DOMAIN hits |-> hits[p] \ UNION {hits[q] : q \in 1..(p - 1)}]

LEMMA FreshIsFirst ==
  ASSUME NEW hits, NEW n \in Nat, DOMAIN hits = 1..n, NEW e
  PROVE  FirstPlace(Fresh(hits), e) = FirstPlace(hits, e)
<1> DEFINE f == FirstPlace(hits, e)
           x == FirstPlace(Fresh(hits), e)
           new == Fresh(hits)
<1>1. /\ f \in 0..n /\ (f # 0 => e \in hits[f])
      /\ \A p \in 1..n : e \in hits[p] => f # 0 /\ f <= p
  BY FirstPlaceIs
<1>2. DOMAIN new = 1..n /\ \A p \in 1..n : new[p] = hits[p] \ UNION {hits[q] : q \in 1..(p - 1)}
  BY DEF Fresh
<1>3. /\ x \in 0..n /\ (x # 0 => e \in new[x])
      /\ \A p \in 1..n : e \in new[p] => x # 0 /\ x <= p
  <2> HIDE DEF new
  <2> QED
    BY <1>2, FirstPlaceIs DEF new
<1> HIDE DEF f, x, new
<1>4. \A p \in 1..n : e \in new[p] <=> e \in hits[p] /\ \A q \in 1..(p - 1) : e \notin hits[q]
  BY <1>2
<1>5. \A p \in 1..n : e \in new[p] <=> p = f
  <2> SUFFICES ASSUME NEW p \in 1..n
               PROVE  e \in new[p] <=> p = f
    OBVIOUS
  <2>1. ASSUME e \in new[p]
        PROVE  p = f
    <3>1. f # 0 /\ f <= p /\ e \in hits[f]
      BY <1>1, <1>4, <2>1
    <3>2. f < p => f \in 1..(p - 1)
      BY <1>1, <3>1
    <3> QED
      BY <1>1, <1>4, <2>1, <3>1, <3>2
  <2>2. ASSUME p = f
        PROVE  e \in new[p]
    <3>1. e \in hits[p] /\ \A q \in 1..n : e \in hits[q] => p <= q
      BY <1>1, <2>2
    <3>2. \A q \in 1..(p - 1) : q \in 1..n /\ ~(p <= q)
      OBVIOUS
    <3> QED
      BY <1>4, <3>1, <3>2
  <2> QED
    BY <2>1, <2>2
<1>6. CASE f = 0
  <2>1. ASSUME x # 0
        PROVE  FALSE
    <3>1. x \in 1..n /\ e \in new[x]
      BY <1>3, <2>1
    <3>2. x = f
      BY <1>5, <3>1
    <3> QED
      BY <1>6, <2>1, <3>2
  <2> QED
    BY <1>6, <2>1 DEF f, x, new
<1>7. CASE f # 0
  <2>1. f \in 1..n
    BY <1>1, <1>7
  <2>2. x # 0 /\ x \in 1..n
    BY <1>3, <1>5, <2>1
  <2>3. e \in new[x]
    BY <1>3, <2>2
  <2> QED
    BY <1>5, <2>2, <2>3 DEF f, x, new
<1> QED
  BY <1>6, <1>7 DEF f, x

LEMMA FreshEarnsTheSame ==
  ASSUME NEW in \in EvidenceInputs
  PROVE  evaluateEvidence(Fresh(in.hits), in.wanted) = evaluateEvidence(in.hits, in.wanted)
<1> DEFINE n == in.wanted
           hits == in.hits
           new == Fresh(hits)
<1>1. Len(hits) \in Nat /\ DOMAIN hits = 1..Len(hits)
  BY EvidenceIs
<1>2. \A e : FirstPlace(new, e) = FirstPlace(hits, e)
  BY <1>1, FreshIsFirst
<1> HIDE DEF n, hits, new
<1>3. PlacesFound(new, n) = PlacesFound(hits, n)
  BY <1>2 DEF PlacesFound
<1>4. ShownBy(new, n, 5) = ShownBy(hits, n, 5) /\ ShownBy(new, n, 10) = ShownBy(hits, n, 10)
  BY <1>2 DEF ShownBy
<1>5. NewPlaces(new, n) = NewPlaces(hits, n)
  BY <1>2 DEF NewPlaces
<1>6. FirstFound(new, n) = FirstFound(hits, n)
  BY <1>3 DEF FirstFound
<1>7. ndcgAt10(new, n) = ndcgAt10(hits, n)
  BY <1>5 DEF ndcgAt10
<1>8. evaluateEvidence(new, n) = evaluateEvidence(hits, n)
  BY <1>4, <1>6, <1>7, EvaluateIs
<1> QED
  BY <1>8 DEF n, hits, new

\* The numbers of a group: of its attempts, the failed ones, those that were
\* planned, those that took the expected route, and those that were scored.
Planned(results) == {i \in DOMAIN results : ~results[i].routeError}
Correct(results) == {i \in DOMAIN results : ~results[i].routeError /\ results[i].expected = results[i].actual}
Counted(results) == {i \in DOMAIN results : ~results[i].failed /\ results[i].case.wanted > 0}
Erred(results) == {i \in DOMAIN results : results[i].failed}

LEMMA RouteCounts ==
  ASSUME NEW results
  PROVE  /\ summarizeRoute(results).evaluated = Cardinality(Planned(results))
         /\ summarizeRoute(results).correct = Cardinality(Correct(results))
<1> DEFINE good == RestrictValues(results, LAMBDA r : ~r.routeError)
           right == {i \in DOMAIN good : good[i].expected = good[i].actual}
<1>1. DOMAIN good = Planned(results) /\ \A i \in DOMAIN good : good[i] = results[i]
  BY DEF RestrictValues, Restrict, Planned
<1>2. summarizeRoute(results).evaluated = Cardinality(DOMAIN good)
  BY DEF summarizeRoute, Number
<1>3. summarizeRoute(results).correct = Cardinality(right)
  BY DEF summarizeRoute, CountIf
<1> HIDE DEF good
<1>4. right = Correct(results)
  BY <1>1 DEF Correct, Planned
<1> QED
  BY <1>1, <1>2, <1>3, <1>4

LEMMA RetrievalCounts ==
  ASSUME NEW results
  PROVE  summarizeRetrieval(results).evaluated = Cardinality(Counted(results))
<1> DEFINE good == RestrictValues(results, LAMBDA r : ~r.failed)
           scored == RestrictValues(good, LAMBDA r : r.case.wanted > 0)
<1>1. DOMAIN good = {i \in DOMAIN results : ~results[i].failed} /\ \A i \in DOMAIN good : good[i] = results[i]
  BY DEF RestrictValues, Restrict
<1>2. DOMAIN scored = {i \in DOMAIN good : good[i].case.wanted > 0}
  BY DEF RestrictValues, Restrict
<1>3. summarizeRetrieval(results).evaluated = Cardinality(DOMAIN scored)
  BY DEF summarizeRetrieval, Number
<1> HIDE DEF good, scored
<1>4. DOMAIN scored = Counted(results)
  BY <1>1, <1>2 DEF Counted
<1> QED
  BY <1>3, <1>4

LEMMA GroupIs ==
  ASSUME NEW results
  PROVE  LET g == GroupSummary(results)
         IN  /\ g.attempts = Cardinality(DOMAIN results)
             /\ g.errors = Cardinality(Erred(results))
             /\ g.route.evaluated = Cardinality(Planned(results))
             /\ g.route.correct = Cardinality(Correct(results))
             /\ g.retrieval.evaluated = Cardinality(Counted(results))
<1> DEFINE g == GroupSummary(results)
<1>1. g.attempts = Cardinality(DOMAIN results)
  BY DEF GroupSummary, Number
<1>2. g.errors = Cardinality(Erred(results))
  BY DEF GroupSummary, CountIf, Erred
<1>3. g.route = summarizeRoute(results) /\ g.retrieval = summarizeRetrieval(results)
  BY DEF GroupSummary
<1> HIDE DEF g
<1> QED
  BY <1>1, <1>2, <1>3, RouteCounts, RetrievalCounts DEF g

\* The results of the attempts.
Ran(attempts) == [i \in DOMAIN attempts |-> runCase(attempts[i])]

LEMMA RanIs ==
  ASSUME NEW in \in AttemptInputs
  PROVE  LET results == Ran(in)
         IN  /\ IsFiniteSet(DOMAIN results)
             /\ \A i \in DOMAIN results :
                  /\ results[i].expected \in RouteTypes /\ results[i].actual \in RouteTypes
                  /\ results[i].routeError \in BOOLEAN /\ results[i].failed \in BOOLEAN
<1> DEFINE results == Ran(in)
<1>1. /\ Len(in) \in Nat /\ DOMAIN in = 1..Len(in)
      /\ \A i \in DOMAIN in : in[i].case.expected \in RouteTypes /\ in[i].plan \in RouteTypes \cup {"error"}
  BY EvaluationAssumption
<1>2. "direct" \in RouteTypes
  BY EvaluationAssumption
<1>3. IsFiniteSet(DOMAIN in)
  BY <1>1, FS_Interval
<1>4. DOMAIN results = DOMAIN in /\ \A i \in DOMAIN in : results[i] = runCase(in[i])
  BY DEF Ran
<1>5. \A i \in DOMAIN in :
        /\ runCase(in[i]).expected \in RouteTypes /\ runCase(in[i]).actual \in RouteTypes
        /\ runCase(in[i]).routeError \in BOOLEAN /\ runCase(in[i]).failed \in BOOLEAN
  BY <1>1, <1>2 DEF runCase, Failed
<1> HIDE DEF results
<1> QED
  BY <1>3, <1>4, <1>5 DEF results

\* The attempts of S with expected route t.
OfType(results, S, t) == {i \in S : results[i].expected = t}

\* What is counted of every attempt adds up over the groups.
LEMMA PartsAddUp ==
  ASSUME NEW results, IsFiniteSet(DOMAIN results),
         \A i \in DOMAIN results : results[i].expected \in RouteTypes,
         NEW D \in SUBSET DOMAIN results, NEW f,
         \A t \in RouteTypes : f[t] = Cardinality(OfType(results, D, t))
  PROVE  Total(f, RouteTypes) = Cardinality(D)
<1> DEFINE c == [i \in D |-> results[i].expected]
<1>1. IsFiniteSet(D)
  BY FS_Subset
<1>2. IsFiniteSet(RouteTypes)
  BY EvaluationAssumption
<1>3. \A t : Class(D, c, t) = OfType(results, D, t)
  BY DEF Class, OfType
<1>4. Within(D, c, RouteTypes) = D
  BY DEF Within
<1>5. \A t \in RouteTypes : f[t] = Cardinality(Class(D, c, t))
  BY <1>3
<1> HIDE DEF c
<1>6. Total(f, RouteTypes) = Cardinality(Within(D, c, RouteTypes))
  BY <1>1, <1>2, <1>5, ClassesAddUp
<1> QED
  BY <1>4, <1>6

LEMMA FilteredIs ==
  ASSUME NEW results, NEW t
  PROVE  LET part == filterResults(results, t)
             OfGroup(S) == OfType(results, S, t)
         IN  /\ DOMAIN part = OfGroup(DOMAIN results)
             /\ \A i \in DOMAIN part : part[i] = results[i]
             /\ Planned(part) = OfGroup(Planned(results)) /\ Correct(part) = OfGroup(Correct(results))
             /\ Counted(part) = OfGroup(Counted(results)) /\ Erred(part) = OfGroup(Erred(results))
<1> DEFINE part == filterResults(results, t)
           OfGroup(S) == OfType(results, S, t)
<1>1. DOMAIN part = OfGroup(DOMAIN results) /\ \A i \in DOMAIN part : part[i] = results[i]
  BY DEF filterResults, RestrictValues, Restrict, OfType
<1> HIDE DEF part
<1>2. Planned(part) = OfGroup(Planned(results)) /\ Erred(part) = OfGroup(Erred(results))
  BY <1>1 DEF Planned, Erred, OfType
<1>3. Correct(part) = OfGroup(Correct(results)) /\ Counted(part) = OfGroup(Counted(results))
  BY <1>1 DEF Correct, Counted, OfType
<1> QED
  BY <1>1, <1>2, <1>3 DEF part

\* What GroupsAddUp says of one summary.
GroupsFit(r) ==
  LET Sum(OfGroup(_)) == MapThenSumSet(LAMBDA t : OfGroup(r.byRoute[t]), RouteTypes)
  IN  /\ r.total.attempts = Sum(LAMBDA g : g.attempts)
      /\ r.total.errors = Sum(LAMBDA g : g.errors)
      /\ r.total.route.evaluated = Sum(LAMBDA g : g.route.evaluated)
      /\ r.total.route.correct = Sum(LAMBDA g : g.route.correct)
      /\ r.total.retrieval.evaluated = Sum(LAMBDA g : g.retrieval.evaluated)

LEMMA GroupsDoFit ==
  ASSUME NEW in \in AttemptInputs
  PROVE  GroupsFit(Summarize(in))
<1> DEFINE r == Summarize(in)
           results == Ran(in)
           P(t) == filterResults(results, t)
           OfGroup(S, t) == OfType(results, S, t)
           attempts == [t \in RouteTypes |-> r.byRoute[t].attempts]
           errors == [t \in RouteTypes |-> r.byRoute[t].errors]
           evaluated == [t \in RouteTypes |-> r.byRoute[t].route.evaluated]
           correct == [t \in RouteTypes |-> r.byRoute[t].route.correct]
           scored == [t \in RouteTypes |-> r.byRoute[t].retrieval.evaluated]
<1>1. r.total = GroupSummary(results) /\ r.byRoute = [t \in RouteTypes |-> GroupSummary(P(t))]
  BY DEF Summarize, Ran
<1> HIDE DEF r
<1>2. /\ MapThenSumSet(LAMBDA t : r.byRoute[t].attempts, RouteTypes) = Total(attempts, RouteTypes)
      /\ MapThenSumSet(LAMBDA t : r.byRoute[t].errors, RouteTypes) = Total(errors, RouteTypes)
      /\ MapThenSumSet(LAMBDA t : r.byRoute[t].route.evaluated, RouteTypes) = Total(evaluated, RouteTypes)
      /\ MapThenSumSet(LAMBDA t : r.byRoute[t].route.correct, RouteTypes) = Total(correct, RouteTypes)
      /\ MapThenSumSet(LAMBDA t : r.byRoute[t].retrieval.evaluated, RouteTypes) = Total(scored, RouteTypes)
  <2>1. MapThenSumSet(LAMBDA t : r.byRoute[t].attempts, RouteTypes) = Total(attempts, RouteTypes)
    BY DEF Total, MapThenSumSet, MapThenFoldSet
  <2>2. MapThenSumSet(LAMBDA t : r.byRoute[t].errors, RouteTypes) = Total(errors, RouteTypes)
    BY DEF Total, MapThenSumSet, MapThenFoldSet
  <2>3. MapThenSumSet(LAMBDA t : r.byRoute[t].route.evaluated, RouteTypes) = Total(evaluated, RouteTypes)
    BY DEF Total, MapThenSumSet, MapThenFoldSet
  <2>4. MapThenSumSet(LAMBDA t : r.byRoute[t].route.correct, RouteTypes) = Total(correct, RouteTypes)
    BY DEF Total, MapThenSumSet, MapThenFoldSet
  <2>5. MapThenSumSet(LAMBDA t : r.byRoute[t].retrieval.evaluated, RouteTypes) = Total(scored, RouteTypes)
    BY DEF Total, MapThenSumSet, MapThenFoldSet
  <2> HIDE DEF attempts, errors, evaluated, correct, scored
  <2> QED
    BY <2>1, <2>2, <2>3, <2>4, <2>5
<1>3. /\ IsFiniteSet(DOMAIN results)
      /\ \A i \in DOMAIN results : results[i].expected \in RouteTypes
  BY RanIs
<1> HIDE DEF results, P
<1>4. \A t \in RouteTypes :
        /\ attempts[t] = Cardinality(OfGroup(DOMAIN results, t)) /\ errors[t] = Cardinality(OfGroup(Erred(results), t))
        /\ evaluated[t] = Cardinality(OfGroup(Planned(results), t))
        /\ correct[t] = Cardinality(OfGroup(Correct(results), t))
        /\ scored[t] = Cardinality(OfGroup(Counted(results), t))
  <2> SUFFICES ASSUME NEW t \in RouteTypes
               PROVE  /\ attempts[t] = Cardinality(OfGroup(DOMAIN results, t))
                      /\ errors[t] = Cardinality(OfGroup(Erred(results), t))
                      /\ evaluated[t] = Cardinality(OfGroup(Planned(results), t))
                      /\ correct[t] = Cardinality(OfGroup(Correct(results), t))
                      /\ scored[t] = Cardinality(OfGroup(Counted(results), t))
    OBVIOUS
  <2> DEFINE g == r.byRoute[t]
  <2>1. g = GroupSummary(P(t))
    BY <1>1
  <2>2. /\ attempts[t] = g.attempts /\ errors[t] = g.errors /\ evaluated[t] = g.route.evaluated
        /\ correct[t] = g.route.correct /\ scored[t] = g.retrieval.evaluated
    OBVIOUS
  <2> HIDE DEF g, attempts, errors, evaluated, correct, scored
  <2>3. /\ g.attempts = Cardinality(DOMAIN P(t)) /\ g.errors = Cardinality(Erred(P(t)))
        /\ g.route.evaluated = Cardinality(Planned(P(t))) /\ g.route.correct = Cardinality(Correct(P(t)))
        /\ g.retrieval.evaluated = Cardinality(Counted(P(t)))
    BY <2>1, GroupIs
  <2>4. /\ DOMAIN P(t) = OfGroup(DOMAIN results, t) /\ Erred(P(t)) = OfGroup(Erred(results), t)
        /\ Planned(P(t)) = OfGroup(Planned(results), t) /\ Correct(P(t)) = OfGroup(Correct(results), t)
        /\ Counted(P(t)) = OfGroup(Counted(results), t)
    BY FilteredIs DEF P
  <2> QED
    BY <2>2, <2>3, <2>4
<1> HIDE DEF attempts, errors, evaluated, correct, scored
<1>5. /\ Erred(results) \in SUBSET DOMAIN results /\ Planned(results) \in SUBSET DOMAIN results
      /\ Correct(results) \in SUBSET DOMAIN results /\ Counted(results) \in SUBSET DOMAIN results
      /\ DOMAIN results \in SUBSET DOMAIN results
  BY DEF Erred, Planned, Correct, Counted
<1>6. Total(attempts, RouteTypes) = Cardinality(DOMAIN results)
  BY <1>3, <1>4, <1>5, PartsAddUp
<1>7. Total(errors, RouteTypes) = Cardinality(Erred(results))
  BY <1>3, <1>4, <1>5, PartsAddUp
<1>8. Total(evaluated, RouteTypes) = Cardinality(Planned(results))
  BY <1>3, <1>4, <1>5, PartsAddUp
<1>9. Total(correct, RouteTypes) = Cardinality(Correct(results))
  BY <1>3, <1>4, <1>5, PartsAddUp
<1>10. Total(scored, RouteTypes) = Cardinality(Counted(results))
  BY <1>3, <1>4, <1>5, PartsAddUp
<1>11. /\ r.total.attempts = Cardinality(DOMAIN results) /\ r.total.errors = Cardinality(Erred(results))
       /\ r.total.route.evaluated = Cardinality(Planned(results))
       /\ r.total.route.correct = Cardinality(Correct(results))
       /\ r.total.retrieval.evaluated = Cardinality(Counted(results))
  BY <1>1, GroupIs
<1>12. GroupsFit(r)
  BY <1>2, <1>6, <1>7, <1>8, <1>9, <1>10, <1>11 DEF GroupsFit
<1> QED
  BY <1>12 DEF r

\* The planned attempts with expected route e that took route a, those of the
\* routes T that took a, and those of e that took a route of T.
Confused(results, e, a) == {i \in Planned(results) : results[i].expected = e /\ results[i].actual = a}
Taken(results, T, a) == {i \in Planned(results) : results[i].expected \in T /\ results[i].actual = a}
Taking(results, e, T) == {i \in Planned(results) : results[i].expected = e /\ results[i].actual \in T}
TypesOf(results) == {results[i].expected : i \in Planned(results)}

TypeF1(results, t) ==
  f1(Cardinality(Confused(results, t, t)),
     Total([e \in TypesOf(results) \ {t} |-> Cardinality(Confused(results, e, t))], TypesOf(results) \ {t}),
     Total([a \in RouteTypes \ {t} |-> Cardinality(Confused(results, t, a))], RouteTypes \ {t}))

\* Macro F1 and accuracy in terms of these.
LEMMA MacroIs ==
  ASSUME NEW results
  PROVE  LET present == TypesOf(results)
             r == summarizeRoute(results)
         IN  /\ r.macroF1 = IF present = {} THEN 0
                            ELSE Total([t \in present |-> TypeF1(results, t)], present) \div Cardinality(present)
             /\ r.accuracy = ratio(Cardinality(Correct(results)), Cardinality(Planned(results)))
<1> DEFINE good == RestrictValues(results, LAMBDA r : ~r.routeError)
           Confusion(e, a) == CountIf(good, LAMBDA r : r.expected = e /\ r.actual = a)
           present == {good[i].expected : i \in DOMAIN good}
           F1(t) == f1(Confusion(t, t),
                       MapThenSumSet(LAMBDA e : Confusion(e, t), present \ {t}),
                       MapThenSumSet(LAMBDA a : Confusion(t, a), RouteTypes \ {t}))
           correct == CountIf(good, LAMBDA r : r.expected = r.actual)
           r == summarizeRoute(results)
<1>1. /\ r.macroF1 = IF present = {} THEN 0 ELSE MapThenSumSet(F1, present) \div Cardinality(present)
      /\ r.accuracy = ratio(correct, Number(good))
  BY DEF summarizeRoute
<1> HIDE DEF r
<1>2. DOMAIN good = Planned(results) /\ \A i \in DOMAIN good : good[i] = results[i]
  BY DEF RestrictValues, Restrict, Planned
<1> HIDE DEF good
<1>3. \A e, a : Confusion(e, a) = Cardinality(Confused(results, e, a))
  <2>1. \A e, a : {i \in DOMAIN good : good[i].expected = e /\ good[i].actual = a} = Confused(results, e, a)
    BY <1>2 DEF Confused
  <2> QED
    BY <2>1 DEF CountIf
<1>4. correct = Cardinality(Correct(results)) /\ Number(good) = Cardinality(Planned(results))
  <2>1. {i \in DOMAIN good : good[i].expected = good[i].actual} = Correct(results)
    BY <1>2 DEF Correct, Planned
  <2> QED
    BY <1>2, <2>1 DEF CountIf, Number
<1>5. present = TypesOf(results)
  BY <1>2 DEF TypesOf
<1> HIDE DEF Confusion, correct, present
<1>6. ASSUME NEW t
      PROVE  F1(t) = TypeF1(results, t)
  <2> DEFINE S == present \ {t}
             T == RouteTypes \ {t}
             fp == MapThenSumSet(LAMBDA e : Confusion(e, t), S)
             fn == MapThenSumSet(LAMBDA a : Confusion(t, a), T)
  <2>1. fp = Total([e \in S |-> Confusion(e, t)], S)
    BY DEF Total, MapThenSumSet, MapThenFoldSet
  <2>2. fn = Total([a \in T |-> Confusion(t, a)], T)
    BY DEF Total, MapThenSumSet, MapThenFoldSet
  <2>3. [e \in S |-> Confusion(e, t)] = [e \in S |-> Cardinality(Confused(results, e, t))]
    BY <1>3
  <2>4. [a \in T |-> Confusion(t, a)] = [a \in T |-> Cardinality(Confused(results, t, a))]
    BY <1>3
  <2>5. F1(t) = f1(Confusion(t, t), fp, fn)
    OBVIOUS
  <2> HIDE DEF fp, fn, F1
  <2>6. F1(t) = f1(Cardinality(Confused(results, t, t)),
                   Total([e \in S |-> Cardinality(Confused(results, e, t))], S),
                   Total([a \in T |-> Cardinality(Confused(results, t, a))], T))
    BY <1>3, <2>1, <2>2, <2>3, <2>4, <2>5
  <2> QED
    BY <1>5, <2>6 DEF TypeF1
<1> HIDE DEF F1
<1>7. MapThenSumSet(F1, present) = Total([t \in present |-> F1(t)], present)
  BY DEF Total, MapThenSumSet, MapThenFoldSet
<1>8. [t \in present |-> F1(t)] = [t \in present |-> TypeF1(results, t)]
  BY <1>6
<1>9. r.macroF1 = IF present = {} THEN 0
                  ELSE Total([t \in present |-> TypeF1(results, t)], present) \div Cardinality(present)
  BY <1>1, <1>7, <1>8
<1>10. r.accuracy = ratio(Cardinality(Correct(results)), Cardinality(Planned(results)))
  BY <1>1, <1>4
<1> QED
  BY <1>5, <1>9, <1>10 DEF r

\* A ratio of a part is full when the part is the whole.
LEMMA RatioIs ==
  ASSUME NEW c \in Nat, NEW d \in Nat, d > 0, c <= d
  PROVE  ratio(c, d) \in Nat /\ ratio(c, d) <= One /\ (ratio(c, d) = One <=> c = d)
<1> DEFINE q == (c * One) \div d
<1>1. One \in Nat /\ One >= 72
  BY UnitIsLarge
<1>2. c * One \in Nat /\ d * One \in Nat
  BY <1>1
<1>3. q \in Nat /\ \A k \in Nat : q >= k <=> c * One >= d * k
  BY <1>2, QuotientIs
<1>4. ratio(c, d) = q
  BY DEF ratio
<1> HIDE DEF q
<1>5. c * One <= d * One /\ (c < d => c * One < d * One)
  BY <1>1
<1>6. d * (One + 1) = d * One + d
  BY <1>1
<1>7. q >= One <=> c = d
  <2>1. q >= One <=> c * One >= d * One
    BY <1>1, <1>3
  <2> QED
    BY <1>2, <1>5, <2>1
<1>8. ~(q >= One + 1)
  <2>1. q >= One + 1 <=> c * One >= d * (One + 1)
    BY <1>1, <1>3
  <2> QED
    BY <1>2, <1>5, <1>6, <2>1
<1> QED
  BY <1>1, <1>3, <1>4, <1>7, <1>8

\* A mean of values up to One is full when all of them are.
LEMMA MeanIs ==
  ASSUME NEW S, IsFiniteSet(S), S # {}, NEW f, \A x \in S : f[x] \in Nat /\ f[x] <= One
  PROVE  Total(f, S) \div Cardinality(S) = One <=> \A x \in S : f[x] = One
<1> DEFINE d == Cardinality(S)
           a == Total(f, S)
           q == a \div d
<1>1. One \in Nat /\ One >= 72
  BY UnitIsLarge
<1>2. d \in Nat \ {0}
  <2>1. d \in Nat /\ d # 0
    BY FS_CardinalityType, FS_EmptySet
  <2> QED
    BY <2>1
<1>3. a \in Nat
  BY TotalTyped
<1>4. a <= One * d
  BY <1>1, TotalHigh
<1>5. (\A x \in S : f[x] = One) => One * d <= a
  BY <1>1, TotalLow
<1>6. ASSUME NEW y \in S, f[y] # One
      PROVE  a < One * d
  <2> DEFINE T == S \ {y}
             b == Total(f, T)
  <2>1. a = f[y] + b
    BY TotalTakes
  <2>2. IsFiniteSet(T) /\ Cardinality(T) = d - 1
    BY FS_RemoveElement
  <2>3. \A x \in T : f[x] \in Nat /\ f[x] <= One
    OBVIOUS
  <2>4. b \in Nat /\ b <= One * Cardinality(T)
    <3> HIDE DEF T
    <3> QED
      BY <1>1, <2>2, <2>3, TotalTyped, TotalHigh
  <2>5. f[y] \in Nat /\ f[y] <= One
    OBVIOUS
  <2> HIDE DEF T, b, a, d
  <2>6. One * (d - 1) = One * d - One /\ One * d \in Nat
    BY <1>1, <1>2
  <2> QED
    BY <1>1, <1>2, <1>3, <1>6, <2>1, <2>2, <2>4, <2>5, <2>6
<1> HIDE DEF d, a
<1>7. q \in Nat /\ \A k \in Nat : q >= k <=> a >= d * k
  BY <1>2, <1>3, QuotientIs
<1> HIDE DEF q
<1>8. d * One = One * d /\ d * (One + 1) = d * One + d /\ d * One \in Nat
  BY <1>1, <1>2
<1>9. q >= One <=> a >= d * One
  BY <1>1, <1>7
<1>10. ~(q >= One + 1)
  <2>1. q >= One + 1 <=> a >= d * (One + 1)
    BY <1>1, <1>7
  <2> QED
    BY <1>2, <1>3, <1>4, <1>8, <2>1
<1>11. q = One <=> a >= d * One
  BY <1>1, <1>7, <1>9, <1>10
<1>12. a >= d * One <=> \A x \in S : f[x] = One
  BY <1>3, <1>5, <1>6, <1>8
<1> QED
  BY <1>11, <1>12 DEF q, a, d

\* The results of a group, as far as its figures go.
ResultsTyped(results) ==
  /\ IsFiniteSet(DOMAIN results)
  /\ \A i \in DOMAIN results : results[i].expected \in RouteTypes /\ results[i].actual \in RouteTypes

\* The F1 of a route type that was expected: full when the type was taken when
\* it was expected, and then only.
LEMMA TypeF1Is ==
  ASSUME NEW results, ResultsTyped(results), NEW t \in TypesOf(results)
  PROVE  LET f == TypeF1(results, t)
         IN  /\ f \in Nat /\ f <= One
             /\ f = One <=> \A i \in Planned(results) :
                              results[i].expected = t <=> results[i].actual = t
<1> DEFINE E == Planned(results)
           S == TypesOf(results) \ {t}
           T == RouteTypes \ {t}
           taken == [e \in S |-> Cardinality(Confused(results, e, t))]
           taking == [a \in T |-> Cardinality(Confused(results, t, a))]
           A == Confused(results, t, t)
           P == Taken(results, S, t)
           N == Taking(results, t, T)
           tp == Cardinality(A)
           fp == Cardinality(P)
           fn == Cardinality(N)
           f == TypeF1(results, t)
<1>1. E \subseteq DOMAIN results /\ A \subseteq E /\ P \subseteq E /\ N \subseteq E
  BY DEF Planned, Confused, Taken, Taking
<1>2. IsFiniteSet(DOMAIN results) /\ IsFiniteSet(RouteTypes)
  BY EvaluationAssumption DEF ResultsTyped
<1>3. TypesOf(results) \subseteq RouteTypes
  BY DEF TypesOf, ResultsTyped, Planned
<1>4. IsFiniteSet(E) /\ IsFiniteSet(A) /\ IsFiniteSet(P) /\ IsFiniteSet(N)
  <2> HIDE DEF E, A, P, N
  <2>1. IsFiniteSet(E)
    BY <1>1, <1>2, FS_Subset
  <2> QED
    BY <1>1, <2>1, FS_Subset
<1>5. IsFiniteSet(S) /\ IsFiniteSet(T)
  <2>1. S \subseteq RouteTypes /\ T \subseteq RouteTypes
    BY <1>3
  <2> HIDE DEF S, T
  <2> QED
    BY <1>2, <2>1, FS_Subset
<1>6. tp \in Nat /\ fp \in Nat /\ fn \in Nat
  BY <1>4, FS_CardinalityType
<1>7. Total(taken, S) = fp
  <2> DEFINE D == {i \in E : results[i].actual = t}
             c == [i \in D |-> results[i].expected]
  <2>1. IsFiniteSet(D)
    BY <1>4, FS_Subset
  <2>2. \A e : Class(D, c, e) = Confused(results, e, t)
    BY DEF Class, Confused
  <2>3. Within(D, c, S) = P
    BY DEF Within, Taken
  <2>4. \A e \in S : taken[e] = Cardinality(Class(D, c, e))
    BY <2>2
  <2> HIDE DEF S, D, c, taken
  <2>5. Total(taken, S) = Cardinality(Within(D, c, S))
    BY <1>5, <2>1, <2>4, ClassesAddUp
  <2> QED
    BY <2>3, <2>5
<1>8. Total(taking, T) = fn
  <2> DEFINE D == {i \in E : results[i].expected = t}
             c == [i \in D |-> results[i].actual]
  <2>1. IsFiniteSet(D)
    BY <1>4, FS_Subset
  <2>2. \A a : Class(D, c, a) = Confused(results, t, a)
    BY DEF Class, Confused
  <2>3. Within(D, c, T) = N
    BY DEF Within, Taking
  <2>4. \A a \in T : taking[a] = Cardinality(Class(D, c, a))
    BY <2>2
  <2> HIDE DEF T, D, c, taking
  <2>5. Total(taking, T) = Cardinality(Within(D, c, T))
    BY <1>5, <2>1, <2>4, ClassesAddUp
  <2> QED
    BY <2>3, <2>5
<1>9. f = f1(tp, fp, fn)
  BY <1>7, <1>8 DEF TypeF1
<1>10. A # {} \/ N # {}
  <2>1. PICK i \in E : results[i].expected = t
    BY DEF TypesOf
  <2>2. results[i].actual \in RouteTypes
    BY <1>1 DEF ResultsTyped
  <2> QED
    BY <2>1, <2>2 DEF Confused, Taking
<1>11. P = {} /\ N = {} <=> \A i \in E : results[i].expected = t <=> results[i].actual = t
  <2>1. \A i \in E : results[i].expected \in TypesOf(results) /\ results[i].actual \in RouteTypes
    BY <1>1 DEF ResultsTyped, TypesOf
  <2> QED
    BY <2>1 DEF Taken, Taking
<1> HIDE DEF E, S, T, A, P, N, f
<1>12. (tp = 0 <=> A = {}) /\ (fp = 0 <=> P = {}) /\ (fn = 0 <=> N = {})
  BY <1>4, FS_EmptySet
<1> DEFINE c == 2 * tp
           d == 2 * tp + fp + fn
<1>13. f = ratio(c, d)
  BY <1>9 DEF f1
<1> HIDE DEF tp, fp, fn
<1>14. c \in Nat /\ d \in Nat /\ d > 0 /\ c <= d /\ (c = d <=> fp = 0 /\ fn = 0)
  BY <1>6, <1>10, <1>12
<1> HIDE DEF c, d
<1>15. f \in Nat /\ f <= One /\ (f = One <=> c = d)
  BY <1>13, <1>14, RatioIs
<1>16. f = One <=> \A i \in E : results[i].expected = t <=> results[i].actual = t
  BY <1>11, <1>12, <1>14, <1>15
<1> QED
  BY <1>15, <1>16 DEF f, E

\* What PerfectTogether says of one group.
PerfectFit(g) == g.route.evaluated > 0 => (g.route.macroF1 = One) = (g.route.accuracy = One)

LEMMA PerfectDoesFit ==
  ASSUME NEW results, ResultsTyped(results)
  PROVE  PerfectFit(GroupSummary(results))
<1> DEFINE E == Planned(results)
           C == Correct(results)
           present == TypesOf(results)
           F == [t \in present |-> TypeF1(results, t)]
           r == summarizeRoute(results)
           g == GroupSummary(results)
<1>1. g.route = r
  BY DEF GroupSummary
<1>2. r.evaluated = Cardinality(E)
  BY RouteCounts
<1>3. /\ r.macroF1 = IF present = {} THEN 0 ELSE Total(F, present) \div Cardinality(present)
      /\ r.accuracy = ratio(Cardinality(C), Cardinality(E))
  BY MacroIs
<1>4. IsFiniteSet(DOMAIN results) /\ IsFiniteSet(RouteTypes)
  BY EvaluationAssumption DEF ResultsTyped
<1>5. E \subseteq DOMAIN results /\ C \subseteq E /\ present \subseteq RouteTypes
  BY DEF Planned, Correct, TypesOf, ResultsTyped
<1>6. \A t \in present : /\ F[t] \in Nat /\ F[t] <= One
                         /\ F[t] = One <=> \A i \in E : results[i].expected = t <=> results[i].actual = t
  <2> SUFFICES ASSUME NEW t \in present
               PROVE  /\ F[t] \in Nat /\ F[t] <= One
                      /\ F[t] = One <=> \A i \in E : results[i].expected = t <=> results[i].actual = t
    OBVIOUS
  <2>1. F[t] = TypeF1(results, t)
    OBVIOUS
  <2> HIDE DEF F
  <2> QED
    BY <2>1, TypeF1Is
<1>7. \A i \in E : results[i].expected \in present
  BY DEF TypesOf
<1>8. C = E <=> \A i \in E : results[i].expected = results[i].actual
  BY DEF Correct, Planned
<1>9. E # {} <=> present # {}
  BY DEF TypesOf
<1> HIDE DEF E, C, present, F, r, g
<1>10. (\A t \in present : F[t] = One) <=> C = E
  <2>1. ASSUME \A t \in present : F[t] = One, NEW i \in E
        PROVE  results[i].expected = results[i].actual
    <3>1. results[i].expected \in present
      BY <1>7
    <3> QED
      BY <1>6, <2>1, <3>1
  <2>2. ASSUME \A i \in E : results[i].expected = results[i].actual, NEW t \in present
        PROVE  F[t] = One
    BY <1>6, <2>2
  <2> QED
    BY <1>8, <2>1, <2>2
<1>11. IsFiniteSet(E) /\ IsFiniteSet(present)
  BY <1>4, <1>5, FS_Subset
<1>12. /\ Cardinality(C) \in Nat /\ Cardinality(E) \in Nat /\ Cardinality(C) <= Cardinality(E)
       /\ Cardinality(C) = Cardinality(E) <=> C = E
       /\ Cardinality(E) > 0 => E # {}
  <2>1. IsFiniteSet(C) /\ Cardinality(C) <= Cardinality(E) /\ (Cardinality(C) = Cardinality(E) => C = E)
    BY <1>5, <1>11, FS_Subset
  <2>2. Cardinality(C) \in Nat /\ Cardinality(E) \in Nat /\ (Cardinality(E) = 0 <=> E = {})
    BY <1>11, <2>1, FS_CardinalityType, FS_EmptySet
  <2> QED
    BY <2>1, <2>2
<1>13. ASSUME r.evaluated > 0
       PROVE  (r.macroF1 = One) = (r.accuracy = One)
  <2>1. Cardinality(E) > 0 /\ present # {}
    BY <1>2, <1>9, <1>12, <1>13
  <2>2. r.accuracy = One <=> C = E
    BY <1>3, <1>12, <2>1, RatioIs
  <2>3. Total(F, present) \div Cardinality(present) = One <=> \A t \in present : F[t] = One
    BY <1>6, <1>11, <2>1, MeanIs
  <2>4. r.macroF1 = One <=> C = E
    BY <1>3, <1>10, <2>1, <2>3
  <2> QED
    BY <2>2, <2>4
<1> QED
  BY <1>1, <1>13 DEF PerfectFit, g, r

LEMMA PerfectDoFit ==
  ASSUME NEW in \in AttemptInputs
  PROVE  \A g \in {Summarize(in).total} \cup {Summarize(in).byRoute[t] : t \in RouteTypes} : PerfectFit(g)
<1> DEFINE results == Ran(in)
           P(t) == filterResults(results, t)
<1>1. Summarize(in).total = GroupSummary(results)
      /\ Summarize(in).byRoute = [t \in RouteTypes |-> GroupSummary(P(t))]
  BY DEF Summarize, Ran
<1>2. ResultsTyped(results)
  BY RanIs DEF ResultsTyped
<1>3. \A t : ResultsTyped(P(t))
  <2> SUFFICES ASSUME NEW t
               PROVE  ResultsTyped(P(t))
    OBVIOUS
  <2>1. DOMAIN P(t) = OfType(results, DOMAIN results, t) /\ \A i \in DOMAIN P(t) : P(t)[i] = results[i]
    BY FilteredIs
  <2>2. DOMAIN P(t) \subseteq DOMAIN results
    BY <2>1 DEF OfType
  <2> HIDE DEF P, results
  <2>3. IsFiniteSet(DOMAIN P(t))
    BY <1>2, <2>2, FS_Subset DEF ResultsTyped
  <2>4. \A i \in DOMAIN P(t) : P(t)[i].expected \in RouteTypes /\ P(t)[i].actual \in RouteTypes
    BY <1>2, <2>1, <2>2 DEF ResultsTyped
  <2> QED
    BY <2>3, <2>4 DEF ResultsTyped
<1> HIDE DEF results, P
<1> QED
  BY <1>1, <1>2, <1>3, PerfectDoesFit

\* The retrieval figures depend on the results without an error alone.
OfWorking(results) ==
  LET scored == RestrictValues(results, LAMBDA r : r.case.wanted > 0)
      Average(m) == IF DOMAIN scored = {} THEN 0
                    ELSE MapThenSumSet(LAMBDA i : scored[i].metrics[m], DOMAIN scored) \div Number(scored)
      negatives == CountIf(results, LAMBDA r : r.case.negative)
  IN  [evaluated |-> Number(scored), negatives |-> negatives,
       noHits |-> ratio(CountIf(results, LAMBDA r : r.noHit), negatives),
       averages |-> [m \in MetricNames |-> Average(m)]]

LEMMA RetrievalOfWorking ==
  ASSUME NEW all
  PROVE  summarizeRetrieval(all) = OfWorking(RestrictValues(all, LAMBDA r : ~r.failed))
BY DEF summarizeRetrieval, OfWorking

\* The attempts whose plan and search both worked.
Working(in) == RestrictValues(in, LAMBDA a : a.plan # "error" /\ (a.plan = "none" \/ a.search # "fails"))

\* What FailuresAreNotMisses says of one summary.
FailuresFit(in, r) ==
  /\ r.total.retrieval = Summarize(Working(in)).total.retrieval
  /\ r.total.retrieval.evaluated = CountIf(Working(in), LAMBDA a : a.case.wanted > 0)

LEMMA FailuresDoFit ==
  ASSUME NEW in
  PROVE  FailuresFit(in, Summarize(in))
<1> DEFINE works == Working(in)
           all == Ran(in)
           some == Ran(works)
           ofAll == RestrictValues(all, LAMBDA r : ~r.failed)
           ofSome == RestrictValues(some, LAMBDA r : ~r.failed)
           W == {i \in DOMAIN in : ~Failed(in[i])}
<1>1. works = [i \in W |-> in[i]]
  <2>1. {i \in DOMAIN in : in[i].plan # "error" /\ (in[i].plan = "none" \/ in[i].search # "fails")} = W
    BY DEF Failed
  <2> HIDE DEF W
  <2> QED
    BY <2>1 DEF Working, RestrictValues, Restrict
<1>2. Summarize(in).total.retrieval = summarizeRetrieval(all)
      /\ Summarize(works).total.retrieval = summarizeRetrieval(some)
  BY DEF Summarize, GroupSummary, Ran
<1>3. \A a : runCase(a).failed = Failed(a) /\ runCase(a).case = a.case
  BY DEF runCase
<1>4. DOMAIN all = DOMAIN in /\ \A i \in DOMAIN in : all[i] = runCase(in[i])
  BY DEF Ran
<1>5. DOMAIN some = W /\ \A i \in W : some[i] = runCase(in[i])
  <2>1. DOMAIN works = W /\ \A i \in W : works[i] = in[i]
    BY <1>1
  <2> HIDE DEF works, W
  <2> QED
    BY <2>1 DEF Ran
<1>6. ofAll = [i \in W |-> runCase(in[i])]
  <2> HIDE DEF all
  <2>1. {i \in DOMAIN all : ~all[i].failed} = W
    BY <1>3, <1>4
  <2>2. ofAll = [i \in W |-> all[i]]
    BY <2>1 DEF RestrictValues, Restrict
  <2> QED
    BY <1>4, <2>2
<1>7. ofSome = [i \in W |-> runCase(in[i])]
  <2> HIDE DEF some
  <2>1. \A i \in W : ~Failed(in[i])
    OBVIOUS
  <2>2. {i \in DOMAIN some : ~some[i].failed} = W
    <3> HIDE DEF W
    <3> QED
      BY <1>3, <1>5, <2>1
  <2> HIDE DEF W
  <2>3. ofSome = [i \in W |-> some[i]]
    BY <2>2 DEF RestrictValues, Restrict
  <2> QED
    BY <1>5, <2>3
<1>8. summarizeRetrieval(all) = OfWorking(ofAll) /\ summarizeRetrieval(some) = OfWorking(ofSome)
  BY RetrievalOfWorking
<1>9. Counted(all) = {i \in DOMAIN works : works[i].case.wanted > 0}
  <2>1. DOMAIN works = W /\ \A i \in W : works[i] = in[i]
    BY <1>1
  <2>2. Counted(all) = {i \in W : in[i].case.wanted > 0}
    <3> HIDE DEF all
    <3> QED
      BY <1>3, <1>4 DEF Counted
  <2> HIDE DEF works, W, all
  <2> QED
    BY <2>1, <2>2
<1>10. summarizeRetrieval(all).evaluated = Cardinality(Counted(all))
  BY RetrievalCounts
<1> HIDE DEF works, all, some, ofAll, ofSome
<1>11. CountIf(works, LAMBDA a : a.case.wanted > 0) = Cardinality({i \in DOMAIN works : works[i].case.wanted > 0})
  BY DEF CountIf
<1>12. Summarize(in).total.retrieval = Summarize(works).total.retrieval
  BY <1>2, <1>6, <1>7, <1>8
<1>13. Summarize(in).total.retrieval.evaluated = CountIf(works, LAMBDA a : a.case.wanted > 0)
  BY <1>2, <1>9, <1>10, <1>11
<1> QED
  BY <1>12, <1>13 DEF FailuresFit, works

-----------------------------------------------------------------------------
(* Percentiles.                                                            *)

\* The places of the values below v, and of those up to v.
Below(values, v) == {i \in DOMAIN values : values[i] < v}
UpToIt(values, v) == {i \in DOMAIN values : values[i] <= v}

\* There is a k-th smallest value, for every k.
LEMMA OrderStatistic ==
  ASSUME NEW values \in Seq(Nat), NEW k \in 1..Len(values)
  PROVE  \E v \in Range(values) : Cardinality(Below(values, v)) < k /\ k <= Cardinality(UpToIt(values, v))
<1> DEFINE n == Len(values)
           D == DOMAIN values
           T == {v \in Range(values) : k <= Cardinality(UpToIt(values, v))}
<1>1. n \in Nat /\ D = 1..n /\ k \in Nat /\ k <= n /\ k > 0
  BY LenProperties
<1>2. \A i \in D : values[i] \in Nat
  BY <1>1, ElementOfSeq
<1>3. IsFiniteSet(D) /\ Cardinality(D) = n
  <2> HIDE DEF D, n
  <2>1. IsFiniteSet(1..n) /\ Cardinality(1..n) = IF 1 > n THEN 0 ELSE n - 1 + 1
    BY <1>1, FS_Interval
  <2> QED
    BY <1>1, <2>1
<1>4. \A v : /\ v \in Range(values) <=> \E i \in D : values[i] = v
             /\ v \in Range(values) => v \in Nat
  BY <1>2 DEF Range
<1>5. \A v : /\ IsFiniteSet(Below(values, v)) /\ Cardinality(Below(values, v)) \in Nat
             /\ IsFiniteSet(UpToIt(values, v)) /\ Cardinality(UpToIt(values, v)) \in Nat
  <2> SUFFICES ASSUME NEW v
               PROVE  /\ IsFiniteSet(Below(values, v)) /\ Cardinality(Below(values, v)) \in Nat
                      /\ IsFiniteSet(UpToIt(values, v)) /\ Cardinality(UpToIt(values, v)) \in Nat
    OBVIOUS
  <2>1. Below(values, v) \subseteq D /\ UpToIt(values, v) \subseteq D
    BY DEF Below, UpToIt
  <2>2. IsFiniteSet(Below(values, v)) /\ IsFiniteSet(UpToIt(values, v))
    BY <1>3, <2>1, FS_Subset
  <2> QED
    BY <2>2, FS_CardinalityType
<1> HIDE DEF n, D
\* The greatest value is one that k values do not exceed.
<1>6. T # {}
  <2> DEFINE f == [i \in 1..n |-> values[i]]
  <2>1. f \in [1..n -> Int]
    BY <1>1, <1>2
  <2>2. n > 0
    BY <1>1
  <2>3. PICK i \in 1..n : \A j \in 1..n : f[j] <= f[i]
    <3> HIDE DEF f
    <3> QED
      BY <1>1, <2>1, <2>2, GreatestOf
  <2>4. \A j \in D : values[j] <= values[i]
    BY <1>1, <2>3
  <2>5. UpToIt(values, values[i]) = D
    BY <2>4 DEF UpToIt, D
  <2>6. values[i] \in Range(values)
    BY <1>1, <1>4, <2>3
  <2> QED
    BY <1>1, <1>3, <2>5, <2>6
<1>7. T \subseteq Nat
  BY <1>4
<1>8. PICK v \in T : \A w \in T : v <= w
  BY <1>6, <1>7, NatMin
<1>9. v \in Range(values) /\ v \in Nat /\ k <= Cardinality(UpToIt(values, v))
  BY <1>7
<1>10. Cardinality(Below(values, v)) < k
  <2> DEFINE S == {w \in Range(values) : w < v}
             u == Max(S)
  <2>1. CASE S = {}
    <3>1. Below(values, v) = {}
      BY <1>4, <2>1 DEF Below, D
    <3>2. Cardinality(Below(values, v)) = 0
      BY <3>1, FS_EmptySet
    <3> QED
      BY <1>1, <3>2
  <2>2. CASE S # {}
    <3>1. S \subseteq Nat /\ \A w \in S : w <= v
      BY <1>4, <1>9
    <3>2. u \in S /\ \A w \in S : w <= u
      <4> HIDE DEF S
      <4> QED
        BY <1>9, <2>2, <3>1, NatMax
    <3>3. u \in Range(values) /\ u < v /\ u \in Nat
      BY <3>1, <3>2
    <3>4. u \notin T
      BY <1>7, <1>8, <1>9, <3>3
    <3>5. Cardinality(UpToIt(values, u)) < k
      BY <1>1, <1>5, <3>3, <3>4
    <3>6. Below(values, v) = UpToIt(values, u)
      <4>1. \A i \in D : values[i] \in Nat /\ (values[i] < v => values[i] <= u)
        BY <1>2, <1>4, <3>2
      <4> HIDE DEF S, u
      <4>2. \A i \in D : values[i] < v <=> values[i] <= u
        BY <1>9, <3>3, <4>1
      <4> QED
        BY <4>2 DEF Below, UpToIt, D
    <3> QED
      BY <3>5, <3>6
  <2> QED
    BY <2>1, <2>2
<1> QED
  BY <1>9, <1>10

LEMMA SortedValuesAre ==
  ASSUME NEW values \in Seq(Nat)
  PROVE  LET s == SortedValues(values)
         IN  /\ DOMAIN s = 1..Len(values) /\ Len(s) = Len(values)
             /\ \A k \in 1..Len(values) :
                  Cardinality(Below(values, s[k])) < k /\ k <= Cardinality(UpToIt(values, s[k]))
<1> DEFINE n == Len(values)
           s == SortedValues(values)
           Kth(k, v) == Cardinality(Below(values, v)) < k /\ k <= Cardinality(UpToIt(values, v))
<1>1. n \in Nat /\ DOMAIN values = 1..n
  BY LenProperties
<1>2. s = [k \in 1..n |-> CHOOSE v \in Range(values) : Kth(k, v)]
  BY <1>1 DEF SortedValues, CountIf, Below, UpToIt
<1>3. \A k \in 1..n : \E v \in Range(values) : Kth(k, v)
  BY OrderStatistic
<1> HIDE DEF s, Kth, n
<1>4. \A k \in 1..n : s[k] \in Range(values) /\ Kth(k, s[k])
  BY <1>2, <1>3
<1>5. s \in [1..n -> Range(values)]
  BY <1>2, <1>3
<1>6. Len(s) = n
  BY <1>1, <1>5, ListOf
<1>7. DOMAIN s = 1..n
  BY <1>2
<1> QED
  BY <1>4, <1>6, <1>7 DEF Kth, n, s

\* The place of a percentile.
LEMMA PlaceIs ==
  ASSUME NEW n \in Nat, n > 0, NEW p \in 1..100
  PROVE  LET k == Max({1, Min({(p * n + 99) \div 100, n})})
         IN  k \in 1..n /\ 100 * k >= p * n /\ 100 * (k - 1) < p * n
<1> DEFINE x == p * n
           c == (x + 99) \div 100
           m == Min({c, n})
           k == Max({1, m})
<1>1. x \in Nat /\ x >= 1 /\ x <= 100 * n
  <2>1. p \in Nat /\ p >= 1 /\ p <= 100
    OBVIOUS
  <2> QED
    BY <2>1
<1> HIDE DEF x
<1>2. c \in Nat /\ 100 * c <= x + 99 /\ x + 99 < 100 * c + 100
  BY <1>1
<1> HIDE DEF c
<1>3. c >= 1 /\ c <= n
  BY <1>1, <1>2
<1>4. m = c
  <2>1. m \in {c, n} /\ \A i \in {c, n} : m <= i
    BY <1>2, NatLeast
  <2> HIDE DEF m
  <2> QED
    BY <1>2, <1>3, <2>1
<1> HIDE DEF m
<1>5. k = c
  <2>1. {1, m} \subseteq Nat /\ {1, m} # {} /\ \A i \in {1, m} : i <= n
    BY <1>2, <1>3, <1>4
  <2>2. k \in {1, m} /\ \A i \in {1, m} : i <= k
    BY <2>1, NatMax
  <2> HIDE DEF k
  <2> QED
    BY <1>2, <1>3, <1>4, <2>2
<1> HIDE DEF k
<1>6. k \in 1..n /\ 100 * k >= x /\ 100 * (k - 1) < x
  BY <1>1, <1>2, <1>3, <1>5
<1> QED
  BY <1>6 DEF k, m, c, x

\* A value that covers its share.
Covers(values, v, p) ==
  /\ 100 * CountIf(values, LAMBDA w : w <= v) >= p * Len(values)
  /\ 100 * CountIf(values, LAMBDA w : w < v) < p * Len(values)

LEMMA PercentileCovers ==
  ASSUME NEW values \in Seq(Nat), values # <<>>, NEW p \in 1..100
  PROVE  Covers(values, percentile(SortedValues(values), p), p)
<1> DEFINE n == Len(values)
           s == SortedValues(values)
           k == Max({1, Min({(p * n + 99) \div 100, n})})
           v == percentile(s, p)
           a == Cardinality(UpToIt(values, s[k]))
           b == Cardinality(Below(values, s[k]))
<1>1. n \in Nat /\ n > 0 /\ DOMAIN values = 1..n
  BY EmptySeq, LenProperties
<1>2. k \in 1..n /\ 100 * k >= p * n /\ 100 * (k - 1) < p * n
  BY <1>1, PlaceIs
<1>3. Len(s) = n /\ \A i \in 1..n : Cardinality(Below(values, s[i])) < i /\ i <= Cardinality(UpToIt(values, s[i]))
  BY SortedValuesAre
<1>4. v = s[k]
  <2> HIDE DEF s, n
  <2> QED
    BY <1>3 DEF percentile
<1> HIDE DEF k, s, v
<1>5. b < k /\ k <= a
  BY <1>2, <1>3
<1>6. a \in Nat /\ b \in Nat
  <2>1. IsFiniteSet(DOMAIN values)
    BY <1>1, FS_Interval
  <2>2. UpToIt(values, s[k]) \subseteq DOMAIN values /\ Below(values, s[k]) \subseteq DOMAIN values
    BY DEF UpToIt, Below
  <2>3. IsFiniteSet(UpToIt(values, s[k])) /\ IsFiniteSet(Below(values, s[k]))
    BY <2>1, <2>2, FS_Subset
  <2> QED
    BY <2>3, FS_CardinalityType
<1>7. CountIf(values, LAMBDA w : w <= v) = a /\ CountIf(values, LAMBDA w : w < v) = b
  BY <1>4 DEF CountIf, UpToIt, Below
<1> HIDE DEF a, b
<1>8. p * n \in Nat /\ k \in Nat /\ k >= 1
  BY <1>1, <1>2
<1>9. 100 * a >= p * n /\ 100 * b < p * n
  BY <1>2, <1>5, <1>6, <1>8
<1> QED
  BY <1>7, <1>9 DEF Covers, n, v, s

LEMMA PercentilesDoCover ==
  ASSUME NEW values \in Seq(Nat), values # <<>>
  PROVE  Covers(values, durationStats(values).p50, 50) /\ Covers(values, durationStats(values).p95, 95)
<1>1. durationStats(values).p50 = percentile(SortedValues(values), 50)
      /\ durationStats(values).p95 = percentile(SortedValues(values), 95)
  BY DEF durationStats
<1>2. Covers(values, percentile(SortedValues(values), 50), 50) /\ Covers(values, percentile(SortedValues(values), 95), 95)
  BY PercentileCovers
<1> QED
  BY <1>1, <1>2

-----------------------------------------------------------------------------
(* The numbers of an evaluation.                                           *)

LEMMA MetricsStand ==
  ASSUME Answered
  PROVE  MetricsAgree /\ RepeatsEarnNothing
<1> SUFFICES ASSUME Scored
             PROVE  MetricsAgree /\ RepeatsEarnNothing
  BY DEF MetricsAgree, RepeatsEarnNothing
<1>1. call.in \in EvidenceInputs
  BY InputOf DEF Scored, Returned
<1>2. Result = evaluateEvidence(call.in.hits, call.in.wanted)
  BY DEF Answered, Scored, Returned
<1>3. MetricsFit(call.in, Result)
  BY <1>1, <1>2, MetricsDoFit
<1>4. Result = evaluateEvidence(Fresh(call.in.hits), call.in.wanted)
  BY <1>1, <1>2, FreshEarnsTheSame
<1>5. MetricsAgree
  BY <1>3 DEF MetricsFit, MetricsAgree
<1> QED
  BY <1>4, <1>5 DEF RepeatsEarnNothing, Fresh

LEMMA SummariesStand ==
  ASSUME Answered
  PROVE  GroupsAddUp /\ PerfectTogether /\ FailuresAreNotMisses
<1> SUFFICES ASSUME Summarized
             PROVE  GroupsAddUp /\ PerfectTogether /\ FailuresAreNotMisses
  BY DEF GroupsAddUp, PerfectTogether, FailuresAreNotMisses
<1>1. call.in \in AttemptInputs
  BY InputOf DEF Summarized, Returned
<1>2. Result = Summarize(call.in)
  BY DEF Answered, Summarized, Returned
<1>3. GroupsFit(Result)
  BY <1>1, <1>2, GroupsDoFit
<1>4. \A g \in {Result.total} \cup {Result.byRoute[t] : t \in RouteTypes} : PerfectFit(g)
  BY <1>1, <1>2, PerfectDoFit
<1>5. FailuresFit(call.in, Result)
  BY <1>2, FailuresDoFit
<1>6. GroupsAddUp
  BY <1>3 DEF GroupsFit, GroupsAddUp
<1>7. PerfectTogether
  BY <1>4 DEF PerfectFit, PerfectTogether
<1>8. FailuresAreNotMisses
  BY <1>5 DEF FailuresFit, FailuresAreNotMisses, Working
<1> QED
  BY <1>6, <1>7, <1>8

LEMMA PercentilesStand ==
  ASSUME Answered
  PROVE  PercentilesCover
<1> SUFFICES ASSUME Returned("durationStats"), call.in # <<>>
             PROVE  PercentilesCover
  BY DEF PercentilesCover
<1>1. call.in \in DurationInputs
  BY InputOf DEF Returned
<1>2. call.in \in Seq(Nat)
  BY <1>1, EvaluationAssumption
<1>3. Result = durationStats(call.in)
  BY DEF Answered, Returned
<1>4. Covers(call.in, Result.p50, 50) /\ Covers(call.in, Result.p95, 95)
  BY <1>2, <1>3, PercentilesDoCover
<1>5. ASSUME NEW share \in {<<Result.p50, 50>>, <<Result.p95, 95>>}
      PROVE  /\ 100 * CountIf(call.in, LAMBDA v : v <= share[1]) >= share[2] * Len(call.in)
             /\ 100 * CountIf(call.in, LAMBDA v : v < share[1]) < share[2] * Len(call.in)
  <2>1. Covers(call.in, share[1], share[2])
    <3>1. CASE share = <<Result.p50, 50>>
      BY <1>4, <3>1
    <3>2. CASE share = <<Result.p95, 95>>
      BY <1>4, <3>2
    <3> QED
      BY <3>1, <3>2
  <2> QED
    BY <2>1 DEF Covers
<1> QED
  BY <1>5 DEF PercentilesCover

\* The numbers of an evaluation agree with each other and with the attempts:
\* the metrics of one attempt tell one story and repeats earn nothing, the
\* groups add up, macro F1 and accuracy are full together, failures are not
\* misses, and percentiles cover their share (evaluateEvidence, Summarize,
\* durationStats).
THEOREM EvaluationIsSound == AlgorithmsSpec => []MetricsAreSound
<1>1. Answered => MetricsAreSound
  BY MetricsStand, SummariesStand, PercentilesStand DEF MetricsAreSound
<1> QED
  BY <1>1, AnsweredAlways, PTL
=============================================================================
