------------------------------- MODULE Config -------------------------------
(***************************************************************************)
(* Reading the configuration: defaults, then the file, then the            *)
(* environment, then defaults again for what is left unusable.  Settings   *)
(* are grouped by the rule their default follows.                          *)
(***************************************************************************)
EXTENDS Calls, FiniteSetsExt, SequencesExt

CONSTANT ConfigInputs  \* [file, readable, env, present, configFile, cwd, exe]

\* port, postgres.maxOpenConns: the default replaces 0.
\* timeout, batchSize, topK: the default replaces what is not positive.
\* subqueries: between 2 and 4.  prefetch: its default is the concurrency.
Settings == {"port", "timeout", "subqueries", "concurrency", "prefetch"}

Unset == -99           \* no such key in the file, no or an empty variable
NotANumber == -98      \* a value that does not decode

\* A path is a sequence of names; configFile is <<>> or <<the path named>>.
Paths == Seq(STRING)

ASSUME ConfigAssumption ==
  \A in \in ConfigInputs :
    /\ in.file \in [Settings -> Int] /\ in.readable \in BOOLEAN /\ in.env \in [Settings -> Int]
    /\ in.present \subseteq Paths /\ in.cwd \in Paths /\ in.exe \in Paths
    /\ in.configFile \in Seq(Paths) /\ Len(in.configFile) <= 1

Default(s) ==
  CASE s = "port" -> 8082 [] s = "timeout" -> 900 [] s = "subqueries" -> 4 [] OTHER -> 1

Usable(s, v) ==
  CASE s = "port" -> v # 0
    [] s = "subqueries" -> v \in 2..4
    [] OTHER -> v > 0

\* Mutated: what is given is taken.
AsGiven(cfg) == cfg
\* Mutated: no default depends on another setting.
EachByItself(cfg) == [s \in Settings |-> IF Usable(s, cfg[s]) THEN cfg[s] ELSE Default(s)]
applyDefaults(cfg) ==
  LET own == [s \in Settings |-> IF Usable(s, cfg[s]) THEN cfg[s] ELSE Default(s)]
  IN  [own EXCEPT !["prefetch"] = IF cfg["prefetch"] > 0 THEN cfg["prefetch"] ELSE own["concurrency"]]

defaultConfig ==
  LET zero == [s \in Settings |-> 0]
      own == [s \in Settings |-> Default(s)]
  IN  [own EXCEPT !["prefetch"] = own["concurrency"]]

-----------------------------------------------------------------------------
(* Finding and reading the file.                                           *)

\* Mutated: from the root downwards.
FromRoot(start) == [k \in 0..Len(start) |-> SubSeq(start, 1, k)]
\* The directories from start upwards.
walkParents(start) == [k \in 0..Len(start) |-> SubSeq(start, 1, Len(start) - k)]

NearestIn(present, start) ==
  LET steps == {k \in 0..Len(start) : walkParents(start)[k] \in present}
  IN  IF steps = {} THEN <<>> ELSE <<walkParents(start)[Min(steps)]>>

\* <<>> when there is none.  A CONFIG_FILE that does not exist is not made up
\* for by another file: the defaults and the environment apply.
resolveConfigPath(in) ==
  IF in.configFile # <<>>
  THEN IF in.configFile[1] \in in.present THEN in.configFile ELSE <<>>
  ELSE IF NearestIn(in.present, in.cwd) # <<>> THEN NearestIn(in.present, in.cwd)
       ELSE NearestIn(in.present, in.exe)

\* Mutated: the file has the last word.
FileOverEnv(env, file) == IF file # Unset THEN file ELSE env
\* A bound variable that is set and not empty goes before the file's key.
EnvOverFile(env, file) == IF env # Unset THEN env ELSE file

\* Mutated: a file that cannot be read is as none.
IfReadable(in, path) == TRUE
\* A file that is there must be YAML and readable.
CanRead(in, path) == path = <<>> \/ in.readable

Load(in) ==
  LET path == resolveConfigPath(in)
      file == IF path = <<>> \/ ~in.readable THEN [s \in Settings |-> Unset] ELSE in.file
      given == [s \in Settings |-> EnvOverFile(in.env[s], file[s])]
  IN  IF ~CanRead(in, path) \/ \E s \in Settings : given[s] = NotANumber THEN [ok |-> FALSE, from |-> path]
      ELSE [ok |-> TRUE, from |-> path,
            cfg |-> applyDefaults([s \in Settings |->
                      IF given[s] = Unset THEN defaultConfig[s] ELSE given[s]])]

ConfigStep == Return("Load", Load(call.in))

-----------------------------------------------------------------------------
(* Properties.                                                             *)

Loaded == Returned("Load") /\ Result.ok
FileSays(s) == IF Result.from = <<>> THEN Unset ELSE call.in.file[s]

\* The environment goes before the file and the file before the defaults, for
\* every setting by itself; a value that is unusable is replaced by the
\* default, and never by what the source below it says.  Prefetch is
\* replaced by the concurrency in force when what is given is unusable, but
\* is 1 when nothing is given.
Given(s) == IF call.in.env[s] # Unset THEN call.in.env[s] ELSE FileSays(s)
SourcesRank ==
  Loaded => \A s \in Settings :
    Result.cfg[s] = IF Given(s) # Unset /\ Usable(s, Given(s)) THEN Given(s)
                    ELSE IF s = "prefetch" /\ Given(s) # Unset THEN Result.cfg["concurrency"]
                    ELSE Default(s)

\* The program starts unless the configuration says something that is not to
\* be understood, and never on the defaults in place of a file that is there
\* and cannot be read.
StartsOnAllOrNothing ==
  Returned("Load") =>
    (Result.ok <=> /\ Result.from # <<>> => call.in.readable
                   /\ \A s \in Settings : Given(s) # NotANumber)

\* Whatever the sources say, the program starts with settings it can work
\* with: a worker that takes at least one message, timers that run, a plan
\* of two to four queries.
SettingsAreUsable == Loaded => \A s \in Settings : Usable(s, Result.cfg[s])

\* The file is the one that was named, or the nearest one above the working
\* directory, or else above the program; naming one that is not there means
\* none.
NearestFileCounts ==
  Returned("Load") =>
    LET in == call.in
        Above(dir) == {p \in in.present : Len(p) <= Len(dir) /\ p = SubSeq(dir, 1, Len(p))}
        Nearest(dir, p) == p \in Above(dir) /\ \A q \in Above(dir) : Len(q) <= Len(p)
    IN  IF Result.from = <<>>
        THEN \/ in.configFile # <<>> /\ in.configFile[1] \notin in.present
             \/ in.configFile = <<>> /\ Above(in.cwd) = {} /\ Above(in.exe) = {}
        ELSE LET p == Result.from[1]
             IN  IF in.configFile # <<>> THEN p = in.configFile[1]
                 ELSE IF Above(in.cwd) # {} THEN Nearest(in.cwd, p) ELSE Nearest(in.exe, p)

\* Every setting has the value of the source that ranks first, and a usable
\* one, the file is the one that is meant, and it is read.
ConfigIsSound == SourcesRank /\ StartsOnAllOrNothing /\ SettingsAreUsable /\ NearestFileCounts
=============================================================================
