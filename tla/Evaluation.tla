----------------------------- MODULE Evaluation -----------------------------
(***************************************************************************)
(* The offline evaluation of routing and retrieval: one attempt at a case, *)
(* its metrics, and the summary over all attempts.  Fractions are scaled:  *)
(* One stands for 1.0 and is divisible by every rank and by the numbers of *)
(* pieces of evidence that occur.  The attempts of a group are a function  *)
(* on their numbers: no figure depends on their order.                     *)
(***************************************************************************)
EXTENDS Calls, FiniteSets, FiniteSetsExt, SequencesExt

CONSTANTS
  RouteTypes,          \* the query types with "none"
  One,                 \* 1.0
  EvidenceInputs,      \* [hits, wanted]: the evidence each hit has, how many are wanted
  AttemptInputs,       \* sequences of [case, plan, search]
  DurationInputs       \* sequences of durations

ASSUME EvaluationAssumption ==
  /\ One \in Nat \ {0} /\ \A place \in 1..10 : One % place = 0
  /\ IsFiniteSet(RouteTypes) /\ {"none", "direct"} \subseteq RouteTypes
  /\ \A in \in EvidenceInputs :
       in.wanted \in Nat \ {0} /\ One % in.wanted = 0 /\ in.hits \in Seq(SUBSET (1..in.wanted))
  /\ \A in \in AttemptInputs :
       /\ Len(in) \in Nat /\ DOMAIN in = 1..Len(in)
       /\ \A i \in DOMAIN in : in[i].case.expected \in RouteTypes /\ in[i].plan \in RouteTypes \cup {"error"}
  /\ DurationInputs \subseteq Seq(Nat)

\* 1000 / log2(place + 1), the gain of a place.
Gain == <<1000, 631, 500, 431, 387, 356, 333, 315, 301, 289, 279>>

-----------------------------------------------------------------------------
(* One attempt.                                                            *)

\* The place that first shows evidence e; 0 for none.
FirstPlace(hits, e) ==
  LET places == {p \in DOMAIN hits : e \in hits[p]} IN IF places = {} THEN 0 ELSE Min(places)

\* Mutated: a place counts for evidence that was shown before.
RelevantPlaces(hits, n) == {p \in DOMAIN hits : hits[p] # {} /\ p <= 10}
\* Mutated: the eleventh place counts.
ElevenPlaces(hits, n) == {FirstPlace(hits, e) : e \in 1..n} \cap 1..11
\* The places with new evidence among the first ten.
NewPlaces(hits, n) == {FirstPlace(hits, e) : e \in 1..n} \cap 1..10

ndcgAt10(hits, n) ==
  LET dcg == MapThenSumSet(LAMBDA p : Gain[p], NewPlaces(hits, n))
      ideal == MapThenSumSet(LAMBDA p : Gain[p], 1..Min({n, 10}))
  IN  Min({(dcg * One) \div ideal, One})

evaluateEvidence(hits, n) ==
  LET found == {FirstPlace(hits, e) : e \in 1..n} \ {0}
      first == IF found = {} THEN 0 ELSE Min(found)
      HitAt(k) == IF first \in 1..k THEN One ELSE 0
      RecallAt(k) == Cardinality({e \in 1..n : FirstPlace(hits, e) \in 1..k}) * (One \div n)
  IN  [hitAt1 |-> HitAt(1), hitAt3 |-> HitAt(3), hitAt5 |-> HitAt(5),
       recallAt5 |-> RecallAt(5), recallAt10 |-> RecallAt(10),
       mrrAt10 |-> IF first \in 1..10 THEN One \div first ELSE 0,
       ndcgAt10 |-> ndcgAt10(hits, n)]

MetricNames == {"hitAt1", "hitAt3", "hitAt5", "recallAt5", "recallAt10", "mrrAt10", "ndcgAt10"}
NoMetrics == [m \in MetricNames |-> 0]

\* Mutated: a search that fails is an empty result.
OnlyThePlanFails(a) == a.plan = "error"
\* An attempt with an execution error: the plan failed (the question itself
\* is searched nonetheless), or the search that followed did.
Failed(a) == a.plan = "error" \/ (a.plan # "none" /\ a.search = "fails")

runCase(a) ==
  LET planned == IF a.plan = "error" THEN "direct" ELSE a.plan
      searched == planned # "none" /\ a.search # "fails"
      hits == IF searched /\ a.search = "finds" THEN a.hits ELSE <<>>
  IN  [case |-> a.case, expected |-> a.case.expected, actual |-> planned,
       routeError |-> a.plan = "error", failed |-> Failed(a),
       metrics |-> IF searched /\ a.case.wanted > 0
                   THEN evaluateEvidence(hits, a.case.wanted) ELSE NoMetrics,
       noHit |-> a.case.negative /\ (planned = "none" \/ searched) /\ hits = <<>>]

-----------------------------------------------------------------------------
(* The summary.                                                            *)

ratio(n, d) == IF d = 0 THEN 0 ELSE (n * One) \div d

\* Mutated: what was not recognised is not counted.
PrecisionOnly(tp, fp, fn) == ratio(2 * tp, 2 * tp + fp)
f1(tp, fp, fn) == ratio(2 * tp, 2 * tp + fp + fn)

CountIf(results, Test(_)) == Cardinality({i \in DOMAIN results : Test(results[i])})
Number(results) == Cardinality(DOMAIN results)

summarizeRoute(all) ==
  LET results == RestrictValues(all, LAMBDA r : ~r.routeError)
      Confusion(e, a) == CountIf(results, LAMBDA r : r.expected = e /\ r.actual = a)
      present == {results[i].expected : i \in DOMAIN results}
      F1(t) == f1(Confusion(t, t),
                  MapThenSumSet(LAMBDA e : Confusion(e, t), present \ {t}),
                  MapThenSumSet(LAMBDA a : Confusion(t, a), RouteTypes \ {t}))
      correct == CountIf(results, LAMBDA r : r.expected = r.actual)
  IN  [evaluated |-> Number(results), correct |-> correct,
       accuracy |-> ratio(correct, Number(results)),
       unsafeNone |-> ratio(CountIf(results, LAMBDA r : r.expected # "none" /\ r.actual = "none"),
                            CountIf(results, LAMBDA r : r.expected # "none")),
       macroF1 |-> IF present = {} THEN 0
                   ELSE MapThenSumSet(F1, present) \div Cardinality(present)]

summarizeRetrieval(all) ==
  LET results == RestrictValues(all, LAMBDA r : ~r.failed)
      scored == RestrictValues(results, LAMBDA r : r.case.wanted > 0)
      Average(m) == IF DOMAIN scored = {} THEN 0
                    ELSE MapThenSumSet(LAMBDA i : scored[i].metrics[m], DOMAIN scored) \div Number(scored)
      negatives == CountIf(results, LAMBDA r : r.case.negative)
  IN  [evaluated |-> Number(scored), negatives |-> negatives,
       noHits |-> ratio(CountIf(results, LAMBDA r : r.noHit), negatives),
       averages |-> [m \in MetricNames |-> Average(m)]]

\* A case is stable when every attempt that was planned took the same route.
summarizeStability(all) ==
  LET results == RestrictValues(all, LAMBDA r : ~r.routeError)
      cases == {results[i].case : i \in DOMAIN results}
      stable == {c \in cases : Cardinality({results[i].actual :
                                              i \in {j \in DOMAIN results : results[j].case = c}}) = 1}
  IN  [evaluated |-> Cardinality(cases), stable |-> Cardinality(stable)]

\* Mutated: grouped by the route taken.
ByActual(results, t) == RestrictValues(results, LAMBDA r : ~r.routeError /\ r.actual = t)
filterResults(results, t) == RestrictValues(results, LAMBDA r : r.expected = t)

GroupSummary(results) ==
  [attempts |-> Number(results), errors |-> CountIf(results, LAMBDA r : r.failed),
   route |-> summarizeRoute(results), retrieval |-> summarizeRetrieval(results)]

Summarize(attempts) ==
  LET results == [i \in DOMAIN attempts |-> runCase(attempts[i])]
  IN  [total |-> GroupSummary(results), stability |-> summarizeStability(results),
       byRoute |-> [t \in RouteTypes |-> GroupSummary(filterResults(results, t))]]

\* Mutated: rounded down.
RoundedDown(sorted, percent) == sorted[Max({1, (percent * Len(sorted)) \div 100})]
percentile(sorted, percent) ==
  sorted[Max({1, Min({(percent * Len(sorted) + 99) \div 100, Len(sorted)})})]

\* The k-th smallest of the values, for every k.
SortedValues(values) ==
  [k \in DOMAIN values |-> CHOOSE v \in Range(values) :
     CountIf(values, LAMBDA w : w < v) < k /\ k <= CountIf(values, LAMBDA w : w <= v)]

durationStats(values) ==
  LET sorted == SortedValues(values)
  IN  [p50 |-> IF values = <<>> THEN 0 ELSE percentile(sorted, 50),
       p95 |-> IF values = <<>> THEN 0 ELSE percentile(sorted, 95)]

EvaluationStep ==
  \/ Return("evaluateEvidence", evaluateEvidence(call.in.hits, call.in.wanted))
  \/ Return("Summarize", Summarize(call.in))
  \/ Return("durationStats", durationStats(call.in))

-----------------------------------------------------------------------------
(* Properties.                                                             *)

Scored == Returned("evaluateEvidence")

\* The metrics of one attempt tell one story: a hit among the first five is a
\* recall there, rank, gain and recall among the first ten are zero together,
\* a full gain means that the first ten places show all the evidence, or ten
\* pieces of it, and none exceeds one.
MetricsAgree ==
  Scored =>
    /\ Result.hitAt1 <= Result.hitAt3 /\ Result.hitAt3 <= Result.hitAt5
    /\ (Result.recallAt5 > 0) = (Result.hitAt5 = One)
    /\ Result.recallAt5 <= Result.recallAt10 /\ Result.recallAt10 <= One
    /\ (Result.mrrAt10 > 0) = (Result.recallAt10 > 0)
    /\ (Result.ndcgAt10 > 0) = (Result.recallAt10 > 0)
    /\ Result.ndcgAt10 <= One
    /\ Result.ndcgAt10 = One =>
         Result.recallAt10 >= Min({call.in.wanted, 10}) * (One \div call.in.wanted)

\* Evidence that is shown again further down earns nothing: the metrics are
\* those of the hits without what an earlier hit has shown.
RepeatsEarnNothing ==
  Scored =>
    LET hits == call.in.hits
        fresh == [p \in DOMAIN hits |-> hits[p] \ UNION {hits[q] : q \in 1..(p - 1)}]
    IN  Result = evaluateEvidence(fresh, call.in.wanted)

Summarized == Returned("Summarize")

\* Every attempt is in one group: the counts of the groups add up to those of
\* the whole, the attempts that failed included.
GroupsAddUp ==
  Summarized =>
    LET Sum(Of(_)) == MapThenSumSet(LAMBDA t : Of(Result.byRoute[t]), RouteTypes)
    IN  /\ Result.total.attempts = Sum(LAMBDA g : g.attempts)
        /\ Result.total.errors = Sum(LAMBDA g : g.errors)
        /\ Result.total.route.evaluated = Sum(LAMBDA g : g.route.evaluated)
        /\ Result.total.route.correct = Sum(LAMBDA g : g.route.correct)
        /\ Result.total.retrieval.evaluated = Sum(LAMBDA g : g.retrieval.evaluated)

\* Macro F1 and accuracy agree on perfection: one is full when the other is,
\* overall and in every group.
PerfectTogether ==
  Summarized =>
    \A g \in {Result.total} \cup {Result.byRoute[t] : t \in RouteTypes} :
      g.route.evaluated > 0 => (g.route.macroF1 = One) = (g.route.accuracy = One)

\* A service that fails is not a bad ranking: the retrieval metrics are those
\* of the attempts whose plan and search both worked, while a question wrongly
\* routed to "none" does count against them.
FailuresAreNotMisses ==
  Summarized =>
    LET works == RestrictValues(call.in, LAMBDA a : a.plan # "error" /\ (a.plan = "none" \/ a.search # "fails"))
    IN  /\ Result.total.retrieval = Summarize(works).total.retrieval
        /\ Result.total.retrieval.evaluated =
             CountIf(works, LAMBDA a : a.case.wanted > 0)

\* A percentile is the smallest value that covers its share: at least so many
\* values are not above it, and fewer are below it.
PercentilesCover ==
  Returned("durationStats") /\ call.in # <<>> =>
    \A share \in {<<Result.p50, 50>>, <<Result.p95, 95>>} :
      /\ 100 * CountIf(call.in, LAMBDA v : v <= share[1]) >= share[2] * Len(call.in)
      /\ 100 * CountIf(call.in, LAMBDA v : v < share[1]) < share[2] * Len(call.in)

\* The numbers of an evaluation agree with each other and with the attempts.
MetricsAreSound ==
  /\ MetricsAgree /\ RepeatsEarnNothing /\ GroupsAddUp
  /\ PerfectTogether /\ FailuresAreNotMisses /\ PercentilesCover
=============================================================================
