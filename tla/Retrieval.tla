----------------------------- MODULE Retrieval -----------------------------
(***************************************************************************)
(* Hybrid search: every query goes to the vectors and to the full text,    *)
(* the two rankings are merged by reciprocal rank fusion, and so are the   *)
(* rankings of the queries.  Scores are exact: a hit of rank r (from 1)    *)
(* adds Unit \div (RrfK + r), and Unit is a common multiple of the         *)
(* divisors.                                                               *)
(***************************************************************************)
EXTENDS Calls, FiniteSets, FiniteSetsExt, SequencesExt

CONSTANTS
  Chunks,              \* chunk ids
  RrfK,                \* rrfK: 60 in the code
  MaxTopK,             \* the largest topK: 50 in the code
  DefaultTopK,         \* chat.retrieval.top_k
  Unit,                \* common multiple of RrfK + 1 .. RrfK + the longest list
  SearchInputs         \* [queries, topK, minScore] as they occur

\* A hit is [id, score]; a route's rows are a sequence of hits, one for a
\* chunk, best first.
Hit == [id : Chunks, score : Int]
Ranking ==
  {l \in Seq(Hit) : \A i, j \in DOMAIN l : i < j => l[i].id # l[j].id /\ l[i].score >= l[j].score}
SearchQuery == [vector : Ranking, text : Ranking, textFails : BOOLEAN, vectorFails : BOOLEAN]

\* Agreement of two routes outweighs the best rank in one, because topK is
\* bounded: 2 / (RrfK + MaxTopK) > 1 / (RrfK + 1).
ASSUME RrfAssumption ==
  /\ Chunks \subseteq Nat /\ IsFiniteSet(Chunks)
  /\ RrfK \in Nat /\ DefaultTopK \in Nat \ {0} /\ MaxTopK \in Nat \ {0}
  /\ MaxTopK < RrfK + 2
  /\ Unit \in Nat \ {0} /\ \A r \in 1..Cardinality(Chunks) : Unit % (RrfK + r) = 0

ASSUME SearchAssumption ==
  \A in \in SearchInputs :
    in.queries \in Seq(SearchQuery) /\ in.topK \in Int /\ in.minScore \in Int

Ids(list) == {list[i].id : i \in DOMAIN list}
RankOf(list, id) == CHOOSE i \in DOMAIN list : list[i].id = id
HitOf(list, id) == list[RankOf(list, id)]

\* Mutated: a list replaces what the lists before it added.
LastRank(lists, id) ==
  LET with == {n \in DOMAIN lists : id \in Ids(lists[n])}
  IN  Unit \div (RrfK + RankOf(lists[Max(with)], id))
\* What a list adds to the rank score of a chunk, and the sum.
Points(list, id) == IF id \in Ids(list) THEN Unit \div (RrfK + RankOf(list, id)) ELSE 0
Rrf(lists, id) == FoldLeft(LAMBDA sum, list : sum + Points(list, id), 0, lists)

\* Mutated: the score of the first route that has the chunk.
FirstScore(lists, id) ==
  HitOf(lists[Min({n \in DOMAIN lists : id \in Ids(lists[n])})], id).score
BestScore(lists, id) ==
  Max({HitOf(lists[n], id).score : n \in {m \in DOMAIN lists : id \in Ids(lists[m])}})

Before(lists, a, b) ==
  \/ Rrf(lists, a) > Rrf(lists, b)
  \/ Rrf(lists, a) = Rrf(lists, b) /\ a < b

\* Mutated: hits of one chunk are not brought together.
Interleaved(topK, lists) ==
  LET all == FlattenSeq([n \in DOMAIN lists |-> lists[n]])
  IN  IF topK > 0 /\ Len(all) > topK THEN SubSeq(all, 1, topK) ELSE all
\* The chunk of each place is the one with as many before it.
PlaceOf(lists, ids, a) == 1 + Cardinality({b \in ids : Before(lists, b, a)})
Sorted(lists, ids) ==
  [k \in 1..Cardinality(ids) |-> CHOOSE a \in ids : PlaceOf(lists, ids, a) = k]

rrfMerge(topK, lists) ==
  LET order == Sorted(lists, UNION {Ids(lists[n]) : n \in DOMAIN lists})
      kept == IF topK > 0 /\ Len(order) > topK THEN SubSeq(order, 1, topK) ELSE order
  IN  [i \in DOMAIN kept |-> [id |-> kept[i], score |-> BestScore(lists, kept[i])]]

\* Mutated: no upper bound.
Unbounded(k) == IF k <= 0 THEN DefaultTopK ELSE k
TopK(k) ==
  LET asked == IF k <= 0 THEN DefaultTopK ELSE k
  IN  IF asked > MaxTopK THEN MaxTopK ELSE asked

\* The database returns at most topK rows, best first; the similarity floor
\* is applied to the vector rows only, of which it takes the last ones.
Limit(list, topK) == IF Len(list) > topK THEN SubSeq(list, 1, topK) ELSE list
SearchByVector(rows, topK, minScore) ==
  LET hits == Limit(rows, topK)
  IN  SubSeq(hits, 1, Cardinality({i \in DOMAIN hits : minScore > 0 => hits[i].score >= minScore}))
SearchByFullText(rows, topK) == Limit(rows, topK)

\* Mutated: a query without full text has no hits.
Dropped(topK, vectorHits) == <<>>
\* The full text of one query failed: its vector hits stand.
Degraded(topK, vectorHits) == vectorHits

OneQuery(q, topK, minScore) ==
  LET vectorHits == SearchByVector(q.vector, topK, minScore)
  IN  IF q.textFails THEN Degraded(topK, vectorHits)
      ELSE rrfMerge(topK, <<vectorHits, SearchByFullText(q.text, topK)>>)

\* A vector search that fails ends the whole search.
SearchQueries(in) ==
  LET topK == TopK(in.topK)
  IN  IF in.queries = <<>> \/ \E i \in DOMAIN in.queries : in.queries[i].vectorFails
      THEN [ok |-> FALSE, hits |-> <<>>]
      ELSE [ok |-> TRUE,
            hits |-> rrfMerge(topK, [i \in DOMAIN in.queries |->
                                       OneQuery(in.queries[i], topK, in.minScore)])]

SearchStep == Return("SearchQueries", SearchQueries(call.in))

-----------------------------------------------------------------------------
(* Properties.                                                             *)

\* What the routes of query i brought, those that failed left out.
Brought(i) ==
  LET q == call.in.queries[i]
      v == SearchByVector(q.vector, TopK(call.in.topK), call.in.minScore)
  IN  IF q.textFails THEN {v} ELSE {v, SearchByFullText(q.text, TopK(call.in.topK))}

Routes == UNION {Brought(i) : i \in DOMAIN call.in.queries}
Found == Returned("SearchQueries") /\ Result.ok

\* a is at least as well placed as b in a route.
AtLeast(list, a, b) ==
  b \in Ids(list) => a \in Ids(list) /\ RankOf(list, a) < RankOf(list, b)

\* Fusion, done twice and cut off in between, never contradicts its routes:
\* a chunk that every route of every query places before another one comes
\* before it, and is not cut off while the other stays.
FusionRespectsRoutes ==
  Found => \A a, b \in Chunks :
    /\ a # b /\ b \in Ids(Result.hits)
    /\ \A list \in Routes : AtLeast(list, a, b)
    => a \in Ids(Result.hits) /\ RankOf(Result.hits, a) < RankOf(Result.hits, b)

\* For one query, a chunk that both routes found comes before every chunk
\* that only one route found, even at the first place: the bound on topK
\* makes it so.
AgreementWins ==
  Found /\ Len(call.in.queries) = 1 /\ ~call.in.queries[1].textFails =>
    \A a, b \in Ids(Result.hits) :
      (\A list \in Routes : a \in Ids(list)) /\ (\E list \in Routes : b \notin Ids(list))
      => RankOf(Result.hits, a) < RankOf(Result.hits, b)

\* A chunk is returned once, and only the limit makes it go missing: the
\* hits are as many as there are chunks in the routes, or topK.
OnlyTheLimitCuts ==
  Found =>
    /\ Cardinality(Ids(Result.hits)) = Len(Result.hits)
    /\ Len(Result.hits) =
         Min({TopK(call.in.topK), Cardinality(UNION {Ids(list) : list \in Routes})})

\* A hit carries the best score it has in any route of a single query.
BestScoreKept ==
  Found /\ Len(call.in.queries) = 1 =>
    \A i \in DOMAIN Result.hits :
      \A list \in Routes :
        Result.hits[i].id \in Ids(list) =>
          HitOf(list, Result.hits[i].id).score <= Result.hits[i].score

\* Full text that fails is no failure: what the vectors found is returned,
\* in their order.
TextFailureDegrades ==
  Found /\ Len(call.in.queries) = 1 /\ call.in.queries[1].textFails =>
    Routes = {Result.hits}

\* Hybrid search is sound: its order is that of its routes, only the limit
\* leaves a chunk out, and a full text that fails costs only its own hits.
FusionIsSound ==
  /\ FusionRespectsRoutes /\ AgreementWins
  /\ OnlyTheLimitCuts /\ BestScoreKept /\ TextFailureDegrades
=============================================================================
