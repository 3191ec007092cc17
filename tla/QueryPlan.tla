----------------------------- MODULE QueryPlan -----------------------------
(***************************************************************************)
(* From a question to the queries that are searched: the router's decision *)
(* is normalised twice (by the router and by the planner), turned into a   *)
(* plan, and the retrieval service cleans the plan once more.  A query is  *)
(* [word, capital, padded, long]: what it says (0 for nothing), whether it *)
(* is written in capitals, has blanks around it, and is over the limit of  *)
(* 200 runes.                                                              *)
(***************************************************************************)
EXTENDS Calls, SequencesExt

CONSTANTS
  Queries,             \* queries that occur
  Subqueries,          \* settings of chat.router.max_subqueries
  MaxQueries           \* bound on the queries a model returns

Query == [word : Nat, capital : BOOLEAN, padded : BOOLEAN, long : BOOLEAN]

ASSUME PlanAssumption == Queries \subseteq Query /\ Subqueries \subseteq Int /\ MaxQueries \in Nat

QueryTypes == {"none", "direct", "contextual_rewrite", "decomposition"}

TrimSpace(q) == [q EXCEPT !.padded = FALSE]
ToLower(q) == [q EXCEPT !.capital = FALSE]
Blank(q) == q.word = 0

normalizeMaxSubqueries(n) == IF n < 2 \/ n > 4 THEN 4 ELSE n

\* What two queries have in common that say the same.
Key(q) == ToLower(TrimSpace(q))
Seen(seen, q) == \E s \in seen : Key(s) = Key(q)

\* The first of the queries that say the same, at most limit of them; short
\* says that those over the limit of runes are left out.
AddQuery(kept, q, limit, short) ==
  IF Blank(q) \/ (short /\ q.long) \/ Seen(ToSet(kept), q) \/ Len(kept) >= limit
  THEN kept ELSE Append(kept, TrimSpace(q))

Distinct(start, queries, limit, short) ==
  FoldLeft(LAMBDA kept, q : AddQuery(kept, q, limit, short), start, queries)

normalizeRouteQueries(queries, limit) ==
  Distinct(<<>>, queries, IF limit <= 0 THEN 1 ELSE limit, TRUE)

\* Mutated: the length is not looked at after the queries are cleaned.
AnyLength(type, queries) == TRUE
Wellformed(type, queries) ==
  /\ type \in QueryTypes
  /\ type = "contextual_rewrite" => Len(queries) = 1
  /\ type = "decomposition" => Len(queries) >= 2

\* <<>> is the error that makes the planner fall back.
normalizeRouteDecision(decision, original, max) ==
  LET queries == normalizeRouteQueries(decision.queries, normalizeMaxSubqueries(max))
  IN  IF Blank(original) \/ ~Wellformed(decision.type, queries) THEN <<>>
      ELSE <<[type |-> decision.type,
              queries |-> IF decision.type \in {"none", "direct"} THEN <<>> ELSE queries]>>

\* Mutated: only what the model returned is searched.
ModelOnly(original, decision, max) ==
  IF decision.type = "none" THEN <<>>
  ELSE IF decision.queries = <<>> THEN <<TrimSpace(original)>> ELSE decision.queries
\* Mutated: nobody looks whether the model repeats the question.
WithRepeats(original, decision, max) ==
  IF decision.type = "none" \/ Blank(original) THEN <<>>
  ELSE <<TrimSpace(original)>> \o decision.queries
buildQueryPlan(original, decision, max) ==
  IF decision.type = "none" \/ Blank(original) THEN <<>>
  ELSE IF decision.type = "direct" THEN <<TrimSpace(original)>>
  ELSE Distinct(<<TrimSpace(original)>>, decision.queries, 1 + normalizeMaxSubqueries(max), TRUE)

\* An answer of the model that cannot be read, or no answer, is <<>>.
Route(in) == IF in.reply = <<>> THEN <<>>
             ELSE normalizeRouteDecision(in.reply[1], in.question, in.max)

Fallback(question) ==
  [type |-> "direct", queries |-> <<TrimSpace(question)>>, fallback |-> TRUE, ok |-> TRUE]

Plan(in) ==
  LET routed == Route(in)
      decision == IF routed = <<>> THEN <<>>
                  ELSE normalizeRouteDecision(routed[1], TrimSpace(in.question), in.max)
  IN  IF Blank(in.question)
      THEN [type |-> "direct", queries |-> <<>>, fallback |-> FALSE, ok |-> FALSE]
      ELSE IF decision = <<>> THEN Fallback(in.question)
      ELSE [type |-> decision[1].type,
            queries |-> buildQueryPlan(in.question, decision[1], in.max),
            fallback |-> FALSE, ok |-> TRUE]

\* The retrieval service cleans what it is given, with no limits.
normalizeRetrievalQueries(queries) == Distinct(<<>>, queries, Len(queries), FALSE)

Decisions ==
  [type : QueryTypes \cup {"other"}, queries : UNION {[1..n -> Queries] : n \in 0..MaxQueries}]
PlanInputs ==
  [question : Queries, reply : {<<>>} \cup {<<d>> : d \in Decisions}, max : Subqueries]

PlanStep == Return("Plan", Plan(call.in))

-----------------------------------------------------------------------------
(* Properties.                                                             *)

\* Whatever the model replies, a question that says something is planned:
\* the user's own words are searched first, unless the model says that
\* nothing need be searched, and never more than four queries besides.
QuestionComesFirst ==
  Returned("Plan") /\ ~Blank(call.in.question) =>
    /\ Result.ok
    /\ Result.type # "none" =>
         Result.queries # <<>> /\ Head(Result.queries) = TrimSpace(call.in.question)
    /\ Len(Result.queries) <= 1 + normalizeMaxSubqueries(call.in.max)

\* The three places that clean queries agree: the retrieval service searches
\* the very queries of the plan, so the queries a chat reports are those that
\* were searched, each with a vector of its own.
PlanIsSearched ==
  Returned("Plan") => normalizeRetrievalQueries(Result.queries) = Result.queries

\* A decomposition searches something beside the question, and what the
\* router has let pass is not refused or changed by the planner.
DecisionSurvives ==
  Returned("Plan") =>
    /\ Result.type = "decomposition" => Len(Result.queries) >= 2
    /\ Route(call.in) # <<>> => ~Result.fallback /\ Result.type = Route(call.in)[1].type

\* The plan of a question is sound, whatever the language model replies.
PlanIsSound == QuestionComesFirst /\ PlanIsSearched /\ DecisionSurvives
=============================================================================
