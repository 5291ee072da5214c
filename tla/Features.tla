------------------------------ MODULE Features ------------------------------
(***************************************************************************)
(* What the processing service computes, between its intake and its gates. *)
(*   microservices/processing/src/feature_builder.py  enrich_interactions  *)
(*   .../src/aggregator.py   aggregate_student_features,                   *)
(*                           filter_min_interactions                       *)
(*   .../src/similarity.py   build_recommendations                         *)
(*                                                                         *)
(* A dataframe is a set of records; `copy` keeps apart the rows that are   *)
(* otherwise equal, which a raw zone that is appended to holds.  A double  *)
(* is an exact fraction in lowest terms, and a similarity score stands for *)
(* its square: the order is the same.  Timestamps, and the time features   *)
(* nothing downstream reads, are left out.                                 *)
(***************************************************************************)
EXTENDS ProcessingConfig, Naturals, Sequences, FiniteSets, FiniteSetsExt, SequencesExt

CONSTANTS
  Interactions,     \* kt4: [user, action, item, answer, elapsed, date, copy]
  Questions,        \* questions: [id, answer, part, copy]
  Null,             \* SQL NULL
  CorrectnessJoin,  \* feature_engineering.correctness_join
  ResponseTimeCap,  \* feature_engineering.response_time_cap_ms
  FeatureColumns    \* similarity.feature_columns

ASSUME TablesAssumption ==
  /\ IsFiniteSet(Interactions) /\ IsFiniteSet(Questions)
  /\ \A r \in Interactions :
       /\ r = [f \in {"user", "action", "item", "answer", "elapsed", "date",
                      "copy"} |-> r[f]]
       /\ {r.user, r.date, r.copy} \subseteq Nat
       /\ r.elapsed = Null \/ r.elapsed \in Nat
  /\ \A q \in Questions :
       q = [f \in {"id", "answer", "part", "copy"} |-> q[f]] /\ q.copy \in Nat

ASSUME FeaturesAssumption ==
  /\ ResponseTimeCap \in Nat
  /\ CorrectnessJoin \in BOOLEAN
  /\ FeatureColumns # {}
  /\ FeatureColumns \subseteq
       {"total_interactions", "correct_count", "incorrect_count", "accuracy_rate",
        "avg_response_time_ms", "total_elapsed_time_ms", "unique_questions_attempted",
        "unique_lectures_viewed", "active_days"}
  /\ Null \notin Nat \cup (Nat \X Nat)

VARIABLES
  kt4, questions,   \* the raw rows of the run, which no step changes
  stage,            \* the last step computed
  enriched,         \* output of run_feature_engineering
  aggregated,       \* student -> features
  vectors,          \* user_vectors: student -> column -> value
  similarity,       \* [user_id, other_user_id, similarity_score]
  recommendations   \* student -> what rank 1, 2, ... hold, Null until ranked

inputs == <<kt4, questions>>
feature_vars == <<inputs, stage, enriched, aggregated, vectors, similarity,
                  recommendations>>

-----------------------------------------------------------------------------
(* Fractions <<numerator, denominator>>. *)
Gcd(n, d)       == Max({k \in 1 .. d : n % k = 0 /\ d % k = 0})
Fraction(n, d)  == LET g == Gcd(n, d) IN <<n \div g, d \div g>>
Zero            == <<0, 1>>
One             == <<1, 1>>
AtMost(x, y)    == x[1] * y[2] <= y[1] * x[2]
Plus(x, y)      == Fraction(x[1] * y[2] + y[1] * x[2], x[2] * y[2])
Minus(x, y)     == Fraction(x[1] * y[2] - y[1] * x[2], x[2] * y[2])
Times(x, y)     == Fraction(x[1] * y[1], x[2] * y[2])
Over(x, y)      == Fraction(x[1] * y[2], x[2] * y[1])
Least(S)        == CHOOSE x \in S : \A y \in S : AtMost(x, y)
Greatest(S)     == CHOOSE x \in S : \A y \in S : AtMost(y, x)

-----------------------------------------------------------------------------
NoQuestion == [id |-> Null, answer |-> Null, part |-> Null, copy |-> 0]

\* Seeded bug in Matches, for the mutation tests.
InnerMatches(r, asked) == {q \in asked : q.id = r.item}

\* The left join: a row with each question of its id, or with none.
Matches(r, asked) ==
  LET found == {q \in asked : CorrectnessJoin /\ q.id = r.item}
  IN IF found = {} THEN {NoQuestion} ELSE found

\* An answer that is NULL compares as NULL, which takes the otherwise branch.
IsCorrect(r, q) ==
  IF r.action # "respond" \/ q.answer = Null THEN Null
  ELSE IF r.answer = q.answer THEN 1 ELSE 0

ResponseTime(r) ==
  IF r.elapsed = Null THEN Null ELSE Min({r.elapsed, ResponseTimeCap})

EnrichInteractions(rows, asked) ==
  UNION {{[row |-> r, question |-> q, is_correct |-> IsCorrect(r, q),
           response_time_ms |-> ResponseTime(r)] : q \in Matches(r, asked)}
         : r \in rows}

-----------------------------------------------------------------------------
Responds(E) == {e \in E : e.row.action = "respond"}
Enters(E)   == {e \in E : e.row.action = "enter"}
Marked(E, mark) == {e \in E : e.is_correct = mark}

AccuracyRate(E) ==
  IF Responds(E) = {} THEN Zero
  ELSE Fraction(Cardinality(Marked(E, 1)), Cardinality(Responds(E)))

\* avg() and sum() skip NULL and are NULL over nothing else.
AverageResponseTime(E) ==
  LET timed == {e \in Responds(E) : e.response_time_ms # Null}
  IN IF timed = {} THEN Null
     ELSE Fraction(SumFunction([e \in timed |-> e.response_time_ms]), Cardinality(timed))

TotalElapsed(E) ==
  LET timed == {e \in E : e.row.elapsed # Null}
  IN IF timed = {} THEN Null ELSE SumFunction([e \in timed |-> e.row.elapsed])

\* Features of the student all of whose rows are E.
FeaturesOf(E) ==
  [total_interactions         |-> Cardinality(E),
   correct_count              |-> Cardinality(Marked(E, 1)),
   incorrect_count            |-> Cardinality(Marked(Responds(E), 0)),
   accuracy_rate              |-> AccuracyRate(E),
   avg_response_time_ms       |-> AverageResponseTime(E),
   total_elapsed_time_ms      |-> TotalElapsed(E),
   unique_questions_attempted |-> Cardinality({e.row.item : e \in Responds(E)}),
   unique_lectures_viewed     |-> Cardinality({e.row.item : e \in Enters(E)}),
   active_days                |-> Cardinality({e.row.date : e \in E}),
   interactions_part          |->
     [p \in 1 .. 7 |-> Cardinality({e \in E : e.question.part = p})]]

RowsOf(E, u) == {e \in E : e.row.user = u}

Aggregate(E) ==
  LET active == {u \in {e.row.user : e \in E} :
                   Cardinality(RowsOf(E, u)) >= MinInteractions}
  IN [u \in active |-> FeaturesOf(RowsOf(E, u))]

-----------------------------------------------------------------------------
\* The rates are fractions already, the other columns integers.
Column(table, u, c) ==
  IF c \in {"accuracy_rate", "avg_response_time_ms"} \/ table[u][c] = Null
  THEN table[u][c] ELSE <<table[u][c], 1>>

Known(table, c) == {Column(table, u, c) : u \in DOMAIN table} \ {Null}

\* Seeded bug in Scaled, for the mutation tests.
Smoothed(x, known) ==
  Over(Minus(x, Least(known)), Plus(Minus(Greatest(known), Least(known)), One))

Scaled(x, known) ==
  Over(Minus(x, Least(known)), Minus(Greatest(known), Least(known)))

\* A column without two values, even one with NULLs, is 0.0 for everybody.
NormalizeFeatures(table) ==
  [u \in DOMAIN table |-> [c \in FeatureColumns |->
     LET x == Column(table, u, c)
         known == Known(table, c)
     IN IF Cardinality(known) <= 1 THEN Zero
        ELSE IF x = Null THEN Null ELSE Scaled(x, known)]]

Dot(v, w) == FoldFunction(Plus, Zero, [c \in FeatureColumns |-> Times(v[c], w[c])])

\* With a NULL the magnitude is NULL, which is not > 0.
HasMagnitude(v) == (\A c \in FeatureColumns : v[c] # Null) /\ Dot(v, v) # Zero

\* Seeded bug in Cosine, for the mutation tests.
ByOneMagnitude(v, w) ==
  IF HasMagnitude(v) /\ HasMagnitude(w)
  THEN Over(Times(Dot(v, w), Dot(v, w)), Times(Dot(v, v), Dot(v, v)))
  ELSE Zero

Cosine(v, w) ==
  IF HasMagnitude(v) /\ HasMagnitude(w)
  THEN Over(Times(Dot(v, w), Dot(v, w)), Times(Dot(v, v), Dot(w, w)))
  ELSE Zero

Score(a, b, x) == [user_id |-> a, other_user_id |-> b, similarity_score |-> x]

\* The self-join a.user_id < b.user_id: each pair once.
PairScores(table) ==
  {Score(p[1], p[2], Cosine(table[p[1]], table[p[2]])) :
     p \in {q \in (DOMAIN table) \X (DOMAIN table) : q[1] < q[2]}}

\* Seeded bug in CosineSimilarity, for the mutation tests.
Unmirrored(table) == PairScores(table)

CosineSimilarity(table) ==
  LET pairs == PairScores(table)
  IN pairs \cup {Score(s.other_user_id, s.user_id, s.similarity_score) : s \in pairs}

ByScore(s) == IsSorted(s, LAMBDA x, y : AtMost(y.similarity_score, x.similarity_score))
Cut(s, k) == SubSeq(s, 1, Min({k, Len(s)}))

\* row_number() by descending score: equal scores come in any order.
TopRanked(S) == {Cut(s, TopK) : s \in {t \in SetToSeqs(S) : ByScore(t)}}

-----------------------------------------------------------------------------
FeaturesInit ==
  /\ kt4 \in SUBSET Interactions \ {{}}
  /\ questions \in SUBSET Questions
  /\ stage = "intake"
  /\ enriched = {}
  /\ aggregated = <<>>
  /\ vectors = <<>>
  /\ similarity = {}
  /\ recommendations = <<>>

RunFeatureEngineering ==
  /\ stage = "intake"
  /\ enriched' = EnrichInteractions(kt4, questions)
  /\ stage' = "enriched"
  /\ UNCHANGED <<inputs, aggregated, vectors, similarity, recommendations>>

RunFeatureAggregation ==
  /\ stage = "enriched"
  /\ aggregated' = Aggregate(enriched)
  /\ stage' = "aggregated"
  /\ UNCHANGED <<inputs, enriched, vectors, similarity, recommendations>>

\* build_recommendations, call by call.
Normalize ==
  /\ stage = "aggregated"
  /\ vectors' = NormalizeFeatures(aggregated)
  /\ stage' = "normalised"
  /\ UNCHANGED <<inputs, enriched, aggregated, similarity, recommendations>>

Compare ==
  /\ stage = "normalised"
  /\ similarity' = CosineSimilarity(vectors)
  /\ recommendations' = [u \in DOMAIN vectors |-> Null]
  /\ stage' = "compared"
  /\ UNCHANGED <<inputs, enriched, aggregated, vectors>>

\* The window of one student is evaluated, anew for every count and write.
Rank(u) ==
  /\ stage \in {"compared", "ranked"}
  /\ \E top \in TopRanked({s \in similarity : s.user_id = u}) :
       recommendations' = [recommendations EXCEPT ![u] = top]
  /\ stage' = "ranked"
  /\ UNCHANGED <<inputs, enriched, aggregated, vectors, similarity>>

FeaturesNext ==
  \/ RunFeatureEngineering
  \/ RunFeatureAggregation
  \/ Normalize
  \/ Compare
  \/ \E u \in DOMAIN recommendations : Rank(u)

FeaturesSpec == FeaturesInit /\ [][FeaturesNext]_feature_vars

-----------------------------------------------------------------------------
Users  == DOMAIN aggregated
Ranked == {u \in DOMAIN recommendations : recommendations[u] # Null}

Respond(u) == {r \in kt4 : r.user = u /\ r.action = "respond"}

IdsAreUnique == \A p, q \in questions : p.id = q.id => p = q

\* The join loses no interaction, and adds none as long as question ids are
\* unique: each student's counts are then those of the raw rows, the answers to
\* questions with a key are correct or incorrect, and the accuracy lies in [0, 1].
CountsAreOfTheRawRows ==
  stage = "aggregated" => \A u \in Users :
    LET f == aggregated[u]
        part == f.interactions_part
        own == {r \in kt4 : r.user = u}
        Asked(r) == {q \in questions : q.id = r.item}
    IN /\ f.total_interactions >= Cardinality(own)
       /\ f.unique_questions_attempted = Cardinality({r.item : r \in Respond(u)})
       /\ AtMost(f.accuracy_rate, One)
       /\ IdsAreUnique => f.total_interactions = Cardinality(own)
       /\ IdsAreUnique /\ CorrectnessJoin =>
            /\ f.correct_count + f.incorrect_count =
                 Cardinality({r \in Respond(u) : \E q \in Asked(r) : q.answer # Null})
            /\ part[1] + part[2] + part[3] + part[4] + part[5] + part[6] + part[7] =
                 Cardinality({r \in own : \E q \in Asked(r) : q.part \in 1 .. 7})

\* A table whose source has been ingested a second time: two copies of each row.
Copy(r, i)  == [r EXCEPT !.copy = 2 * @ + i]
Twice(rows) == {Copy(r, i) : r \in rows, i \in {0, 1}}
Rates(f) == <<f.accuracy_rate, f.avg_response_time_ms, f.unique_questions_attempted,
              f.unique_lectures_viewed, f.active_days>>

\* A daily ingestion appends a source that is there already.  A second copy of
\* the interactions changes no student's rates and distinct counts, and neither
\* does a second copy of the questions if those answered are all among them.
RatesSurviveRepeatedIngestion ==
  stage = "aggregated" => \A u \in Users :
    /\ Rates(aggregated[u]) =
         Rates(Aggregate(EnrichInteractions(Twice(kt4), questions))[u])
    /\ (\A r \in Respond(u) : \E q \in questions : q.id = r.item) =>
         /\ aggregated[u].accuracy_rate =
              Aggregate(EnrichInteractions(kt4, Twice(questions)))[u].accuracy_rate
         /\ aggregated[u].avg_response_time_ms =
              Aggregate(EnrichInteractions(kt4, Twice(questions)))[u].avg_response_time_ms

\* Nor does a second copy of the interactions change any vector, unless it lifts a
\* student over the minimum of interactions.
VectorsSurviveRepeatedIngestion ==
  stage = "normalised" =>
    LET again == Aggregate(EnrichInteractions(Twice(kt4), questions))
    IN DOMAIN again = Users => NormalizeFeatures(again) = vectors

\* A daily run that ingests a source again leaves rates and vectors, and with them
\* every score, as they were.
RepeatedIngestionIsHarmless ==
  RatesSurviveRepeatedIngestion /\ VectorsSurviveRepeatedIngestion

\* Each student is compared once with every other, the mirrored row included, and
\* a feature that is unknown makes every score of the student 0.
EveryPairIsScoredOnce ==
  /\ {<<s.user_id, s.other_user_id>> : s \in similarity} =
       {p \in Users \X Users : p[1] # p[2]}
  /\ Cardinality(similarity) = Cardinality(Users) * (Cardinality(Users) - 1)
  /\ \A s \in similarity :
       /\ Score(s.other_user_id, s.user_id, s.similarity_score) \in similarity
       /\ (\E c \in FeatureColumns : Null \in {vectors[s.user_id][c],
                                           vectors[s.other_user_id][c]}) =>
            s.similarity_score = Zero

\* Each ordered pair of students has one score: the cosine of their vectors, the
\* same both ways, within [0, 1], 1 for equal vectors, and 0 when a feature of
\* either is unknown.
ScoresAreCosines ==
  stage = "compared" =>
    /\ EveryPairIsScoredOnce
    /\ \A s \in similarity :
         LET v == vectors[s.user_id]
             w == vectors[s.other_user_id]
         IN /\ s.similarity_score = Cosine(v, w)
            /\ AtMost(s.similarity_score, One)
            /\ v = w /\ HasMagnitude(v) => s.similarity_score = One

\* Every student is recommended top_k others, or all of them if they are fewer,
\* and nobody left out is more similar than one who is recommended.
RecommendationsAreTheBest ==
  \A u \in Ranked :
    LET listed == ToSet(recommendations[u])
        chosen == {s.other_user_id : s \in listed}
    IN /\ chosen \subseteq Users \ {u}
       /\ Cardinality(chosen) = Min({TopK, Cardinality(Users) - 1})
       /\ \A s \in listed, t \in similarity :
            t.user_id = u /\ t.other_user_id \notin chosen =>
              AtMost(t.similarity_score, s.similarity_score)

=============================================================================
