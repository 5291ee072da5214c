CONSTANTS
  Interactions <- MCInteractions
  Questions <- MCQuestions
  Null = Null
  CorrectnessJoin = TRUE
  ResponseTimeCap = 2
  MinInteractions = 2
  FeatureColumns = {"accuracy_rate", "avg_response_time_ms", "total_interactions"}
  TopK = 2
SPECIFICATION FeaturesSpec
CHECK_DEADLOCK FALSE
INVARIANTS
  CountsAreOfTheRawRows
  
  ScoresAreCosines
  RecommendationsAreTheBest
