\* Two runs under different policies, each in two batches, with one retry.
SPECIFICATION JevFairSpec
CONSTANTS
  NaN = NaN
  None = None
  Torn = Torn
  r1 = r1
  r2 = r2
  Runs = {r1, r2}
  Unit = 4
  Levels = 5
  Retries = 1
  CacheOn = TRUE
  BatchMaxItems = 1
  BatchMaxTokens = 8
  Vetoed = {}
  Candidates <- TwoItems
  Hash <- OwnContent
  Cost <- UnitCost
  Policy <- TwoPolicies
  JevAnswer <- PlainAnswers
  Responses <- JevResponses
INVARIANTS
  DropsAreConfident
  DecisionsFollowPolicy
  PostsAreBounded
CHECK_DEADLOCK FALSE
PROPERTY CallsEnd
