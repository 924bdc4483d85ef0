\* Two runs, a file each writes for both of two equal candidates, a batch each, larger than allowed; "b" is retained.
SPECIFICATION FairSpec
CONSTANTS
  NaN = NaN
  None = None
  Torn = Torn
  r1 = r1
  r2 = r2
  Runs = {r1, r2}
  Unit = 4
  CacheOn = TRUE
  BatchMaxItems = 1
  BatchMaxTokens = 0
  Vetoed = {"b"}
  Candidates <- TwoItems
  Hash <- SameContent
  Cost <- UnitCost
  Policy <- OnePolicy
  Responses <- AnyResponse
INVARIANTS
  TypeOK
  DecisionsWereAnswered
  OneDecisionPerItem
  AskedOnceOrCached
  FailuresStayLocal
PROPERTIES
  RunsEnd
CHECK_DEADLOCK FALSE
