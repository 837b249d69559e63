SPECIFICATION FairSpec
CONSTANTS
  Jobs <- TwoByTwo
  Sources = {"A", "B"}
  SourceOf <- TwoByTwoSources
  Concurrency = 3
  Retries = 1
  BurstThreshold = 2
  DelaySteps = 4
  Answers <- AllAnswers
INVARIANTS TypeOK
PROPERTIES WedgedForGood ThrottledForGood EndsOrWedges OthersEnd
