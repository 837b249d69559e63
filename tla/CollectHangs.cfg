SPECIFICATION FairSpec
CONSTANTS
  Jobs <- TwoByTwo
  Sources = {"A", "B"}
  SourceOf <- TwoByTwoSources
  Concurrency = 2
  Retries = 0
  BurstThreshold = 2
  DelaySteps = 2
  Answers <- AllAnswers
PROPERTIES CampaignEnds
