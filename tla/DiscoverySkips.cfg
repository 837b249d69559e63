SPECIFICATION FairSpec
CONSTANTS
  NumQueries = 1
  BatchSize = 1
  Sources <- CodeAndGrep
  Total <- Eight
  Options <- HalfPage
  CodePage = 2
  GrepPage = 2
  SearchCap = 8
  GrepPages = 4
  MaxCrashes = 0
  MaxChanges = 0
PROPERTIES EverythingFound
