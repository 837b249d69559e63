SPECIFICATION FairSpec
CONSTANTS
  NumQueries = 2
  BatchSize = 1
  Sources <- ThreadAndCode
  Total <- Few
  Options <- WholePages
  CodePage = 1
  GrepPage = 1
  SearchCap = 4
  GrepPages = 3
  MaxCrashes = 1
  MaxChanges = 2
INVARIANTS TypeOK SkipsBoundedByCrashes
PROPERTIES EverythingFound
