SPECIFICATION Spec
CONSTANTS
  Events = {1, 2}
  Versions = {"hot", "cold"}
  Items <- FirstEdited
  Hot = {"hot"}
  Clusters <- NestedClusters
  HotSize = 1
  HistoryLimit = 2
  Watcher = "watch"
  Campaigns = {"campaign"}
  Modes = {"manual", "auto"}
  HumanStatuses = {"escalated"}
  Verdicts = {"ok", "error"}
  MaxBatch = 2
  MaxCrashes = 1
INVARIANTS TypeOK LossBoundedByCrashes ClaimsExclusive AtMostOnePending NoCollectionWhilePending ErrorHasReview
PROPERTIES ImplementsAlertBook
