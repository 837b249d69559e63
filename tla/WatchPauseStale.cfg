SPECIFICATION Spec
CONSTANTS
  Events = {1, 2}
  Versions = {"hot", "hot2"}
  Items <- AllItems
  Hot = {"hot", "hot2"}
  Clusters <- OneCluster
  HotSize = 2
  HistoryLimit = 2
  Watcher = "watch"
  Campaigns = {}
  Modes = {"manual"}
  HumanStatuses = {"escalated"}
  Verdicts = {"ok", "error"}
  MaxBatch = 2
  MaxCrashes = 0
PROPERTIES PauseNamesPending
