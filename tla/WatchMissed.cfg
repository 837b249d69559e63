SPECIFICATION FairMSpec
CONSTANTS
  Events = {1, 2, 3, 4}
  Versions = {"hot", "cold"}
  Items <- SharedEdited
  Hot = {"hot"}
  Clusters <- WideClusters
  HotSize = 2
  HistoryLimit = 3
  Watcher = "watch"
  Campaigns = {"campaign"}
  Modes = {"auto", "manual"}
  HumanStatuses = {}
  Verdicts = {"ok", "error"}
  MaxBatch = 1
  MaxCrashes = 1
INVARIANTS MissedIsExplained ReportCurrent
PROPERTIES AutoResolves
