SPECIFICATION TSpec
CONSTANTS
  Clusters <- Threads
  MaxReplyDepth = 2
  MaxReferences = 2
  MaxPaths = 2
  Threshold = 75
  TypedRefs = {"task"}
  Others <- OtherSignals
  MaxOthers = 2
INVARIANTS PathsExact HighHasRoute
PROPERTIES EvidenceMonotone
CHECK_DEADLOCK FALSE
