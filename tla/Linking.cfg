SPECIFICATION FairSpec
CONSTANTS
  Inputs <- Five
  Typed = {"m", "n", "c"}
  Urls = {"url"}
  MaxLinkedBuckets = 3
  MaxKeys = 3
  Window = 60
INVARIANTS CapKept LinksHaveReason AllLinksUnlessFull WindowsTight
PROPERTIES Terminates ImplementsPartition
CHECK_DEADLOCK FALSE
