SPECIFICATION FairSpec
CONSTANTS
  Archive <- Mixed
  MaxObservations = 5
  ScanLimit = 8
  BatchSize = 2
  Runs = {"plain", "again"}
  Reprocessing = {"again"}
  MaxFaults = 2
INVARIANTS TypeOK CompleteMeansStored NothingBeyondSelection LakeIsSelection
PROPERTIES EventuallyComplete
