SPECIFICATION Spec
CONSTANTS
  Names <- SomeNames
  Procs <- TwoProcs
  Inodes <- SomeInodes
  Events <- SomeEvents
  ThreadEvents = {"issue"}
  Repos <- OneRepo
  RepoOf <- OfRepo
  Reports <- TwoReports
  Policies <- SomePolicies
  Scopes <- SomeScopes
INVARIANTS PublishedWhole RunAllOrNothing
PROPERTIES PublishedForward EventuallyStored
