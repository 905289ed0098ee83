SPECIFICATION FairSpec
CONSTANTS
  Event = {ping}
  Subscribable = {ping}
  Historical = {ping}
  None = None
  JournalSize = 2
  PageLimit = 1
  MaxRevision = 3
  MaxGeneration = 2
  MaxFault = 1
  MaxListener = 1
CHECK_DEADLOCK FALSE
INVARIANTS
  TypeOK
  CaughtUp
  ResolvedMeansReplayed
  AgreeAtRest
PROPERTIES
  FeedIsImplemented
  ReconcilingEnds
