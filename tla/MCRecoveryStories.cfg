SPECIFICATION StoriesSpec
CONSTANTS
  Paths <- MCPaths
  Offers <- RecoveryOffers
  Found <- GapFound
  Rechecks <- Audits
  MaxUnresolved = 4
  AbsoluteUnresolved = 5
  LeaseBatch = 1
  MaxAttempts = 1
  MaxRows = 4
  MaxLease = 1
  MaxGeneration = 2
CONSTRAINT WithinStory
INVARIANT RecoveryTypeOK RecoveryEvidenceKept RecoveryProved
PROPERTY RecoveryRetiresCurrent
CHECK_DEADLOCK FALSE
