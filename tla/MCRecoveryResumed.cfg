SPECIFICATION ResumedSpec
CONSTANTS
  Paths <- MCPaths
  Offers <- RecoveryOffers
  Found <- GapFound
  Rechecks <- Audits
  MaxUnresolved = 2
  AbsoluteUnresolved = 2
  LeaseBatch = 1
  MaxAttempts = 2
  MaxRows = 4
  MaxLease = 2
  MaxGeneration = 2
CONSTRAINT WithinStory
INVARIANT RecoveryEvidenceKept RecoveryProved RunKeepsOwner BoundedQueue
CHECK_DEADLOCK FALSE
