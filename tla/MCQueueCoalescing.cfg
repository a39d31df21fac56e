SPECIFICATION CoalescingSpec
CONSTANTS
  Paths <- MCPaths
  Offers <- MCOffers
  MaxUnresolved = 2
  AbsoluteUnresolved = 2
  LeaseBatch = 1
  MaxAttempts = 1
  MaxRows = 3
  MaxLease = 1
  MaxGeneration = 1
CONSTRAINT WithinStory
INVARIANT TypeOK PathEvidenceKept OnePathOwner BoundedQueue
CHECK_DEADLOCK FALSE
