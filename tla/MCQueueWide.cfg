SPECIFICATION AlbumSpec
CONSTANTS
  Paths <- MCPaths
  Offers <- MCOffers
  MaxUnresolved = 4
  AbsoluteUnresolved = 5
  LeaseBatch = 2
  MaxAttempts = 2
  MaxRows = 4
  MaxLease = 2
  MaxGeneration = 1
CONSTRAINT WithinStory
INVARIANT WideEvidenceKept
CHECK_DEADLOCK FALSE
