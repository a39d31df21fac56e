SPECIFICATION LeaseSpec
CONSTANTS
  Paths <- MCPaths
  Offers <- MCOffers
  MaxUnresolved = 4
  AbsoluteUnresolved = 5
  LeaseBatch = 2
  MaxAttempts = 2
  MaxRows = 2
  MaxLease = 3
  MaxGeneration = 2
CONSTRAINT WithinStory
INVARIANT PathEvidenceKept LeaseNamesWork CaptureBelowWatermark CurrentGenerationOnly
PROPERTY TerminalStaysTerminal
CHECK_DEADLOCK FALSE
