SPECIFICATION FairSpec
CONSTANTS
    Writers = {w1, w2, w3}
    Watchers = {e1}
    MaxCalls = 1
    MaxWrites = 1
    Asks <- MCAsks
    NoCallback = NoCallback
INVARIANTS TypeOK SingleWriter QueueMatchesTokens NoLostWakeup OutrankedWriterIsTold
PROPERTIES AdmissionOrder BlockedWriterIsAdmitted WatcherReturns
CHECK_DEADLOCK FALSE
