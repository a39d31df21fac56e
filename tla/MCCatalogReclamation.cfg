SPECIFICATION ReclamationSpec
CONSTANTS
    Tokens = {w1, w2}
    Operations = {op1, op2}
    Clients = {c1, c2}
    NoToken = NoToken
    NoOperation = NoOperation
INVARIANTS
    ReclamationTypeOK
    OneExecution
    SnapshotMatchesOwner
    WaitingRequestHasOwner
    CancelReachesOnlyItsExecution
    AttemptIsReachable
PROPERTIES
    TerminalSnapshotStays
    CancelStopsTheRun
    MaintainsAsPromised
