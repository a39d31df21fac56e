SPECIFICATION SafetySpec
CONSTANTS
    Callers = {t1, t2}
    s1 = s1
    s2 = s2
    Scans = {s1, s2}
    t1 = t1
    t2 = t2
    Roles <- MCRoles
    MaxReplacements = 1
    NoCaller = NoCaller
    NoScan = NoScan
INVARIANTS
    SessionTypeOK
    ScanKeepsItsSession
    RecoveryRunsAlone
    ReadySessionSurvivesUpkeep
    WaiterHasWaker
