SPECIFICATION Spec
CONSTANTS
    t1 = t1
    t2 = t2
    Callers = {t1, t2}
    s1 = s1
    s2 = s2
    Scans = {s1, s2}
    Roles <- WaitRoles
    MaxReplacements = 0
    NoCaller = NoCaller
    NoScan = NoScan
PROPERTIES
    ForegroundWaitEnds
