SPECIFICATION Spec
CONSTANTS
    Tasks = {t1, t2, t3}
    Configs = {c1}
    MaxConcurrent = 2
    MaxAttempts = 2
    MaxDead = 1
    MaxTimeouts = 2
SYMMETRY Symmetry
INVARIANTS
    GuardTypeOK
    OverlapBounded
    LimitHolds
    QueueServed
    LogMatchesResult
PROPERTIES
    AdmitsAsSpecified
