SPECIFICATION FairSpec
CONSTANTS
    Tasks = {t1, t2, t3}
    Configs = {c1}
    MaxConcurrent = 1
    MaxAttempts = 2
    MaxDead = 1
    MaxTimeouts = 0
PROPERTIES
    EveryCallEnds
