SPECIFICATION Spec
CONSTANTS
    Tasks = {t1, t2, t3}
    Configs = {c1}
    MaxConcurrent = 2
    MaxAttempts = 2
    MaxDead = 2
    MaxTimeouts = 0
SYMMETRY Symmetry
PROPERTIES
    PermanentFailuresQueued
