SPECIFICATION Spec
CONSTANTS
    Keys = {a, b}
    Vals = {x, y}
    Absent = Absent
    Blank = Blank
    Tasks = {t1, t2}
    Nobody = Nobody
    LastRow = 2
    Kinds = {"to_mysql", "range"}
    KeyLookups = {TRUE, FALSE}
    MaxFaults = 1
    MaxEdits = 2
    MaxDbEdits = 1
    MaxCrashes = 1
SYMMETRY Symmetry
INVARIANTS
    TrackingAgrees
    CleanBatchLanded

    
