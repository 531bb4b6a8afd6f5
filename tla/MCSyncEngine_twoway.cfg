SPECIFICATION Spec
CONSTANTS
    Keys = {a, b}
    Vals = {x, y}
    Absent = Absent
    Blank = Blank
    Tasks = {t1}
    Nobody = Nobody
    LastRow = 2
    Kinds = {"from_mysql", "bidirectional", "scheduled"}
    KeyLookups = {TRUE, FALSE}
    MaxFaults = 1
    MaxEdits = 3
    MaxDbEdits = 1
    MaxCrashes = 1
SYMMETRY Symmetry
INVARIANTS
    TypeOK
PROPERTIES
    PutKeepsSyncedRows
