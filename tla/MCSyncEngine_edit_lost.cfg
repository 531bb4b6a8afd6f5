SPECIFICATION Spec
CONSTANTS
    Keys = {a, b}
    Vals = {x, y}
    Absent = Absent
    Blank = Blank
    Tasks = {t1}
    Nobody = Nobody
    LastRow = 2
    Kinds = {"bidirectional"}
    KeyLookups = {TRUE, FALSE}
    MaxFaults = 1
    MaxEdits = 2
    MaxDbEdits = 0
    MaxCrashes = 0
SYMMETRY Symmetry
PROPERTIES
    NoEditLost
