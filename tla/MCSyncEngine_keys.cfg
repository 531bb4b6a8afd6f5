SPECIFICATION Spec
CONSTANTS
    Keys = {a, b}
    Vals = {x, y}
    Absent = Absent
    Blank = Blank
    Tasks = {t1}
    Nobody = Nobody
    LastRow = 2
    Kinds = {"to_mysql"}
    KeyLookups = {FALSE}
    MaxFaults = 0
    MaxEdits = 1
    MaxDbEdits = 0
    MaxCrashes = 0
SYMMETRY Symmetry
INVARIANTS
    RowsAreSynchronised
