SPECIFICATION FairSpec
CONSTANTS
    Keys = {a}
    Vals = {x, y}
    Absent = Absent
    Blank = Blank
    Tasks = {t1, t2}
    Nobody = Nobody
    LastRow = 2
    Kinds = {"to_mysql", "from_mysql"}
    KeyLookups = {TRUE, FALSE}
    MaxFaults = 1
    MaxEdits = 1
    MaxDbEdits = 1
    MaxCrashes = 0
PROPERTIES
    EveryRunEnds
    EventuallyExported
