SPECIFICATION MappingSpec
CONSTANTS
    Fields = {f1, f2, f3}
    NoField = NoField
    Stamps = {f3}
    MaxDefinitions = 2
    MaxWidth = 2
    Offsets = {1}
    Texts = {"", "a", "ab"}
    Within <- MCWithin
CHECK_DEADLOCK FALSE
INVARIANTS
    LettersNameColumns
