------------------------------- MODULE Columns -------------------------------
(***************************************************************************)
(* Column letters and column definitions (services/mapping.py): the parts  *)
(* of the mapping engine that the mapping of rows and the validation of    *)
(* configurations share.                                                   *)
(***************************************************************************)
EXTENDS Naturals, Sequences, FiniteSets, Selection

CONSTANTS
    Fields,         \* names of table columns
    NoField         \* a column definition without one

ASSUME ColumnsAssumption == IsFiniteSet(Fields) /\ NoField \notin Fields

-----------------------------------------------------------------------------
(* Column letters, a sequence of digits 0 .. 25.                           *)

Letter == 0 .. 25

\* get_column_letter, of an index that counts from 0.
ColumnLetter(index) ==
    LET letters[n \in 0 .. index + 1] ==
            IF n = 0 THEN <<>> ELSE Append(letters[(n - 1) \div 26], (n - 1) % 26)
    IN  letters[index + 1]

\* get_column_index plus one: the column's number, from 1; 0 for no letters.
ColumnNumber(letters) ==
    LET number[k \in 0 .. Len(letters)] ==
            IF k = 0 THEN 0 ELSE number[k - 1] * 26 + letters[k] + 1
    IN  number[Len(letters)]

-----------------------------------------------------------------------------
(* The mapping.                                                            *)

Directions == {"to_mysql", "to_mysql_only", "from_mysql", "from_mysql_only",
               "bidirectional"}

Definition == [sheet : Seq(Letter), db : Fields \cup {NoField},
               direction : Directions \cup {"sideways"}, key : BOOLEAN]

\* can_sync_to_mysql and can_sync_from_mysql; an unknown direction is neither.
ToTable(d) == d.direction \in {"to_mysql", "to_mysql_only", "bidirectional"}
FromTable(d) == d.direction \in {"from_mysql", "from_mysql_only", "bidirectional"}

Complete(cols) ==
    Those(cols, {d \in {cols[n] : n \in DOMAIN cols} : d.sheet # <<>> /\ d.db # NoField})

\* An assignment to a dictionary of the sheet columns: the definition replaces the
\* one its column has, in its place, or comes last.
Placed(map, d) ==
    IF \E n \in DOMAIN map : map[n].sheet = d.sheet
    THEN [n \in DOMAIN map |-> IF map[n].sheet = d.sheet THEN d ELSE map[n]]
    ELSE Append(map, d)

\* _init_column_map passes over what lacks one of the two names.
ColumnMap(cols) ==
    LET all == Complete(cols)
        map[n \in 0 .. Len(all)] == IF n = 0 THEN <<>> ELSE Placed(map[n - 1], all[n])
    IN  map[Len(all)]

\* No two definitions have the same name.
Distinct(cols, Name(_)) ==
    \A m, n \in DOMAIN cols : Name(cols[m]) = Name(cols[n]) => m = n

\* validate_config of the engine, which does not look at directions; its list of
\* transforms is left out.
ValidColumns(cols) ==
    /\ cols # <<>>
    /\ \A n \in DOMAIN cols : cols[n].sheet # <<>> /\ cols[n].db # NoField
    /\ Distinct(cols, LAMBDA d : d.sheet)
    /\ Distinct(cols, LAMBDA d : d.db)
    /\ \E n \in DOMAIN cols : cols[n].key
=============================================================================
