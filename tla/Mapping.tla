------------------------------- MODULE Mapping -------------------------------
(***************************************************************************)
(* The mapping of sheet columns to table columns (services/mapping.py), as *)
(* the engines use it: rows read from column A on are zipped with the      *)
(* mapping's columns, and rows written go to A2 in the table's order; and  *)
(* the mapping proposed for a sheet (routers/tencent_helper.py).           *)
(*                                                                         *)
(* One row of the sheet is followed.  A value is the number of the column  *)
(* it was read from, so that a field tells where its value comes from.     *)
(***************************************************************************)
EXTENDS Columns

CONSTANTS
    Stamps,         \* the table columns created_at and updated_at
    MaxDefinitions, \* bound on the columns of a mapping
    MaxWidth,       \* bound on the cells of a row
    Offsets,        \* columns that are empty before the headers of a sheet
    Texts,          \* headers and names after _normalize_name
    Within          \* Within[x][y]: text x is part of text y

ASSUME MappingAssumption ==
    /\ Stamps \subseteq Fields
    /\ {MaxDefinitions, MaxWidth} \subseteq Nat
    /\ Offsets \subseteq Nat
    /\ Within \in [Texts -> [Texts -> BOOLEAN]]

VARIABLES
    columns,    \* config["columns"]
    origin,     \* origin[n]: the column whose header was proposed as columns[n]
    stage,      \* what has been done with the row
    field,      \* field[f]: the value table column f got; 0: NULL
    order,      \* the table's columns in the order of SELECT *
    out         \* the cells put back, from column A on

mappingVars == <<columns, origin, stage, field, order, out>>

-----------------------------------------------------------------------------
(* Rows.                                                                   *)

NoRow == [f \in Fields |-> 0]

\* Mutant of Zipped: the cell is taken by the column's letters.
ZippedByLetter(map, n) == ColumnNumber(map[n].sheet)

\* dict(zip(sheet_cols, row)) pairs the n-th column of the map with the n-th cell.
Zipped(map, n) == n

\* sheet_row_to_db_row of a row of so many cells: the columns that go to the
\* table, of two with the same table column the later.
SheetRowToDbRow(cols, width) ==
    LET map == ColumnMap(cols)
        For(f) == {n \in DOMAIN map : map[n].db = f /\ ToTable(map[n])
                                      /\ Zipped(map, n) <= width}
    IN  [f \in Fields |->
            IF For(f) = {} THEN 0
            ELSE Zipped(map, CHOOSE n \in For(f) : \A m \in For(f) : m <= n)]

\* db_col_to_sheet_col: the first definition with that table column, if any.
SheetColumnOf(cols, f) ==
    LET map == ColumnMap(cols)
        at == {n \in DOMAIN map : map[n].db = f}
    IN  {map[n] : n \in {m \in at : \A k \in at : m <= k}}

\* The columns that db_row_to_sheet_row passes on: the two time stamps stay in the
\* table, whatever their definition's direction.
Returns(d) == d.db \notin Stamps /\ FromTable(d)

\* db_row_to_sheet_row keeps the table's order, and list(row.values()) forgets
\* the letters.
DbRowToSheetRow(cols, row, names) ==
    LET back == Those(names, {f \in Fields : \E d \in SheetColumnOf(cols, f) : Returns(d)})
    IN  [n \in DOMAIN back |-> row[back[n]]]

-----------------------------------------------------------------------------
(* The proposed mapping.                                                   *)

\* build_mapping_suggestions for one header, the table's columns (name and
\* normalized name) and the names used before: the column with that very name,
\* the last of several; else the first unused one of which one is part of the other.
Matches(header, names, used) ==
    LET exact == {i \in DOMAIN names : names[i].text = header}
        part == {i \in DOMAIN names :
                    /\ header # "" /\ names[i].text \notin used
                    /\ Within[header][names[i].text] \/ Within[names[i].text][header]}
    IN  IF exact # {}
        THEN {i \in exact : \A j \in exact : j <= i}
        ELSE {i \in part : \A j \in part : i <= j}

\* Mutant of Unused: what was proposed before is proposed again.
UnusedAny(found, names, used) == found

Unused(found, names, used) == {i \in found : names[i].text \notin used}

\* fetch_sheet_fields passes over a blank header.
Found(header, names, used) ==
    IF header = "blank" THEN {} ELSE Unused(Matches(header, names, used), names, used)

\* fetch_sheet_fields names a header's column by get_column_letter(index + 1),
\* where index is the 0-based place of the header: the letters of the next column.
Suggested(before, place, name) ==
    [used |-> before.used \cup {name.text},
     cols |-> Append(before.cols,
                [sheet |-> ColumnLetter(place), db |-> name.name,
                 direction |-> "bidirectional", key |-> name.key]),
     from |-> Append(before.from, place)]

\* One header's turn.
Extended(before, header, place, names) ==
    LET found == Found(header, names, before.used)
    IN  IF found = {} THEN before
        ELSE Suggested(before, place, names[CHOOSE i \in found : TRUE])

Proposed(headers, offset, names) ==
    LET after[n \in 0 .. Len(headers)] ==
            IF n = 0 THEN [used |-> {}, cols |-> <<>>, from |-> <<>>]
            ELSE Extended(after[n - 1], headers[n], offset + n, names)
    IN  after[Len(headers)]

-----------------------------------------------------------------------------
MappingTypeOK ==
    /\ columns \in Seq(Definition)
    /\ origin \in Seq(Nat)
    /\ stage \in {"new", "stored", "proposed", "read", "written"}
    /\ field \in [Fields -> Nat]
    /\ order \in Seq(Fields)
    /\ out \in Seq(Nat)

\* An existing table may have the columns in any order.
TableOrders ==
    {names \in [1 .. Cardinality(Fields) -> Fields] :
        \A i, j \in DOMAIN names : names[i] = names[j] => i = j}

\* _ensure_table_exists makes one with the columns of the mapping in their order.
TableOf(cols) == [n \in DOMAIN Complete(cols) |-> Complete(cols)[n].db]

MappingInit ==
    /\ columns = <<>> /\ origin = <<>> /\ order = <<>> /\ out = <<>>
    /\ stage = "new"
    /\ field = NoRow

SeqsUpTo(S, n) == UNION {[1 .. k -> S] : k \in 0 .. n}

\* A mapping as a user writes it, over the first columns of the sheet.
StoreMapping ==
    /\ stage = "new"
    /\ stage' = "stored"
    /\ columns' \in SeqsUpTo([sheet : {<<>>} \cup {ColumnLetter(c - 1) : c \in 1 .. MaxWidth},
                              db : Fields \cup {NoField}, key : BOOLEAN,
                              direction : {"to_mysql", "from_mysql_only",
                                           "bidirectional", "sideways"}], MaxDefinitions)
    /\ UNCHANGED <<origin, field, order, out>>

\* build_mapping_suggestions, and its answer stored.  (GET /auto-map reads the
\* columns by a name that the rows of SHOW COLUMNS do not have, and so proposes
\* nothing; the front end offers the letters of the headers all the same.)
ProposeMapping ==
    /\ stage = "new"
    /\ stage' = "proposed"
    /\ \E headers \in SeqsUpTo(Texts \cup {"blank"}, MaxWidth), offset \in Offsets,
          text \in [Fields -> Texts], key \in Fields, names \in TableOrders :
          LET table == [i \in DOMAIN names |->
                          [name |-> names[i], text |-> text[names[i]],
                           key |-> names[i] = key]]
              answer == Proposed(headers, offset, table)
          IN  columns' = answer.cols /\ origin' = answer.from
    /\ UNCHANGED <<field, order, out>>

\* A run reads the row, of which the API leaves out the empty cells at the end ...
ReadRow ==
    /\ stage \in {"stored", "proposed"}
    /\ stage' = "read"
    /\ \E width \in 0 .. MaxWidth : field' = SheetRowToDbRow(columns, width)
    /\ UNCHANGED <<columns, origin, order, out>>

\* ... and one writes it back, from a table that the engine has made of the
\* mapping or that was there before.
WriteRow ==
    /\ stage = "read"
    /\ stage' = "written"
    /\ order' \in TableOrders \cup {TableOf(columns)}
    /\ out' = DbRowToSheetRow(columns, field, order')
    /\ UNCHANGED <<columns, origin, field>>

MappingNext == StoreMapping \/ ProposeMapping \/ ReadRow \/ WriteRow

MappingSpec == MappingInit /\ [][MappingNext]_mappingVars

-----------------------------------------------------------------------------
(* What holds of mappings.                                                 *)

\* What ConfigValidator finds no error in.
Accepted(cols) ==
    ValidColumns(cols) /\ \A n \in DOMAIN cols : cols[n].direction \in Directions

\* With the table the engine makes, no value comes back in another column than
\* it was read from, whatever letters the mapping has: what the zip does with the
\* letters, the write undoes, if the columns that stay out of the sheet, by their
\* direction or as time stamps, are the last.
RoundTripInPlace ==
    /\ stage = "written" /\ Accepted(columns) /\ order = TableOf(columns)
    /\ \A m, n \in DOMAIN columns :
          m < n /\ Returns(columns[n]) => Returns(columns[m])
    => \A n \in DOMAIN out : out[n] \in {0, n}

\* A proposal that has a key is a mapping the engine accepts: headers that match one
\* table column, or are part of each other, get no column twice.  Its letters, also
\* past Z and ZZ, are as far from each other as its headers.
ProposalUsable ==
    stage = "proposed" =>
        /\ (\E n \in DOMAIN columns : columns[n].key) => Accepted(columns)
        /\ \A m, n \in DOMAIN columns :
              ColumnNumber(columns[m].sheet) + origin[n]
                  = ColumnNumber(columns[n].sheet) + origin[m]

-----------------------------------------------------------------------------
(* What documents of the repository say and the code denies.               *)

\* SPEC.md:414, a definition's sheet_col is the column of the actual header: what a
\* run reads into a field through a proposed mapping stands below the header the
\* field was proposed for, in the column that the letters name.
LettersNameColumns ==
    stage = "read" /\ origin # <<>> =>
        \A n \in DOMAIN columns :
            LET value == field[columns[n].db]
            IN  ToTable(columns[n]) /\ value # 0 =>
                    value = origin[n] /\ ColumnNumber(columns[n].sheet) = origin[n]
=============================================================================
