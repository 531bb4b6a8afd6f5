------------------------------ MODULE Validation ------------------------------
(***************************************************************************)
(* What the validator says of a configuration (services/                   *)
(* config_validator.py), and what becomes of its table when the engine     *)
(* makes it (create_data_table of services/mysql_service.py and            *)
(* services/postgresql_service.py).  The database servers are external.    *)
(*                                                                         *)
(* A name stands for the names of its kind, a finding for the code with    *)
(* which it is reported.                                                   *)
(***************************************************************************)
EXTENDS Columns

CONSTANTS
    TypeNames,      \* what stands before the parentheses of types, in capitals; ""
                    \* for a type that is empty or null, "absent" for no entry
    Forms           \* what the configurations say beside their columns

VARIABLES
    form,           \* the configuration
    verdict,        \* the codes ConfigValidator reported
    table           \* table[b]: what came of the table on database b

Unasked == {"not validated"}

validationVars == <<form, verdict, table>>

Databases == {"mysql", "postgresql"}

-----------------------------------------------------------------------------
(* Names.                                                                  *)

\* Names that ConfigValidator's pattern matches, those it calls reserved, and two
\* that are long; validate_identifier takes 63 characters and also the signs @ and $.
Reserved == {"select"}

\* Columns that PostgreSQL keeps in every table.
SystemColumns == {"xmin"}

Plain63 == {"f", "g"} \cup Reserved \cup SystemColumns
Matching == Plain63 \cup {"chars64", "chars65"}
Identifiers == Plain63 \cup {"f$"}

-----------------------------------------------------------------------------
(* Types.                                                                  *)

\* MYSQL_TYPES of the validator.
UsualTypes ==
    {"INT", "INTEGER", "BIGINT", "SMALLINT", "TINYINT", "MEDIUMINT", "DECIMAL",
     "NUMERIC", "FLOAT", "DOUBLE", "REAL", "CHAR", "VARCHAR", "TEXT", "TINYTEXT",
     "MEDIUMTEXT", "LONGTEXT", "DATE", "TIME", "DATETIME", "TIMESTAMP", "YEAR",
     "BLOB", "TINYBLOB", "MEDIUMBLOB", "LONGBLOB", "ENUM", "SET", "JSON", "BIT",
     "BOOL", "BOOLEAN"}

\* ALLOWED_MYSQL_TYPES.
MySQLTypes == UsualTypes \ {"NUMERIC", "REAL", "ENUM", "SET", "BIT"}

\* ALLOWED_PG_TYPES.
PgTypes ==
    {"SMALLINT", "INTEGER", "BIGINT", "SERIAL", "BIGSERIAL", "REAL",
     "DOUBLE PRECISION", "DECIMAL", "NUMERIC", "VARCHAR", "CHAR", "TEXT", "BYTEA",
     "DATE", "TIME", "TIMESTAMP", "TIMESTAMPTZ", "INTERVAL", "BOOLEAN", "JSON",
     "JSONB", "UUID"}

\* _MYSQL_TO_PG_MAP, with what it does not know left as it is.
PgName(base) ==
    CASE base \in {"INT", "MEDIUMINT"} -> "INTEGER"
      [] base \in {"TINYINT", "YEAR"} -> "SMALLINT"
      [] base = "FLOAT" -> "REAL"
      [] base = "DOUBLE" -> "DOUBLE PRECISION"
      [] base = "DECIMAL" -> "NUMERIC"
      [] base \in {"TINYTEXT", "MEDIUMTEXT", "LONGTEXT"} -> "TEXT"
      [] base \in {"BLOB", "TINYBLOB", "MEDIUMBLOB", "LONGBLOB"} -> "BYTEA"
      [] base = "DATETIME" -> "TIMESTAMP"
      [] base = "TIMESTAMP" -> "TIMESTAMPTZ"
      [] base = "BOOL" -> "BOOLEAN"
      [] base = "JSON" -> "JSONB"
      [] OTHER -> base

\* What follows the name of a type: a size of at least 1 in parentheses; that and an
\* attribute only MySQL knows, as UNSIGNED or CHARACTER SET; or a text with one of the
\* signs ; - / and *.
Rests == {"none", "size", "attribute", "sign"}

Type == {t \in [base : TypeNames, rest : Rests] :
            t.base \in {"", "absent"} => t.rest = "none"}

\* Only a column without the entry gets TEXT, whatever the validator's message says.
TypeOf(col) ==
    IF col.type.base = "absent" THEN [base |-> "TEXT", rest |-> "none"] ELSE col.type

\* A column of a mapping as the validator finds it.
FormColumn ==
    [sheet : Seq(Letter), db : STRING \cup {NoField}, type : Type, key : BOOLEAN,
     direction : STRING, transform : STRING]

ASSUME ValidationAssumption == \A f \in Forms : f.columns \in Seq(FormColumn)

\* A type with PostgreSQL's name; in place of PgType, the mutant that keeps what follows
\* the name after every type.
PgTypeWhole(type) == [base |-> PgName(type.base), rest |-> type.rest]

\* _mysql_to_pg_type: a type the map has keeps what follows its name, all of it, under
\* three names; a type it does not have is not touched.
PgType(type) ==
    IF \/ type.base \notin MySQLTypes
       \/ PgName(type.base) \in {"VARCHAR", "CHAR", "NUMERIC"}
    THEN PgTypeWhole(type)
    ELSE [base |-> PgName(type.base), rest |-> "none"]

-----------------------------------------------------------------------------
(* The validator.                                                          *)

If(condition, code) == IF condition THEN {code} ELSE {}

\* _validate_table_name and _validate_database; the first finding ends each.
NameFindings(name) ==
    IF name = "" THEN {"EMPTY_FIELD"}
    ELSE IF name \notin Matching THEN {"INVALID_TABLE_NAME"}
    ELSE IF name \in Reserved THEN {"SQL_RESERVED_WORD"}
    ELSE If(name = "chars65", "TABLE_NAME_TOO_LONG")
            \cup If(name \in {"chars64", "chars65"}, "warn LONG_TABLE_NAME")

DatabaseFindings(name) ==
    If(name = "", "warn NO_DATABASE")
        \cup If(name # "" /\ name \notin Matching, "INVALID_DATABASE_NAME")

Untyped(col) == col.type.base \in {"", "absent"}

\* Mutant of TypeFindings: a type without parentheses is not looked up.
TypeFindingsSized(col) ==
    If(Untyped(col), "warn NO_DB_TYPE")
        \cup If(col.type.rest # "none" /\ col.type.base \notin UsualTypes, "warn UNCOMMON_DB_TYPE")

TypeFindings(col) ==
    If(Untyped(col), "warn NO_DB_TYPE")
        \cup If(~Untyped(col) /\ col.type.base \notin UsualTypes, "warn UNCOMMON_DB_TYPE")

\* Mutant of DuplicateFindings: a name that is reserved is not looked up among those
\* before it.
DuplicateFindingsElse(cols, n) ==
    If(\E m \in 1 .. n - 1 : cols[m].sheet = cols[n].sheet /\ cols[n].sheet # <<>>,
       "DUPLICATE_SHEET_COL")
        \cup If(\E m \in 1 .. n - 1 : cols[m].db = cols[n].db /\ cols[n].db \notin Reserved \cup {NoField},
                "DUPLICATE_DB_COLUMN")

DuplicateFindings(cols, n) ==
    If(\E m \in 1 .. n - 1 : cols[m].sheet = cols[n].sheet /\ cols[n].sheet # <<>>,
       "DUPLICATE_SHEET_COL")
        \cup If(\E m \in 1 .. n - 1 : cols[m].db = cols[n].db /\ cols[n].db # NoField,
                "DUPLICATE_DB_COLUMN")

\* _validate_column of the n-th column, after those before it.
ColumnFindings(cols, n) ==
    LET col == cols[n]
    IN  DuplicateFindings(cols, n) \cup TypeFindings(col)
          \cup If(col.sheet = <<>>, "EMPTY_SHEET_COL")
          \cup If(col.db = NoField, "EMPTY_DB_COLUMN")
          \cup If(col.db # NoField /\ col.db \notin Matching, "INVALID_DB_COLUMN")
          \cup If(col.db \in Reserved, "warn SQL_RESERVED_WORD")
          \cup If(col.direction \notin Directions, "INVALID_DIRECTION")
          \cup If(col.transform = "unknown", "warn UNKNOWN_TRANSFORM")

\* The rest of _validate_mapping_json, of a mapping that is an object.
RowFindings(f) ==
    If(\A n \in DOMAIN f.columns : ~f.columns[n].key, "NO_PRIMARY_KEY")
        \cup If(f.header < 1, "INVALID_HEADER_ROW")
        \cup If(f.start < 2, "INVALID_DATA_START_ROW")
        \cup If(f.start <= f.header, "INVALID_ROW_CONFIGURATION")

MappingFindings(f) ==
    CASE f.mapping = "absent" -> {"EMPTY_MAPPING"}
      [] f.mapping = "broken" -> {"INVALID_JSON"}
      [] f.mapping = "list" -> {"INVALID_MAPPING_TYPE"}
      [] f.mapping = "object" /\ f.columns = <<>> -> {"MISSING_COLUMNS"}
      [] OTHER -> RowFindings(f)
                     \cup UNION {ColumnFindings(f.columns, n) : n \in DOMAIN f.columns}

\* _validate_spreadsheet_id and _validate_sheet_id.
SourceFindings(f) ==
    If("" \in {f.spreadsheet, f.sheet}, "EMPTY_FIELD")
        \cup If(f.spreadsheet = "abcd", "warn SHORT_ID")

\* _validate_sync_direction.
DirectionFindings(direction) ==
    If(direction = "", "warn NO_SYNC_DIRECTION")
        \cup If(direction \notin {"", "to_mysql", "from_mysql", "bidirectional"},
                "INVALID_SYNC_DIRECTION")

\* _validate_poll_interval.
IntervalFindings(interval) ==
    If(interval < 5, "warn SHORT_POLL_INTERVAL")
        \cup If(interval > 3600, "warn LONG_POLL_INTERVAL")

\* validate_config.
Findings(f) ==
    SourceFindings(f) \cup NameFindings(f.table) \cup DatabaseFindings(f.database)
        \cup MappingFindings(f) \cup DirectionFindings(f.direction)
        \cup IntervalFindings(f.interval)

Warnings ==
    {"warn SHORT_ID", "warn LONG_TABLE_NAME", "warn NO_DATABASE", "warn SQL_RESERVED_WORD",
     "warn NO_DB_TYPE", "warn UNCOMMON_DB_TYPE", "warn UNKNOWN_TRANSFORM",
     "warn NO_SYNC_DIRECTION", "warn SHORT_POLL_INTERVAL", "warn LONG_POLL_INTERVAL"}

ErrorCodes ==
    {"EMPTY_FIELD", "INVALID_TABLE_NAME", "SQL_RESERVED_WORD", "TABLE_NAME_TOO_LONG",
     "INVALID_DATABASE_NAME", "DUPLICATE_SHEET_COL", "DUPLICATE_DB_COLUMN",
     "EMPTY_SHEET_COL", "EMPTY_DB_COLUMN", "INVALID_DB_COLUMN", "INVALID_DIRECTION",
     "NO_PRIMARY_KEY", "INVALID_HEADER_ROW", "INVALID_DATA_START_ROW",
     "INVALID_ROW_CONFIGURATION", "EMPTY_MAPPING", "INVALID_JSON",
     "INVALID_MAPPING_TYPE", "MISSING_COLUMNS", "INVALID_SYNC_DIRECTION"}

-----------------------------------------------------------------------------
(* The table.                                                              *)

\* What the servers make of a column.  MySQL wants a length for VARCHAR, none where it
\* has no meaning, and no key of a type it would have to cut.
MySQLTakes(col) ==
    LET type == TypeOf(col)
        cut == {"TEXT", "TINYTEXT", "MEDIUMTEXT", "LONGTEXT", "BLOB", "TINYBLOB",
                "MEDIUMBLOB", "LONGBLOB", "JSON"}
    IN  /\ type.base = "VARCHAR" => type.rest # "none"
        /\ type.base \in (cut \ {"TEXT", "BLOB"}) \cup {"BOOL", "BOOLEAN", "DATE"}
                => type.rest = "none"
        /\ col.key => type.base \notin cut

\* PostgreSQL has columns of its own and knows none of MySQL's attributes.
PostgreSQLTakes(col) ==
    LET type == PgType(TypeOf(col))
    IN  /\ col.db \notin SystemColumns
        /\ type.rest \in {"none", "size"}
        /\ type.rest = "size" => type.base \in
              {"VARCHAR", "CHAR", "NUMERIC", "DECIMAL", "TIME", "TIMESTAMP", "TIMESTAMPTZ",
               "INTERVAL"}

\* What they make of the statement: names are told apart without their case.
ServerTakes(b, cols) ==
    /\ Distinct(cols, LAMBDA d : d.db)
    /\ \A n \in DOMAIN cols :
          IF b = "mysql" THEN MySQLTakes(cols[n]) ELSE PostgreSQLTakes(cols[n])

\* _validate_mysql_type, and _validate_pg_type of the translated type: both look for
\* the signs as well as for the name.
TypeAllowed(b, type) ==
    IF b = "mysql" THEN type.base \in MySQLTypes /\ type.rest # "sign"
    ELSE PgType(type).base \in PgTypes /\ PgType(type).rest # "sign"

\* The checks of create_data_table, before the statement is made.
ServiceTakes(b, name, cols) ==
    /\ name \in Identifiers
    /\ cols # <<>>
    /\ \A n \in DOMAIN cols :
          cols[n].db \in Identifiers /\ TypeAllowed(b, TypeOf(cols[n]))

-----------------------------------------------------------------------------
ValidationTypeOK ==
    /\ \A n \in DOMAIN form.columns : form.columns[n].type \in Type
    /\ verdict \subseteq ErrorCodes \cup Warnings \cup Unasked
    /\ table \in [Databases -> {"none", "made", "refused", "failed"}]

ValidationInit ==
    /\ form \in Forms
    /\ verdict = Unasked
    /\ table = [b \in Databases |-> "none"]

\* No route or engine asks the validator: whether and when it is asked is open.
ValidateConfig ==
    /\ verdict = Unasked
    /\ verdict' = Findings(form)
    /\ UNCHANGED <<form, table>>

\* _ensure_table_exists of an engine for database b, that finds no table.
EnsureTable(b) ==
    /\ form.mapping = "object"
    /\ table[b] = "none"
    /\ table' = [table EXCEPT ![b] =
                    IF ~ServiceTakes(b, form.table, form.columns) THEN "refused"
                    ELSE IF ServerTakes(b, form.columns) THEN "made" ELSE "failed"]
    /\ UNCHANGED <<form, verdict>>

ValidationNext == ValidateConfig \/ \E b \in Databases : EnsureTable(b)

ValidationSpec == ValidationInit /\ [][ValidationNext]_validationVars

-----------------------------------------------------------------------------
(* What holds of a validated configuration.                                *)

Errors == verdict \ Warnings

\* The two validators of the code agree on names, keys and duplicates: a mapping that
\* ConfigValidator finds no error in has none for the mapping engine, its transforms
\* aside, of which only the engine calls an unknown one an error.
AcceptedIsUsable == verdict # Unasked /\ Errors = {} => ValidColumns(form.columns)

\* A table that MySQL has passes PostgreSQL's service, which gets its own names of the
\* types.  The server takes it too but for two reasons that no code looks at: a column
\* that PostgreSQL keeps for itself, and an attribute of MySQL's, which comes through
\* after the three types that keep what follows their name.
PortableTable ==
    table["mysql"] = "made" /\ table["postgresql"] \in {"refused", "failed"}
    => /\ table["postgresql"] = "failed"
       /\ \E n \in DOMAIN form.columns :
             LET col == form.columns[n]
             IN  \/ col.db \in SystemColumns
                 \/ /\ col.type.rest = "attribute"
                    /\ col.type.base \in {"VARCHAR", "CHAR", "DECIMAL"}

\* Of a configuration reported without errors or doubts about its types, MySQL's
\* table is only refused for a name of 64 characters, a longer one of a column, whose
\* length no validator looks at, one of five types, a sign after a type, or a type that
\* is empty or null: of it the validator says that it gets a default, which only a
\* column without the entry does.
AcceptedIsMade ==
    /\ verdict # Unasked /\ Errors = {}
    /\ "warn UNCOMMON_DB_TYPE" \notin verdict
    /\ table["mysql"] = "refused"
    => \/ form.table = "chars64"
       \/ \E n \in DOMAIN form.columns :
             \/ form.columns[n].db \in {"chars64", "chars65"}
             \/ form.columns[n].type.base \in {"", "NUMERIC", "REAL", "ENUM", "SET", "BIT"}
             \/ form.columns[n].type.rest = "sign"
=============================================================================
