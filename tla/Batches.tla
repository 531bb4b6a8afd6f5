------------------------------- MODULE Batches -------------------------------
(***************************************************************************)
(* Rows on their way to a table through DataValidator and BatchOptimizer   *)
(* (services/batch_optimizer.py): each is validated and cleaned, those     *)
(* reported valid are split into batches, and each batch is one statement  *)
(* with the columns of its first row.                                      *)
(*                                                                         *)
(* A value is the kind of text a sheet's cell holds.                       *)
(***************************************************************************)
EXTENDS Naturals, Sequences

CONSTANTS
    KeyColumns,     \* db columns with primary_key
    DataColumns,    \* the others
    ColumnTypes,    \* kinds of db_type: "INT", "BOOL", "TEXT"
    MaxRows,        \* bound on the rows validated
    BatchSizes      \* values of batch_size

ASSUME BatchesAssumption ==
    /\ KeyColumns \cap DataColumns = {}
    /\ MaxRows \in Nat
    /\ BatchSizes \subseteq Nat \ {0}

BatchColumns == KeyColumns \cup DataColumns

\* "None" is the absence of a cell, and what an empty one is cleaned to.
Cells == {"None", "", "  ", "1", "word"}
Cleaned == {"None", "", "1", "word", "True", "False"}

VARIABLES
    types,      \* types[f]: the kind of db_type of column f
    size,       \* batch_size
    seen,       \* rows validated so far
    erring,     \* validation_errors is not empty
    accepted,   \* rows reported valid, cleaned
    sent,       \* how many of the batches have been sent
    held        \* held[k]: the row of the table with key k, if there is one

batchVars == <<types, size, seen, erring, accepted, sent, held>>

-----------------------------------------------------------------------------
(* Validation.                                                             *)

\* Mutant of IsError: the empty text is not asked for.
IsErrorNone(cell, type, required) ==
    \/ cell = "None" /\ required
    \/ cell \in {"  ", "word"} /\ type = "INT"

\* validate_value: an empty cell is an error only in a key column; the text is
\* stripped, and may then be no number; what is no boolean is False.
IsError(cell, type, required) ==
    \/ cell \in {"None", ""} /\ required
    \/ cell \in {"  ", "word"} /\ type = "INT"

CleanedValue(cell, type) ==
    CASE cell \in {"None", ""} -> "None"
      [] cell \notin {"None", ""} /\ type = "BOOL" -> IF cell = "1" THEN "True" ELSE "False"
      [] cell = "  " /\ type # "BOOL" -> ""
      [] OTHER -> cell

\* The cleaned row of validate_row: a dictionary without the fields that have an
\* error or no value, here "None".
CleanedRow(row) ==
    [f \in BatchColumns |->
        IF IsError(row[f], types[f], f \in KeyColumns) THEN "None"
        ELSE CleanedValue(row[f], types[f])]

HasError(row) == \E f \in BatchColumns : IsError(row[f], types[f], f \in KeyColumns)

-----------------------------------------------------------------------------
(* Batches.                                                                *)

\* Mutant of Batch: the last batch ends one row early.
BatchShort(rows, n) ==
    SubSeq(rows, (n - 1) * size + 1, IF n * size >= Len(rows) THEN Len(rows) - 1 ELSE n * size)

\* split_into_batches: the n-th batch.
Batch(rows, n) ==
    SubSeq(rows, (n - 1) * size + 1, IF n * size > Len(rows) THEN Len(rows) ELSE n * size)

Count == (Len(accepted) + size - 1) \div size

\* The columns of optimize_batch_insert are the keys of its first row.
ColumnsOf(batch) == {f \in BatchColumns : batch[1][f] # "None"}

Key(row) == [k \in KeyColumns |-> row[k]]

Keys == [KeyColumns -> Cleaned]

NoRowHeld == [f \in BatchColumns |-> "absent"]

\* One tuple of the statement, with ON DUPLICATE KEY UPDATE of the columns that
\* are no keys.
Upsert(table, row, cols) ==
    [table EXCEPT ![Key(row)] =
        [f \in BatchColumns |->
            IF f \in cols THEN row[f]
            ELSE IF @ = NoRowHeld THEN "None" ELSE @[f]]]

\* What follows ON DUPLICATE KEY UPDATE is empty when all columns are keys, and
\* the statement is none.
IsStatement(cols) == cols \ KeyColumns # {}

UpsertAll(table, batch, cols) ==
    LET after[n \in 0 .. Len(batch)] ==
            IF n = 0 THEN table ELSE Upsert(after[n - 1], batch[n], cols)
    IN  after[Len(batch)]

-----------------------------------------------------------------------------
BatchTypeOK ==
    /\ types \in [BatchColumns -> ColumnTypes]
    /\ size \in BatchSizes
    /\ seen \in 0 .. MaxRows
    /\ erring \in BOOLEAN
    /\ accepted \in Seq([BatchColumns -> Cleaned])
    /\ sent \in 0 .. MaxRows
    /\ held \in [Keys -> [BatchColumns -> Cleaned] \cup {NoRowHeld}]

BatchInit ==
    /\ types \in [BatchColumns -> ColumnTypes]
    /\ size \in BatchSizes
    /\ seen = 0
    /\ erring = FALSE
    /\ accepted = <<>>
    /\ sent = 0
    /\ held = [k \in Keys |-> NoRowHeld]

\* validate_row: its answer is about every row since the last clear.
ValidateRow(row) ==
    /\ sent = 0 /\ seen < MaxRows
    /\ seen' = seen + 1
    /\ erring' = (erring \/ HasError(row))
    /\ accepted' = IF erring' THEN accepted ELSE Append(accepted, CleanedRow(row))
    /\ UNCHANGED <<types, size, sent, held>>

ClearValidator ==
    /\ erring
    /\ erring' = FALSE
    /\ UNCHANGED <<types, size, seen, accepted, sent, held>>

\* One batch is made into a statement and sent; one that is none changes nothing.
SendBatch ==
    /\ sent < Count
    /\ sent' = sent + 1
    /\ LET batch == Batch(accepted, sent')
       IN  held' = IF batch # <<>> /\ IsStatement(ColumnsOf(batch))
                   THEN UpsertAll(held, batch, ColumnsOf(batch)) ELSE held
    /\ UNCHANGED <<types, size, seen, erring, accepted>>

BatchNext ==
    \/ \E row \in [BatchColumns -> Cells] : ValidateRow(row)
    \/ ClearValidator
    \/ SendBatch

BatchSpec == BatchInit /\ [][BatchNext]_batchVars

-----------------------------------------------------------------------------
(* What holds of batches.                                                  *)

\* When the first row of each batch has all the columns, not only keys, the table is the one that
\* sending the rows one at a time would make: none is left out between two batches,
\* the last row of a key wins within and across them.
BatchedIsRowByRow ==
    /\ sent = Count
    /\ IsStatement(BatchColumns)
    /\ \A n \in 1 .. Count : ColumnsOf(SubSeq(accepted, (n - 1) * size + 1, Len(accepted))) = BatchColumns
    => held = UpsertAll([k \in Keys |-> NoRowHeld], accepted, BatchColumns)

\* A row reported valid, also after rows that were not, has a value in every key
\* column: no key of the table is NULL.  (It may be a text of no characters.)
ValidRowsHaveKeys == \A n \in DOMAIN accepted : \A k \in KeyColumns : accepted[n][k] # "None"
=============================================================================
