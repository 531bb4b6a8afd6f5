----------------------------- MODULE SyncEngine -----------------------------
(***************************************************************************)
(* The sync engine of services/sync_engine.py for one sync configuration:  *)
(* one Tencent sheet, one target table, the metadata tables it keeps       *)
(* (change_tracking, sync_logs), and the asyncio tasks that run it.        *)
(*                                                                         *)
(* Every database call of the engine blocks the event loop, so a task      *)
(* gives up the loop only where it awaits the Tencent API.  Everything     *)
(* between two awaits is atomic with respect to the other tasks, but not   *)
(* with respect to a crash, to the users of the sheet, or to the other     *)
(* writers of the target table: each database call commits on its own.     *)
(*                                                                         *)
(* A row is its key and the value of its other columns; the SHA-256 of a   *)
(* row is taken to be injective, so change_tracking is modelled by the     *)
(* value whose hash it stores.                                             *)
(***************************************************************************)
EXTENDS Integers, Sequences, FiniteSets

CONSTANTS
    Keys,           \* joined primary-key values of rows
    Vals,           \* contents of the other columns
    Absent,         \* no such row, no such hash
    Blank,          \* an empty sheet row
    Tasks,          \* asyncio tasks that may run the engine at the same time
    Nobody,         \* the event loop is free
    LastRow,        \* number of data rows of the sheet (those from A2 on)
    Kinds,          \* the entry points in use
    KeyLookups,     \* outcomes of get_primary_key_columns: TRUE, it returns the
                    \* key columns; FALSE, it raises, as MappingEngine, which
                    \* has no such method, makes it do
    MaxFaults,      \* bound on failing database and API calls
    MaxEdits,       \* bound on edits by the sheet's users
    MaxDbEdits,     \* bound on changes by other writers of the table
    MaxCrashes      \* bound on process crashes

\* trigger_sync of a two-way configuration is "bidirectional", the scheduler's
\* run of one is "scheduled", a webhook whose range parses is "range".
AllKinds == {"to_mysql", "from_mysql", "bidirectional", "scheduled", "range"}

ASSUME EngineAssumption ==
    /\ IsFiniteSet(Keys)
    /\ Absent \notin Vals
    /\ Nobody \notin Tasks
    /\ Kinds \subseteq AllKinds
    /\ KeyLookups \subseteq BOOLEAN
    /\ LastRow \in Nat
    /\ Cardinality(Keys) <= LastRow
    /\ {MaxFaults, MaxEdits, MaxDbEdits, MaxCrashes} \subseteq Nat

Row == [key : Keys, val : Vals]

ASSUME BlankAssumption == Blank \notin Row

VARIABLES
    sheet,      \* sheet[p]: the row at position p, or Blank
    hasTable,   \* the target table exists
    table,      \* table[k]: the target row with primary key k, or Absent
    tracked,    \* tracked[k]: the content whose hash change_tracking holds
    log,        \* log[t]: status of the sync_logs row last inserted for t
    loop,       \* the task that holds the event loop
    pc,         \* pc[t]: where task t is in the engine
    run,        \* run[t]: the local variables of t's coroutine
    touched,    \* history: keys other writers changed since the engine last
                \* wrote them
    torn,       \* history: keys written whose hash was then not recorded
    spent       \* how much of each bound has been used

vars == <<sheet, hasTable, table, tracked, log, loop, pc, run, touched, torn,
          spent>>

-----------------------------------------------------------------------------
(* The state of a run.                                                     *)

\* Steps that a task takes while it holds the loop.
LoopPcs == {"log_to", "table", "row", "hash", "done_to", "fail_to",
            "log_from", "select", "done_from", "fail_from"}
\* Points where it awaits the API, before and after the answer exists.
AwaitPcs == {"getting", "got", "get_failed", "putting", "put", "put_failed"}
Pcs == {"idle"} \cup LoopPcs \cup AwaitPcs

Statuses == {"none", "running", "success", "partial", "failed"}

\* snap: the rows read from the sheet, at: the next one to process,
\* payload: the rows to put, bad: an error was collected,
\* known: log_id holds the id of the run's own log.
Run == [kind : AllKinds, snap : Seq(Row \cup {Blank}), at : Nat \ {0},
        payload : Seq(Row), bad : BOOLEAN, known : BOOLEAN]

NewRun(k) ==
    [kind |-> k, snap |-> <<>>, at |-> 1, payload |-> <<>>,
     bad |-> FALSE, known |-> FALSE]

Spent == [fault : 0 .. MaxFaults, edit : 0 .. MaxEdits,
          db : 0 .. MaxDbEdits, crash : 0 .. MaxCrashes]

TypeOK ==
    /\ sheet \in [1 .. LastRow -> Row \cup {Blank}]
    /\ hasTable \in BOOLEAN
    /\ table \in [Keys -> Vals \cup {Absent}]
    /\ tracked \in [Keys -> Vals \cup {Absent}]
    /\ log \in [Tasks -> Statuses]
    /\ loop \in Tasks \cup {Nobody}
    /\ pc \in [Tasks -> Pcs]
    /\ run \in [Tasks -> Run]
    /\ touched \in SUBSET Keys
    /\ torn \in SUBSET Keys
    /\ spent \in Spent

Init ==
    /\ sheet = [p \in 1 .. LastRow |-> Blank]
    /\ hasTable = FALSE
    /\ table = [k \in Keys |-> Absent]
    /\ tracked = [k \in Keys |-> Absent]
    /\ log = [t \in Tasks |-> "none"]
    /\ loop = Nobody
    /\ pc = [t \in Tasks |-> "idle"]
    /\ run = [t \in Tasks |-> NewRun("to_mysql")]
    /\ touched = {}
    /\ torn = {}
    /\ spent = [fault |-> 0, edit |-> 0, db |-> 0, crash |-> 0]

stores == <<sheet, hasTable, table, tracked>>
ghosts == <<touched, torn>>

-----------------------------------------------------------------------------
(* Control: where a task goes next, and whether it keeps the event loop.   *)

Goto(t, l) ==
    /\ pc' = [pc EXCEPT ![t] = l]
    /\ UNCHANGED loop

\* Mutant of Await: a call that blocks instead of suspending the coroutine.
AwaitBlocking(t, l) == Goto(t, l)

\* A coroutine that suspends gives the loop to whoever is ready.
Await(t, l) ==
    /\ pc' = [pc EXCEPT ![t] = l]
    /\ loop' = Nobody

\* The outcome of a database or API call.
Works == UNCHANGED spent
Fails ==
    /\ spent.fault < MaxFaults
    /\ spent' = [spent EXCEPT !.fault = @ + 1]

TwoWay(t) == run[t].kind \in {"bidirectional", "scheduled"}

\* The coroutine returns and its local variables are gone.
Leave(t) ==
    /\ Await(t, "idle")
    /\ run' = [run EXCEPT ![t] = NewRun("to_mysql")]

\* A direction returns (bad: not with success).  Whatever the first direction of
\* a two-way run returned, the second one starts.
PhaseEnds(t, bad) ==
    IF pc[t] \in {"done_to", "fail_to"} /\ TwoWay(t)
    THEN Goto(t, "log_from") /\ run' = [run EXCEPT ![t].bad = bad]
    ELSE Leave(t)

Failed(t) == Goto(t, IF pc[t] \in {"log_from", "select", "done_from"}
                     THEN "fail_from" ELSE "fail_to")

-----------------------------------------------------------------------------
(* The beginning of a run.                                                 *)

\* trigger_sync, sync_to_mysql, sync_from_mysql, and the scheduler's _run_sync.
BeginRun(t, k) ==
    /\ loop = Nobody
    /\ pc[t] = "idle"
    /\ k \in Kinds \ {"range"}
    /\ run' = [run EXCEPT ![t] = NewRun(k)]
    /\ pc' = [pc EXCEPT ![t] = IF k = "from_mysql" THEN "log_from" ELSE "log_to"]
    /\ loop' = t
    /\ log' = [log EXCEPT ![t] = "none"]
    /\ UNCHANGED <<stores, ghosts, spent>>

\* handle_webhook with a range that parses: it writes no log and does not
\* create the table, it goes straight to the read.  The range it asks for names
\* the sheet by _sheet_id, which the new engine has not loaded at that point.
BeginRange(t) ==
    /\ loop = Nobody
    /\ pc[t] = "idle"
    /\ "range" \in Kinds
    /\ run' = [run EXCEPT ![t] = NewRun("range")]
    /\ Await(t, "getting")
    /\ log' = [log EXCEPT ![t] = "none"]
    /\ UNCHANGED <<stores, ghosts, spent>>

\* create_sync_log: the INSERT, then SELECT LAST_INSERT_ID() through the pool,
\* which may run on another session and then does not answer this log's id.
CreateLog(t) ==
    /\ loop = t
    /\ pc[t] \in {"log_to", "log_from"}
    /\ \/ /\ Works
          /\ log' = [log EXCEPT ![t] = "running"]
          /\ \E b \in BOOLEAN : run' = [run EXCEPT ![t].known = b]
          /\ Goto(t, IF pc[t] = "log_to" THEN "table" ELSE "select")
       \/ /\ Fails
          /\ log' \in {log, [log EXCEPT ![t] = "running"]}
          /\ run' = [run EXCEPT ![t].known = FALSE]
          /\ Failed(t)
    /\ UNCHANGED <<stores, ghosts>>

\* _ensure_table_exists, and the call of get_values, at which the task waits.
EnsureTable(t) ==
    /\ loop = t
    /\ pc[t] = "table"
    /\ \/ Works /\ hasTable' = TRUE /\ Await(t, "getting")
       \/ Fails /\ UNCHANGED hasTable /\ Failed(t)
    /\ UNCHANGED <<sheet, table, tracked, log, run, ghosts>>

-----------------------------------------------------------------------------
(* The Tencent API, which answers while the task waits.                    *)

\* A read of the configuration's sheet answers its rows or fails; a read of
\* the sheet named by an unset _sheet_id is an error of the API.  The answer's
\* json() is taken to be awaitable, which the client and its tests rely on (the
\* README says what follows if it is not).
NamesSheet(t) == run[t].kind # "range"

ServeGet(t) ==
    /\ pc[t] = "getting"
    /\ \/ /\ NamesSheet(t)
          /\ Works
          /\ run' = [run EXCEPT ![t].snap = sheet]
          /\ pc' = [pc EXCEPT ![t] = "got"]
       \/ /\ NamesSheet(t)
          /\ Fails
          /\ UNCHANGED run
          /\ pc' = [pc EXCEPT ![t] = "get_failed"]
       \/ /\ ~NamesSheet(t)
          /\ Works
          /\ UNCHANGED run
          /\ pc' = [pc EXCEPT ![t] = "get_failed"]
    /\ UNCHANGED <<stores, log, loop, ghosts>>

\* Mutant of Overwrite: the sheet is cleared before it is written.
OverwriteCleared(rows) == rows

\* put_values writes its rows from A2 on and leaves the rows below as they are.
Overwrite(rows) ==
    [p \in 1 .. LastRow |->
        IF p <= Len(rows) THEN rows[p] ELSE sheet[p]]

\* The client sends the PUT again when its answer is lost, so the sheet may
\* take it more than once, and may have taken it although the call fails.
ServePut(t) ==
    /\ \/ pc[t] = "putting" /\ Works
       \/ pc[t] = "put" /\ Fails
    /\ sheet' = Overwrite(run[t].payload)
    /\ pc' = [pc EXCEPT ![t] = "put"]
    /\ UNCHANGED <<hasTable, table, tracked, log, loop, run, ghosts>>

FailPut(t) ==
    /\ pc[t] \in {"putting", "put"}
    /\ Fails
    /\ pc' = [pc EXCEPT ![t] = "put_failed"]
    /\ UNCHANGED <<stores, log, loop, run, ghosts>>

-----------------------------------------------------------------------------
(* The loop runs the task again when its answer is there.                  *)

\* The batch asks the mapping for its key columns before its first row.
HasRows(t) == \E i \in DOMAIN run[t].snap : run[t].snap[i] # Blank

KeysKnown(t) == pc[t] = "got" /\ (HasRows(t) => TRUE \in KeyLookups)

KeysUnknown(t) == pc[t] = "got" /\ HasRows(t) /\ FALSE \in KeyLookups

\* The webhook's fallback is a full sync_to_mysql, entered by any error of the
\* range sync that is not a TencentAPIError.
ResumeGet(t) ==
    /\ loop = Nobody
    /\ \/ /\ KeysKnown(t)
          /\ loop' = t
          /\ pc' = [pc EXCEPT ![t] = "row"]
          /\ UNCHANGED run
       \/ /\ pc[t] = "get_failed" \/ KeysUnknown(t)
          /\ run[t].kind # "range"
          /\ loop' = t
          /\ pc' = [pc EXCEPT ![t] = "fail_to"]
          /\ UNCHANGED run
       \/ /\ pc[t] = "get_failed"
          /\ run[t].kind = "range"
          /\ Leave(t)
       \/ /\ pc[t] = "get_failed" \/ KeysUnknown(t)
          /\ run[t].kind = "range"
          /\ loop' = t
          /\ pc' = [pc EXCEPT ![t] = "log_to"]
          /\ run' = [run EXCEPT ![t] = NewRun("to_mysql")]
    /\ UNCHANGED <<stores, log, ghosts, spent>>

ResumePut(t) ==
    /\ loop = Nobody
    /\ pc[t] \in {"put", "put_failed"}
    /\ loop' = t
    /\ pc' = [pc EXCEPT ![t] = IF pc[t] = "put" THEN "done_from" ELSE "fail_from"]
    /\ UNCHANGED <<stores, log, run, ghosts, spent>>

-----------------------------------------------------------------------------
(* _sync_batch_to_mysql: one row after the other, without an await.        *)

Pending(t) == run[t].at <= Len(run[t].snap)
Current(t) == run[t].snap[run[t].at]

\* Mutant of RowError: an except clause that passes.
RowErrorPassed(t) == run' = [run EXCEPT ![t].at = @ + 1]

NextRow(t) == run' = [run EXCEPT ![t].at = @ + 1]
RowError(t) == run' = [run EXCEPT ![t].at = @ + 1, ![t].bad = TRUE]

\* An empty row is dropped ("for row in values if row"); a row whose stored hash
\* equals its own needs nothing.
SkipRow(t) ==
    /\ loop = t /\ pc[t] = "row" /\ Pending(t)
    /\ Current(t) # Blank => tracked[Current(t).key] = Current(t).val
    /\ Works
    /\ NextRow(t)
    /\ UNCHANGED <<stores, log, loop, pc, ghosts>>

\* No stored hash: INSERT, which the primary key rejects when the row exists.
CanInsert(k) == hasTable /\ table[k] = Absent
\* Mutant of UpdateOf: INSERT ... ON DUPLICATE KEY UPDATE.
Upsert(k, v) == [table EXCEPT ![k] = v]

\* A stored hash that differs: UPDATE ... WHERE key, which changes nothing
\* when the row does not exist.
UpdateOf(k, v) == IF table[k] = Absent THEN table ELSE [table EXCEPT ![k] = v]

WriteRow(t) ==
    /\ loop = t /\ pc[t] = "row" /\ Pending(t)
    /\ Current(t) # Blank
    /\ LET k == Current(t).key
           v == Current(t).val
       IN  /\ \/ /\ tracked[k] = Absent
                 /\ CanInsert(k)
                 /\ table' = [table EXCEPT ![k] = v]
              \/ /\ tracked[k] \notin {Absent, v}
                 /\ hasTable
                 /\ table' = UpdateOf(k, v)
           /\ touched' = IF table'[k] = Absent THEN touched ELSE touched \ {k}
    /\ Works
    /\ Goto(t, "hash")
    /\ UNCHANGED <<sheet, hasTable, tracked, log, run, torn>>

\* Mutant of RowFails: the hash is stored in a finally clause.
RowFailsHashed(t) ==
    /\ loop = t /\ pc[t] = "row" /\ Pending(t)
    /\ Current(t) # Blank
    /\ Fails
    /\ tracked' = [tracked EXCEPT ![Current(t).key] = Current(t).val]
    /\ RowError(t)
    /\ UNCHANGED <<sheet, hasTable, table, log, loop, pc, ghosts>>

\* The row's exception is collected and the loop goes on with the next row.
RowFails(t) ==
    /\ loop = t /\ pc[t] = "row" /\ Pending(t)
    /\ Current(t) # Blank
    /\ \/ Fails
       \/ /\ Works
          /\ LET k == Current(t).key
             IN  \/ tracked[k] = Absent /\ ~CanInsert(k)
                 \/ tracked[k] \notin {Absent, Current(t).val} /\ ~hasTable
    /\ RowError(t)
    /\ UNCHANGED <<stores, log, loop, pc, ghosts>>

\* upsert_change_record, after the row's own statement has committed.
RecordHash(t) ==
    /\ loop = t /\ pc[t] = "hash"
    /\ \/ /\ Works
          /\ tracked' = [tracked EXCEPT ![Current(t).key] = Current(t).val]
          /\ torn' = torn \ {Current(t).key}
          /\ NextRow(t)
       \/ /\ Fails
          /\ UNCHANGED tracked
          /\ torn' = torn \cup {Current(t).key}
          /\ RowError(t)
    /\ Goto(t, "row")
    /\ UNCHANGED <<sheet, hasTable, table, log, touched>>

EndBatch(t) ==
    /\ loop = t /\ pc[t] = "row" /\ ~Pending(t)
    /\ Goto(t, "done_to")
    /\ UNCHANGED <<stores, log, run, ghosts, spent>>

-----------------------------------------------------------------------------
(* The end of a direction.                                                 *)

\* The UPDATE of the log reaches it only when log_id is its id.
Logged(t, status) ==
    log' = IF run[t].known THEN [log EXCEPT ![t] = status] ELSE log

\* An empty read of the sheet or of the table ends the direction early.
Empty(t) ==
    IF pc[t] = "done_to"
    THEN \A i \in DOMAIN run[t].snap : run[t].snap[i] = Blank
    ELSE run[t].payload = <<>>

\* complete_sync_log and then, except after an empty read, update_last_sync_time;
\* when either fails, the handler marks the run failed.
Complete(t) ==
    /\ loop = t
    /\ pc[t] \in {"done_to", "done_from"}
    /\ LET status == IF pc[t] = "done_to" /\ run[t].bad THEN "partial" ELSE "success"
       IN  \/ Works /\ Logged(t, status) /\ PhaseEnds(t, run[t].bad)
           \/ /\ Fails
              /\ log' = log \/ (~Empty(t) /\ Logged(t, status))
              /\ run' = [run EXCEPT ![t].bad = TRUE]
              /\ Failed(t)
    /\ UNCHANGED <<stores, ghosts>>

\* The except clauses: complete_sync_log(failed) if there is an id.  When this
\* statement fails too the exception leaves the engine: trigger_sync ends with
\* it, while the scheduler goes on with its other direction.
Fail(t) ==
    /\ loop = t
    /\ pc[t] \in {"fail_to", "fail_from"}
    /\ \/ Works /\ Logged(t, "failed") /\ PhaseEnds(t, TRUE)
       \/ /\ Fails
          /\ run[t].known
          /\ UNCHANGED log
          /\ IF run[t].kind = "scheduled" THEN PhaseEnds(t, TRUE) ELSE Leave(t)
    /\ UNCHANGED <<stores, ghosts>>

-----------------------------------------------------------------------------
(* sync_from_mysql: SELECT * of the target table, put into the sheet.      *)

\* Mutant of TableRows: only rows that another writer changed are exported.
ChangedRows ==
    {[key |-> k, val |-> table[k]] :
        k \in {j \in Keys : table[j] \notin {Absent, tracked[j]}}}

TableRows == {[key |-> k, val |-> table[k]] : k \in {j \in Keys : table[j] # Absent}}

\* The rows in any order, since the SELECT has no ORDER BY.
Orders(S) ==
    {s \in [1 .. Cardinality(S) -> S] : \A i, j \in DOMAIN s : s[i] = s[j] => i = j}

SelectRows(t) ==
    /\ loop = t
    /\ pc[t] = "select"
    /\ \/ \E rows \in Orders(TableRows) :
             /\ hasTable
             /\ Works
             /\ run' = [run EXCEPT ![t].payload = rows]
             /\ IF rows = <<>> THEN Goto(t, "done_from") ELSE Await(t, "putting")
       \/ Fails /\ UNCHANGED run /\ Failed(t)
       \/ ~hasTable /\ Works /\ UNCHANGED run /\ Failed(t)
    /\ UNCHANGED <<stores, log, ghosts>>

-----------------------------------------------------------------------------
(* The environment.                                                        *)

EditSheet(p, row) ==
    /\ spent.edit < MaxEdits
    /\ sheet' = [sheet EXCEPT ![p] = row]
    /\ spent' = [spent EXCEPT !.edit = @ + 1]
    /\ UNCHANGED <<hasTable, table, tracked, log, loop, pc, run, ghosts>>

EditTable(k, v) ==
    /\ hasTable
    /\ table[k] # v
    /\ spent.db < MaxDbEdits
    /\ table' = [table EXCEPT ![k] = v]
    /\ touched' = touched \cup {k}
    /\ spent' = [spent EXCEPT !.db = @ + 1]
    /\ UNCHANGED <<sheet, hasTable, tracked, log, loop, pc, run, torn>>

\* The process dies and is started again: tasks are gone, stores stay.
Crash ==
    /\ spent.crash < MaxCrashes
    /\ spent' = [spent EXCEPT !.crash = @ + 1]
    /\ torn' = torn \cup {Current(t).key : t \in {u \in Tasks : pc[u] = "hash"}}
    /\ pc' = [t \in Tasks |-> "idle"]
    /\ run' = [t \in Tasks |-> NewRun("to_mysql")]
    /\ loop' = Nobody
    /\ UNCHANGED <<stores, log, touched>>

-----------------------------------------------------------------------------
Step(t) ==
    \/ CreateLog(t) \/ EnsureTable(t) \/ SkipRow(t) \/ WriteRow(t) \/ RowFails(t)
    \/ RecordHash(t) \/ EndBatch(t) \/ Complete(t) \/ Fail(t) \/ SelectRows(t)

Answer(t) == ServeGet(t) \/ ServePut(t) \/ FailPut(t)

Resume(t) == ResumeGet(t) \/ ResumePut(t)

Begin(t) ==
    \/ \E k \in Kinds : BeginRun(t, k)
    \/ BeginRange(t)

Environment ==
    \/ \E p \in 1 .. LastRow, row \in Row \cup {Blank} : EditSheet(p, row)
    \/ \E k \in Keys, v \in Vals \cup {Absent} : EditTable(k, v)
    \/ Crash

Next ==
    \/ \E t \in Tasks : Begin(t) \/ Step(t) \/ Answer(t) \/ Resume(t)
    \/ Environment

Spec == Init /\ [][Next]_vars

\* The loop runs the task that holds it; the client's timeouts answer every
\* request; asyncio's ready queue is first in, first out, so a task whose answer
\* is there gets the loop although others keep taking it.
Fairness ==
    \A t \in Tasks : WF_vars(Step(t)) /\ WF_vars(Answer(t)) /\ SF_vars(Resume(t))

FairSpec == Spec /\ Fairness

-----------------------------------------------------------------------------
(* What the engine guarantees.                                             *)

InFlight(k) == \E t \in Tasks : pc[t] = "hash" /\ Current(t).key = k

\* change_tracking tells the truth about the target table: a key's stored hash
\* is that of its row, unless another writer changed the row, a failure came
\* between the row's commit and its hash (torn), or a task is just there.  Rests
\* on the batch never giving up the loop between reading a hash and storing it.
TrackingAgrees ==
    \A k \in Keys :
        table[k] = tracked[k] \/ k \in touched \cup torn \/ InFlight(k)

\* Of the rows with one key the last one counts.
Final(rows) ==
    {i \in DOMAIN rows :
        /\ rows[i] # Blank
        /\ \A j \in DOMAIN rows :
              rows[j] # Blank /\ rows[j].key = rows[i].key => j <= i}

Landed(row) == table[row.key] = row.val \/ row.key \in touched \cup torn

\* A batch that reports no error has brought every row it read into the table,
\* rows it skipped by their hash included, although runs overlap and calls
\* fail: it holds from the end of the batch until the table is read back.
CleanBatchLanded ==
    \A t \in Tasks :
        pc[t] \in {"done_to", "log_from", "select"} /\ ~run[t].bad =>
            \A i \in Final(run[t].snap) : Landed(run[t].snap[i])

\* The second direction of a two-way run whose first one was clean takes none
\* of the rows just synchronised out of the sheet: it puts each of them back.
PutKeepsSyncedRows ==
    [][\A t \in Tasks :
        pc[t] = "select" /\ pc'[t] = "putting" /\ ~run[t].bad =>
            \A i \in Final(run[t].snap) :
                LET row == run[t].snap[i]
                IN  \/ \E j \in DOMAIN run'[t].payload : run'[t].payload[j] = row
                    \/ row.key \in touched \cup torn]_vars

\* A row the engine has synchronised once and another writer then deleted is not
\* brought back by the engine, whatever the sheet holds: only a key without a
\* stored hash is inserted.
DeletionStays ==
    \A k \in Keys :
        table[k] = Absent /\ tracked[k] # Absent /\ spent'.db = spent.db =>
            table'[k] = Absent

DeletionsStay == [][DeletionStays]_vars

\* Every run ends: no task waits for the loop or for an answer for ever.
EveryRunEnds == \A t \in Tasks : pc[t] # "idle" ~> pc[t] = "idle"

\* The sheet shows what the table holds.
Exported ==
    \A k \in Keys : table[k] # Absent =>
        \E p \in 1 .. LastRow : sheet[p] = [key |-> k, val |-> table[k]]

ExportStarts == \E t \in Tasks : "from_mysql" \in Kinds /\ BeginRun(t, "from_mysql")

OtherStarts == \E t \in Tasks : (\E k \in Kinds \ {"from_mysql"} : BeginRun(t, k)) \/ BeginRange(t)

\* As long as runs of sync_from_mysql, and from some time on only those, keep being
\* started, the sheet ends up with the rows that the table is left with, and keeps
\* them, although an overlapping run may put rows it selected before, a call may
\* fail, and users edit the sheet.  (Runs of both directions that overlap may swap
\* two versions of a row between sheet and table for ever.)
EventuallyExported ==
    <>hasTable /\ []<><<ExportStarts>>_vars /\ <>[][~OtherStarts]_vars => <>[]Exported

-----------------------------------------------------------------------------
(* What documents and comments of the repository say and the code denies.  *)

\* PRODUCT_REQUIREMENTS.md:103, no data is lost: a row the engine overwrites in
\* the sheet is still in the sheet, or has reached the table at some time.
NoEditLost ==
    [][spent'.edit = spent.edit =>
        \A p \in 1 .. LastRow :
            sheet'[p] # sheet[p] /\ sheet[p] # Blank =>
                \/ \E q \in 1 .. LastRow : sheet'[q] = sheet[p]
                \/ sheet[p].val \in {table[sheet[p].key], tracked[sheet[p].key]}]_vars

\* SPEC.md:269, a webhook reads the changed range: without any failing call, no
\* read is refused.
WebhookReads == spent.fault = 0 => \A t \in Tasks : pc[t] # "get_failed"

\* SPEC.md:392, a row added to or changed in the document is written to the
\* table: a run of which no call failed does not end in its except clauses.
RowsAreSynchronised ==
    spent.fault = 0 => \A t \in Tasks : pc[t] # "fail_to"
=============================================================================
