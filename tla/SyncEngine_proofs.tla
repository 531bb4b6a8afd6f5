-------------------------- MODULE SyncEngine_proofs --------------------------
(***************************************************************************)
(* Proofs about SyncEngine, for any number of keys, contents, tasks and    *)
(* sheet rows and for any bounds on the environment.                       *)
(***************************************************************************)
EXTENDS SyncEngine, FiniteSetTheorems, TLAPS

-----------------------------------------------------------------------------
(* Type correctness.                                                       *)

LEMMA NewRunType ==
    ASSUME NEW k \in AllKinds
    PROVE  NewRun(k) \in Run
BY DEF NewRun, Run

LEMMA TableRowsFinite ==
    ASSUME table \in [Keys -> Vals \cup {Absent}]
    PROVE  IsFiniteSet(TableRows) /\ Cardinality(TableRows) \in Nat
<1> DEFINE K == {k \in Keys : table[k] # Absent}
           f == [k \in K |-> [key |-> k, val |-> table[k]]]
<1>1. IsFiniteSet(K)
  BY EngineAssumption, FS_Subset
<1>2. f \in Surjection(K, TableRows)
  BY DEF Surjection, TableRows
<1>3. IsFiniteSet(TableRows)
  BY <1>1, <1>2, FS_Surjection
<1> QED
  BY <1>3, FS_CardinalityType

\* Whatever SELECT * answers is a sequence of rows that fits the sheet.
LEMMA OrdersType ==
    ASSUME table \in [Keys -> Vals \cup {Absent}],
           NEW rows \in Orders(TableRows)
    PROVE  rows \in Seq(Row)
<1>1. TableRows \subseteq Row
  BY DEF TableRows, Row
<1>2. Cardinality(TableRows) \in Nat
  BY TableRowsFinite
<1>3. rows \in [1 .. Cardinality(TableRows) -> Row]
  BY <1>1 DEF Orders
<1> QED
  BY <1>2, <1>3

\* SELECT * leaves out no row.
LEMMA OrdersAll ==
    ASSUME table \in [Keys -> Vals \cup {Absent}],
           NEW rows \in Orders(TableRows), NEW row \in TableRows
    PROVE  \E j \in DOMAIN rows : rows[j] = row
<1> DEFINE n == Cardinality(TableRows)
<1>1. IsFiniteSet(TableRows) /\ n \in Nat
  BY TableRowsFinite
<1>2. rows \in Injection(1 .. n, TableRows)
  BY DEF Orders, Injection, IsInjective
<1>3. Cardinality(1 .. n) = n
  BY <1>1, FS_Interval
<1>4. rows \in Surjection(1 .. n, TableRows)
  BY <1>1, <1>2, <1>3, FS_Injection
<1> QED
  BY <1>4 DEF Surjection

\* The updates that the actions make to the local variables of a run.
LEMMA RunUpdates ==
    ASSUME NEW r \in Run
    PROVE  /\ \A b \in BOOLEAN : /\ [r EXCEPT !.bad = b] \in Run
                                 /\ [r EXCEPT !.known = b] \in Run
           /\ \A s \in Seq(Row \cup {Blank}) : [r EXCEPT !.snap = s] \in Run
           /\ \A s \in Seq(Row) : [r EXCEPT !.payload = s] \in Run
           /\ [r EXCEPT !.at = @ + 1] \in Run
           /\ [r EXCEPT !.at = @ + 1, !.bad = TRUE] \in Run
<1>1. ASSUME NEW b \in BOOLEAN
      PROVE  [r EXCEPT !.bad = b] \in Run /\ [r EXCEPT !.known = b] \in Run
  BY DEF Run
<1>2. ASSUME NEW s \in Seq(Row \cup {Blank}) PROVE [r EXCEPT !.snap = s] \in Run
  BY DEF Run
<1>3. ASSUME NEW s \in Seq(Row) PROVE [r EXCEPT !.payload = s] \in Run
  BY DEF Run
<1>4. r.at + 1 \in Nat \ {0}
  BY DEF Run
<1>5. [r EXCEPT !.at = @ + 1] \in Run
  BY <1>4 DEF Run
<1>6. [r EXCEPT !.at = @ + 1, !.bad = TRUE] \in Run
  BY <1>4 DEF Run
<1> QED
  BY <1>1, <1>2, <1>3, <1>5, <1>6

\* A put leaves a sheet of rows and blanks.
LEMMA OverwriteType ==
    ASSUME sheet \in [1 .. LastRow -> Row \cup {Blank}], NEW rows \in Seq(Row)
    PROVE  Overwrite(rows) \in [1 .. LastRow -> Row \cup {Blank}]
<1> SUFFICES ASSUME NEW p \in 1 .. LastRow
             PROVE  (IF p <= Len(rows) THEN rows[p] ELSE sheet[p]) \in Row \cup {Blank}
  BY DEF Overwrite
<1>1. CASE p <= Len(rows)
  <2>1. p \in 1 .. Len(rows)
    BY <1>1, EngineAssumption
  <2> QED
    BY <1>1, <2>1
<1>2. CASE ~(p <= Len(rows))
  BY <1>2
<1> QED
  BY <1>1, <1>2

LEMMA TypeInit == Init => TypeOK
<1> SUFFICES ASSUME Init PROVE TypeOK
  OBVIOUS
<1>1. NewRun("to_mysql") \in Run
  BY NewRunType DEF AllKinds
<1>2. spent \in Spent
  BY EngineAssumption DEF Init, Spent
<1> QED
  BY <1>1, <1>2 DEF Init, TypeOK, Statuses, Pcs

\* A task that is between a row's write and its hash is at a row of its
\* snapshot; RecordHash is well typed because of it.
AtRow == \A t \in Tasks : pc[t] = "hash" => Pending(t) /\ Current(t) # Blank

LEMMA CurrentType ==
    ASSUME TypeOK, NEW t \in Tasks, Pending(t), Current(t) # Blank
    PROVE  Current(t) \in Row
<1>1. run[t].snap \in Seq(Row \cup {Blank}) /\ run[t].at \in Nat \ {0}
  BY DEF TypeOK, Run
<1>2. run[t].at \in 1 .. Len(run[t].snap)
  BY <1>1 DEF Pending
<1> QED
  BY <1>1, <1>2 DEF Current

\* Faults aside, what has been spent stays within its bounds.
LEMMA SpentType ==
    ASSUME spent \in Spent,
           \/ spent.edit < MaxEdits /\ spent' = [spent EXCEPT !.edit = @ + 1]
           \/ spent.db < MaxDbEdits /\ spent' = [spent EXCEPT !.db = @ + 1]
           \/ spent.crash < MaxCrashes /\ spent' = [spent EXCEPT !.crash = @ + 1]
    PROVE  spent' \in Spent
<1>1. {MaxEdits, MaxDbEdits, MaxCrashes} \subseteq Nat
  BY EngineAssumption
<1>2. CASE spent.edit < MaxEdits /\ spent' = [spent EXCEPT !.edit = @ + 1]
  BY <1>1, <1>2 DEF Spent
<1>3. CASE spent.db < MaxDbEdits /\ spent' = [spent EXCEPT !.db = @ + 1]
  BY <1>1, <1>3 DEF Spent
<1>4. CASE spent.crash < MaxCrashes /\ spent' = [spent EXCEPT !.crash = @ + 1]
  BY <1>1, <1>4 DEF Spent
<1> QED
  BY <1>2, <1>3, <1>4

LEMMA TypeNext == TypeOK /\ AtRow /\ [Next]_vars => TypeOK'
<1> SUFFICES ASSUME TypeOK, AtRow, [Next]_vars PROVE TypeOK'
  OBVIOUS
<1> USE DEF TypeOK, Statuses, Pcs, LoopPcs, AwaitPcs, stores, ghosts, Goto, Await,
            Works
<1>f. ASSUME Fails PROVE spent' \in Spent
  BY <1>f, EngineAssumption DEF Fails, Spent
<1>n. \A k \in AllKinds : NewRun(k) \in Run
  BY NewRunType
<1>r. ASSUME NEW t \in Tasks, NEW r \in Run, run' = [run EXCEPT ![t] = r]
      PROVE  run' \in [Tasks -> Run]
  BY <1>r
<1>l. ASSUME NEW t \in Tasks, Leave(t)
      PROVE  /\ run' \in [Tasks -> Run]
             /\ pc' \in [Tasks -> Pcs]
             /\ loop' \in Tasks \cup {Nobody}
  BY <1>l, <1>n DEF Leave, AllKinds
<1>d. ASSUME NEW t \in Tasks, Failed(t) PROVE pc' \in [Tasks -> Pcs] /\ loop' = loop
  BY <1>d DEF Failed
<1>p. ASSUME NEW t \in Tasks, NEW b \in BOOLEAN, PhaseEnds(t, b)
      PROVE  /\ run' \in [Tasks -> Run]
             /\ pc' \in [Tasks -> Pcs]
             /\ loop' \in Tasks \cup {Nobody}
  <2>1. CASE Goto(t, "log_from") /\ run' = [run EXCEPT ![t].bad = b]
    <3>1. [run[t] EXCEPT !.bad = b] \in Run
      BY RunUpdates
    <3> QED
      BY <2>1, <3>1
  <2>2. CASE Leave(t)
    BY <2>2, <1>l
  <2> QED
    BY <1>p, <2>1, <2>2 DEF PhaseEnds
<1>g. ASSUME NEW t \in Tasks, NEW st \in Statuses, Logged(t, st)
      PROVE  log' \in [Tasks -> Statuses]
  BY <1>g DEF Logged
<1>1. ASSUME NEW t \in Tasks, NEW k \in Kinds, BeginRun(t, k) PROVE TypeOK'
  <2>1. NewRun(k) \in Run
    BY EngineAssumption, <1>n
  <2> QED
    BY <1>1, <2>1 DEF BeginRun
<1>2. ASSUME NEW t \in Tasks, BeginRange(t) PROVE TypeOK'
  <2>1. NewRun("range") \in Run
    BY <1>n DEF AllKinds
  <2> QED
    BY <1>2, <2>1 DEF BeginRange
<1>3. ASSUME NEW t \in Tasks, CreateLog(t) PROVE TypeOK'
  <2>1. run' \in [Tasks -> Run]
    <3>1. PICK b \in BOOLEAN : run' = [run EXCEPT ![t].known = b]
      BY <1>3 DEF CreateLog
    <3>2. [run[t] EXCEPT !.known = b] \in Run
      BY RunUpdates
    <3> QED
      BY <3>1, <3>2
  <2>2. log' \in [Tasks -> Statuses]
    BY <1>3 DEF CreateLog
  <2>3. spent' \in Spent
    BY <1>3, <1>f DEF CreateLog
  <2>4. pc' \in [Tasks -> Pcs] /\ loop' = loop
    BY <1>3, <1>d DEF CreateLog
  <2> QED
    BY <1>3, <2>1, <2>2, <2>3, <2>4 DEF CreateLog
<1>4. ASSUME NEW t \in Tasks, EnsureTable(t) PROVE TypeOK'
  BY <1>4, <1>f DEF EnsureTable, Failed
<1>5. ASSUME NEW t \in Tasks, SkipRow(t) PROVE TypeOK'
  <2>1. [run[t] EXCEPT !.at = @ + 1] \in Run
    BY RunUpdates
  <2>2. run' \in [Tasks -> Run]
    BY <1>5, <2>1 DEF SkipRow, NextRow
  <2> QED
    BY <1>5, <2>2 DEF SkipRow
<1>6. ASSUME NEW t \in Tasks, WriteRow(t) PROVE TypeOK'
  <2>1. Current(t) \in Row
    BY <1>6, CurrentType DEF WriteRow
  <2>2. Current(t).key \in Keys /\ Current(t).val \in Vals
    BY <2>1 DEF Row
  <2>3. table' \in [Keys -> Vals \cup {Absent}]
    BY <1>6, <2>2 DEF WriteRow, UpdateOf
  <2>4. touched' \in SUBSET Keys
    BY <1>6 DEF WriteRow
  <2> QED
    BY <1>6, <2>3, <2>4 DEF WriteRow
<1>7. ASSUME NEW t \in Tasks, RowFails(t) PROVE TypeOK'
  <2>1. [run[t] EXCEPT !.at = @ + 1, !.bad = TRUE] \in Run
    BY RunUpdates
  <2>2. run' \in [Tasks -> Run]
    BY <1>7, <2>1 DEF RowFails, RowError
  <2>3. spent' \in Spent
    BY <1>7, <1>f DEF RowFails
  <2> QED
    BY <1>7, <2>2, <2>3 DEF RowFails
<1>8. ASSUME NEW t \in Tasks, RecordHash(t) PROVE TypeOK'
  <2>1. Current(t) \in Row
    BY <1>8, CurrentType DEF RecordHash, AtRow
  <2>2. Current(t).key \in Keys /\ Current(t).val \in Vals
    BY <2>1 DEF Row
  <2>3. /\ [run[t] EXCEPT !.at = @ + 1] \in Run
        /\ [run[t] EXCEPT !.at = @ + 1, !.bad = TRUE] \in Run
    BY RunUpdates
  <2>4. run' \in [Tasks -> Run]
    BY <1>8, <2>3 DEF RecordHash, NextRow, RowError
  <2>5. tracked' \in [Keys -> Vals \cup {Absent}] /\ torn' \in SUBSET Keys
    BY <1>8, <2>2 DEF RecordHash
  <2>6. spent' \in Spent
    BY <1>8, <1>f DEF RecordHash
  <2> QED
    BY <1>8, <2>4, <2>5, <2>6 DEF RecordHash
<1>9. ASSUME NEW t \in Tasks, EndBatch(t) PROVE TypeOK'
  BY <1>9 DEF EndBatch
<1>10. ASSUME NEW t \in Tasks, Complete(t) PROVE TypeOK'
  <2> DEFINE status == IF pc[t] = "done_to" /\ run[t].bad THEN "partial" ELSE "success"
  <2>1. CASE Works /\ Logged(t, status) /\ PhaseEnds(t, run[t].bad)
    <3>1. run[t].bad \in BOOLEAN
      BY DEF Run
    <3>2. log' \in [Tasks -> Statuses]
      BY <2>1, <1>g
    <3> QED
      BY <1>10, <2>1, <3>1, <3>2, <1>p DEF Complete
  <2>2. CASE /\ Fails
             /\ log' = log \/ (~Empty(t) /\ Logged(t, status))
             /\ run' = [run EXCEPT ![t].bad = TRUE]
             /\ Failed(t)
    <3>1. [run[t] EXCEPT !.bad = TRUE] \in Run
      BY RunUpdates
    <3>2. run' \in [Tasks -> Run]
      BY <2>2, <3>1
    <3>3. log' \in [Tasks -> Statuses]
      BY <2>2, <1>g
    <3> QED
      BY <1>10, <2>2, <3>2, <3>3, <1>d, <1>f DEF Complete
  <2> QED
    BY <1>10, <2>1, <2>2 DEF Complete
<1>11. ASSUME NEW t \in Tasks, Fail(t) PROVE TypeOK'
  <2>1. CASE Works /\ Logged(t, "failed") /\ PhaseEnds(t, TRUE)
    <3>1. log' \in [Tasks -> Statuses]
      BY <2>1, <1>g
    <3> QED
      BY <1>11, <2>1, <3>1, <1>p DEF Fail
  <2>2. CASE /\ Fails
             /\ UNCHANGED log
             /\ IF run[t].kind = "scheduled" THEN PhaseEnds(t, TRUE) ELSE Leave(t)
    BY <1>11, <2>2, <1>p, <1>l, <1>f DEF Fail
  <2> QED
    BY <1>11, <2>1, <2>2 DEF Fail
<1>12. ASSUME NEW t \in Tasks, SelectRows(t) PROVE TypeOK'
  <2>1. run' \in [Tasks -> Run]
    <3>1. ASSUME NEW rows \in Orders(TableRows), run' = [run EXCEPT ![t].payload = rows]
          PROVE  run' \in [Tasks -> Run]
      <4>1. [run[t] EXCEPT !.payload = rows] \in Run
        BY OrdersType, RunUpdates
      <4> QED
        BY <3>1, <4>1
    <3> QED
      BY <1>12, <3>1 DEF SelectRows
  <2>2. spent' \in Spent
    BY <1>12, <1>f DEF SelectRows
  <2>3. pc' \in [Tasks -> Pcs] /\ loop' \in Tasks \cup {Nobody}
    BY <1>12, <1>d DEF SelectRows
  <2> QED
    BY <1>12, <2>1, <2>2, <2>3 DEF SelectRows
<1>13. ASSUME NEW t \in Tasks, ServeGet(t) PROVE TypeOK'
  <2>1. sheet \in Seq(Row \cup {Blank})
    BY EngineAssumption
  <2>2. [run[t] EXCEPT !.snap = sheet] \in Run
    BY <2>1, RunUpdates
  <2>3. run' \in [Tasks -> Run]
    BY <1>13, <2>2 DEF ServeGet
  <2>4. spent' \in Spent
    BY <1>13, <1>f DEF ServeGet
  <2> QED
    BY <1>13, <2>3, <2>4 DEF ServeGet
<1>14. ASSUME NEW t \in Tasks, ServePut(t) PROVE TypeOK'
  <2>1. run[t].payload \in Seq(Row)
    BY DEF Run
  <2>2. sheet' \in [1 .. LastRow -> Row \cup {Blank}]
    BY <1>14, <2>1, OverwriteType DEF ServePut
  <2>3. spent' \in Spent
    BY <1>14, <1>f DEF ServePut
  <2> QED
    BY <1>14, <2>2, <2>3 DEF ServePut
<1>15. ASSUME NEW t \in Tasks, FailPut(t) PROVE TypeOK'
  BY <1>15, <1>f DEF FailPut
<1>16. ASSUME NEW t \in Tasks, ResumeGet(t) PROVE TypeOK'
  <2>1. NewRun("to_mysql") \in Run
    BY <1>n DEF AllKinds
  <2>2. /\ run' \in [Tasks -> Run]
        /\ pc' \in [Tasks -> Pcs]
        /\ loop' \in Tasks \cup {Nobody}
    BY <1>16, <2>1, <1>l DEF ResumeGet
  <2> QED
    BY <1>16, <2>2 DEF ResumeGet
<1>17. ASSUME NEW t \in Tasks, ResumePut(t) PROVE TypeOK'
  BY <1>17 DEF ResumePut
<1>18. ASSUME NEW p \in 1 .. LastRow, NEW row \in Row \cup {Blank}, EditSheet(p, row)
       PROVE  TypeOK'
  <2>0. spent.edit < MaxEdits /\ spent' = [spent EXCEPT !.edit = @ + 1]
    BY <1>18 DEF EditSheet
  <2>1. spent' \in Spent
    BY <2>0, SpentType
  <2> QED
    BY <1>18, <2>1 DEF EditSheet
<1>19. ASSUME NEW k \in Keys, NEW v \in Vals \cup {Absent}, EditTable(k, v)
       PROVE  TypeOK'
  <2>0. spent.db < MaxDbEdits /\ spent' = [spent EXCEPT !.db = @ + 1]
    BY <1>19 DEF EditTable
  <2>1. spent' \in Spent
    BY <2>0, SpentType
  <2> QED
    BY <1>19, <2>1 DEF EditTable
<1>20. ASSUME Crash PROVE TypeOK'
  <2>0. spent.crash < MaxCrashes /\ spent' = [spent EXCEPT !.crash = @ + 1]
    BY <1>20 DEF Crash
  <2>1. spent' \in Spent
    BY <2>0, SpentType
  <2>2. ASSUME NEW t \in Tasks, pc[t] = "hash" PROVE Current(t).key \in Keys
    <3>1. Current(t) \in Row
      BY <2>2, CurrentType DEF AtRow
    <3> QED
      BY <3>1 DEF Row
  <2>3. torn' \in SUBSET Keys
    BY <1>20, <2>2 DEF Crash
  <2>4. NewRun("to_mysql") \in Run
    BY <1>n DEF AllKinds
  <2> QED
    BY <1>20, <2>1, <2>3, <2>4 DEF Crash
<1>21. CASE UNCHANGED vars
  BY <1>21 DEF vars
<1> QED
  BY <1>1, <1>2, <1>3, <1>4, <1>5, <1>6, <1>7, <1>8, <1>9, <1>10, <1>11, <1>12,
     <1>13, <1>14, <1>15, <1>16, <1>17, <1>18, <1>19, <1>20, <1>21
  DEF Next, Begin, Step, Answer, Resume, Environment

-----------------------------------------------------------------------------
(* The inductive invariant.                                                *)

\* Only the task that holds the loop is between two awaits.
LoopHeld == \A t \in Tasks : pc[t] \in LoopPcs => loop = t

\* A row that was just written is in the table, or its UPDATE found no row.
AtRowWritten ==
    \A t \in Tasks : pc[t] = "hash" =>
        table[Current(t).key] = Current(t).val \/ Current(t).key \in touched

\* The engine deletes nothing: a row it knows that is gone was taken away.
GoneIsTouched ==
    \A k \in Keys : table[k] = Absent /\ tracked[k] # Absent => k \in touched

IInv ==
    /\ TypeOK
    /\ LoopHeld
    /\ AtRow
    /\ AtRowWritten
    /\ GoneIsTouched
    /\ TrackingAgrees

\* Where a batch has not failed a row, what it has passed is recorded, except for
\* rows whose key comes again among those it has passed.
Recorded(t) ==
    \A i \in DOMAIN run[t].snap :
        i < run[t].at /\ run[t].snap[i] # Blank =>
            LET row == run[t].snap[i]
            IN  \/ tracked[row.key] = row.val
                \/ \E j \in DOMAIN run[t].snap :
                      /\ i < j /\ j < run[t].at
                      /\ run[t].snap[j] # Blank
                      /\ run[t].snap[j].key = row.key

BatchPcs == {"row", "hash", "done_to", "log_from", "select"}

Fresh(t) == pc[t] \in {"log_to", "table", "getting", "got"} => run[t].at = 1
FreshAt == \A t \in Tasks : Fresh(t)

\* log_from is also where a run of the other direction starts, with no snapshot.
Batch(t) ==
    pc[t] \in BatchPcs /\ ~run[t].bad =>
        /\ Recorded(t)
        /\ pc[t] \notin {"row", "hash"} => ~Pending(t)
BatchTracked == \A t \in Tasks : Batch(t)

BInv == IInv /\ FreshAt /\ BatchTracked

\* t moves to l and keeps, gives up or takes the event loop accordingly.
Moves(t, l) ==
    /\ pc' = [pc EXCEPT ![t] = l]
    /\ \/ loop = t /\ loop' = t
       \/ loop = Nobody /\ loop' = t
       \/ l \notin LoopPcs /\ loop' = Nobody /\ loop \in {t, Nobody}
       \/ l \notin LoopPcs /\ loop' = loop

\* t leaves the tables and what is known of them alone, and is not at a row's hash.
Quiet(t) ==
    /\ UNCHANGED <<table, tracked, touched, torn>>
    /\ pc[t] # "hash" /\ pc'[t] # "hash"

\* The local variables of the other tasks are their own.
Private(t) == \A u \in Tasks \ {t} : pc'[u] = pc[u] /\ run'[u] = run[u]

LEMMA BeginMoves ==
    ASSUME TypeOK, NEW t \in Tasks, Begin(t)
    PROVE  Quiet(t) /\ Private(t) /\ \E l \in Pcs : Moves(t, l)
<1> USE DEF TypeOK, Quiet, Private, Moves, stores, ghosts, Goto, Await
<1>1. ASSUME NEW k \in Kinds, BeginRun(t, k)
      PROVE  Quiet(t) /\ Private(t) /\ \E l \in Pcs : Moves(t, l)
  <2>1. Quiet(t) /\ Private(t)
    BY <1>1 DEF BeginRun
  <2>2. Moves(t, IF k = "from_mysql" THEN "log_from" ELSE "log_to")
    BY <1>1 DEF BeginRun
  <2> QED
    BY <2>1, <2>2 DEF Pcs, LoopPcs
<1>2. ASSUME BeginRange(t)
      PROVE  Quiet(t) /\ Private(t) /\ \E l \in Pcs : Moves(t, l)
  <2>1. Quiet(t) /\ Private(t)
    BY <1>2 DEF BeginRange
  <2>2. Moves(t, "getting")
    BY <1>2 DEF BeginRange, LoopPcs
  <2> QED
    BY <2>1, <2>2 DEF Pcs, AwaitPcs
<1> QED
  BY <1>1, <1>2 DEF Begin

LEMMA StepMoves ==
    ASSUME TypeOK, NEW t \in Tasks, Step(t) \/ Answer(t) \/ Resume(t)
    PROVE  Private(t) /\ (\E l \in Pcs : Moves(t, l))
<1> SUFFICES Private(t) /\ Moves(t, pc'[t]) /\ pc'[t] \in Pcs
  OBVIOUS
<1> USE DEF TypeOK, Private, Moves, Pcs, LoopPcs, AwaitPcs, stores, ghosts, Goto, Await
<1>1. CASE CreateLog(t)
  BY <1>1 DEF CreateLog, Failed
<1>2. CASE EnsureTable(t)
  BY <1>2 DEF EnsureTable, Failed
<1>3. CASE SkipRow(t)
  BY <1>3 DEF SkipRow, NextRow
<1>4. CASE WriteRow(t)
  BY <1>4 DEF WriteRow
<1>5. CASE RowFails(t)
  BY <1>5 DEF RowFails, RowError
<1>6. CASE RecordHash(t)
  BY <1>6 DEF RecordHash, NextRow, RowError
<1>7. CASE EndBatch(t)
  BY <1>7 DEF EndBatch
<1>8. CASE Complete(t)
  BY <1>8 DEF Complete, Failed, PhaseEnds, Leave
<1>9. CASE Fail(t)
  BY <1>9 DEF Fail, PhaseEnds, Leave
<1>10. CASE SelectRows(t)
  BY <1>10 DEF SelectRows, Failed
<1>11. CASE ServeGet(t)
  BY <1>11 DEF ServeGet
<1>12. CASE ServePut(t)
  BY <1>12 DEF ServePut
<1>13. CASE FailPut(t)
  BY <1>13 DEF FailPut
<1>14. CASE ResumeGet(t)
  BY <1>14 DEF ResumeGet, KeysKnown, KeysUnknown, Leave
<1>15. CASE ResumePut(t)
  BY <1>15 DEF ResumePut
<1> QED
  BY <1>1, <1>2, <1>3, <1>4, <1>5, <1>6, <1>7, <1>8, <1>9, <1>10, <1>11, <1>12, <1>13, <1>14, <1>15 DEF Step, Answer, Resume

LEMMA StepQuiet ==
    ASSUME TypeOK, NEW t \in Tasks, Step(t) \/ Answer(t) \/ Resume(t),
           ~WriteRow(t), ~RecordHash(t)
    PROVE  Quiet(t)
<1> USE DEF TypeOK, Quiet, stores, ghosts, Goto, Await
<1>1. CASE CreateLog(t)
  BY <1>1 DEF CreateLog, Failed
<1>2. CASE EnsureTable(t)
  BY <1>2 DEF EnsureTable, Failed
<1>3. CASE SkipRow(t)
  BY <1>3 DEF SkipRow, NextRow
<1>4. CASE RowFails(t)
  BY <1>4 DEF RowFails, RowError
<1>5. CASE EndBatch(t)
  BY <1>5 DEF EndBatch
<1>6. CASE Complete(t)
  BY <1>6 DEF Complete, Failed, PhaseEnds, Leave
<1>7. CASE Fail(t)
  BY <1>7 DEF Fail, PhaseEnds, Leave
<1>8. CASE SelectRows(t)
  BY <1>8 DEF SelectRows, Failed
<1>9. CASE ServeGet(t)
  BY <1>9 DEF ServeGet
<1>10. CASE ServePut(t)
  BY <1>10 DEF ServePut
<1>11. CASE FailPut(t)
  BY <1>11 DEF FailPut
<1>12. CASE ResumeGet(t)
  BY <1>12 DEF ResumeGet, KeysKnown, KeysUnknown, Leave
<1>13. CASE ResumePut(t)
  BY <1>13 DEF ResumePut
<1> QED
  BY <1>1, <1>2, <1>3, <1>4, <1>5, <1>6, <1>7, <1>8, <1>9, <1>10, <1>11, <1>12, <1>13 DEF Step, Answer, Resume

LEMMA InvInit == Init => IInv
<1> SUFFICES ASSUME Init PROVE IInv
  OBVIOUS
<1>1. TypeOK
  BY TypeInit
<1> QED
  BY <1>1 DEF Init, IInv, LoopHeld, LoopPcs, AtRow, AtRowWritten, GoneIsTouched,
              TrackingAgrees

LEMMA MovesHold ==
    ASSUME TypeOK, LoopHeld, NEW t \in Tasks, NEW l \in Pcs, Moves(t, l)
    PROVE  LoopHeld'
<1> SUFFICES ASSUME NEW u \in Tasks, pc'[u] \in LoopPcs
             PROVE  loop' = u
  BY DEF LoopHeld
<1>1. pc \in [Tasks -> Pcs] /\ Nobody \notin Tasks
  BY EngineAssumption DEF TypeOK
<1>2. CASE u = t
  <2>1. l \in LoopPcs
    BY <1>1, <1>2 DEF Moves
  <2> QED
    BY <1>2, <2>1 DEF Moves
<1>3. CASE u # t
  <2>1. pc[u] \in LoopPcs
    BY <1>1, <1>3 DEF Moves
  <2>2. loop = u
    BY <2>1 DEF LoopHeld
  <2> QED
    BY <1>1, <1>3, <2>2 DEF Moves
<1> QED
  BY <1>2, <1>3

\* A step that is none of WriteRow, RecordHash, EditTable and Crash.
LEMMA QuietNext ==
    ASSUME IInv, TypeOK', NEW t \in Tasks, Quiet(t), Private(t),
           \E l \in Pcs : Moves(t, l)
    PROVE  IInv'
<1>1. PICK l \in Pcs : Moves(t, l)
  OBVIOUS
<1>2. ASSUME NEW u \in Tasks, pc'[u] = "hash"
      PROVE  u # t /\ pc[u] = "hash" /\ run'[u] = run[u]
  BY <1>2 DEF Quiet, Private
<1>3. ASSUME NEW u \in Tasks, pc[u] = "hash"
      PROVE  u # t /\ pc'[u] = "hash" /\ run'[u] = run[u]
  BY <1>3 DEF Quiet, Private
<1>4. LoopHeld'
  BY <1>1, MovesHold DEF IInv
<1>5. AtRow'
  BY <1>2 DEF IInv, AtRow, Pending, Current
<1>6. AtRowWritten'
  BY <1>2 DEF IInv, AtRowWritten, Current, Quiet
<1>7. GoneIsTouched'
  BY DEF IInv, GoneIsTouched, Quiet
<1>8. TrackingAgrees'
  BY <1>3 DEF IInv, TrackingAgrees, InFlight, Current, Quiet
<1> QED
  BY <1>4, <1>5, <1>6, <1>7, <1>8 DEF IInv

LEMMA InvNext == IInv /\ [Next]_vars => IInv'
<1> SUFFICES ASSUME IInv, [Next]_vars PROVE IInv'
  OBVIOUS
<1>t. TypeOK'
  BY TypeNext DEF IInv
<1>1. ASSUME NEW t \in Tasks, Begin(t) PROVE IInv'
  BY <1>1, <1>t, BeginMoves, QuietNext DEF IInv
<1>2. ASSUME NEW t \in Tasks, Step(t) \/ Answer(t) \/ Resume(t),
             ~WriteRow(t), ~RecordHash(t)
      PROVE  IInv'
  BY <1>2, <1>t, StepMoves, StepQuiet, QuietNext DEF IInv
<1>3. ASSUME NEW t \in Tasks, WriteRow(t) PROVE IInv'
  <2>1. Step(t)
    BY <1>3 DEF Step
  <2>2. PICK l \in Pcs : Moves(t, l)
    BY <2>1, StepMoves DEF IInv
  <2>3. Private(t)
    BY <2>1, StepMoves DEF IInv
  <2> DEFINE k == Current(t).key
             v == Current(t).val
  <2>4. k \in Keys /\ v \in Vals
    BY <1>3, CurrentType DEF WriteRow, IInv, Row
  <2>5. /\ loop = t /\ pc[t] = "row" /\ Pending(t) /\ Current(t) # Blank
        /\ pc' = [pc EXCEPT ![t] = "hash"]
        /\ UNCHANGED <<tracked, run, torn>>
    BY <1>3 DEF WriteRow, Goto
  <2>6. /\ \/ table' = [table EXCEPT ![k] = v]
           \/ table' = table /\ table[k] = Absent /\ tracked[k] # Absent
        /\ touched' = IF table'[k] = Absent THEN touched ELSE touched \ {k}
    BY <1>3 DEF WriteRow, UpdateOf
  <2>7. table \in [Keys -> Vals \cup {Absent}] /\ pc \in [Tasks -> Pcs]
    BY DEF IInv, TypeOK
  <2>8. \A u \in Tasks : pc'[u] = "hash" => u = t
    BY <2>5, <2>7 DEF IInv, LoopHeld, LoopPcs
  <2>9. LoopHeld'
    BY <2>2, MovesHold DEF IInv
  <2>10. AtRow'
    BY <2>5, <2>8 DEF AtRow, Pending, Current
  <2>11. table'[k] = v \/ k \in touched'
    BY <2>4, <2>6, <2>7 DEF IInv, GoneIsTouched
  <2>12. AtRowWritten'
    BY <2>5, <2>8, <2>11 DEF AtRowWritten, Current
  <2>13. GoneIsTouched'
    <3> SUFFICES ASSUME NEW j \in Keys, table'[j] = Absent, tracked[j] # Absent
                 PROVE  j \in touched'
      BY <2>5 DEF GoneIsTouched
    <3>1. v # Absent
      BY <2>4, EngineAssumption
    <3>2. table[j] = Absent
      BY <3>1, <2>4, <2>6, <2>7
    <3>3. j \in touched
      BY <3>2 DEF IInv, GoneIsTouched
    <3> QED
      BY <3>3, <2>6
  <2>14. TrackingAgrees'
    <3> SUFFICES ASSUME NEW j \in Keys
                 PROVE  (table[j] = tracked[j] \/ j \in touched \cup torn \/ InFlight(j))'
      BY DEF TrackingAgrees
    <3>1. CASE j = k
      <4>1. InFlight(j)'
        BY <3>1, <2>5, <2>7 DEF InFlight, Current
      <4> QED
        BY <4>1
    <3>2. CASE j # k
      <4>1. ~InFlight(j)
        BY <2>5 DEF InFlight, IInv, LoopHeld, LoopPcs
      <4> QED
        BY <3>2, <4>1, <2>4, <2>5, <2>6, <2>7 DEF IInv, TrackingAgrees
    <3> QED
      BY <3>1, <3>2
  <2> QED
    BY <1>t, <2>9, <2>10, <2>12, <2>13, <2>14 DEF IInv
<1>4. ASSUME NEW t \in Tasks, RecordHash(t) PROVE IInv'
  <2>1. Step(t)
    BY <1>4 DEF Step
  <2>2. PICK l \in Pcs : Moves(t, l)
    BY <2>1, StepMoves DEF IInv
  <2> DEFINE k == Current(t).key
             v == Current(t).val
  <2>3. Pending(t) /\ Current(t) # Blank
    BY <1>4 DEF RecordHash, IInv, AtRow
  <2>4. k \in Keys /\ v \in Vals
    BY <2>3, CurrentType DEF IInv, Row
  <2>5. /\ loop = t /\ pc[t] = "hash"
        /\ pc' = [pc EXCEPT ![t] = "row"]
        /\ UNCHANGED <<table, touched>>
    BY <1>4 DEF RecordHash, Goto
  <2>6. \/ tracked' = [tracked EXCEPT ![k] = v] /\ torn' = torn \ {k}
        \/ tracked' = tracked /\ torn' = torn \cup {k}
    BY <1>4 DEF RecordHash
  <2>7. tracked \in [Keys -> Vals \cup {Absent}] /\ pc \in [Tasks -> Pcs]
    BY DEF IInv, TypeOK
  <2>8. \A u \in Tasks : pc'[u] # "hash"
    BY <2>5, <2>7 DEF IInv, LoopHeld, LoopPcs
  <2>9. \A u \in Tasks : pc[u] = "hash" => u = t
    BY <2>5 DEF IInv, LoopHeld, LoopPcs
  <2>10. LoopHeld'
    BY <2>2, MovesHold DEF IInv
  <2>11. AtRow' /\ AtRowWritten'
    BY <2>8 DEF AtRow, AtRowWritten
  <2>12. table[k] = v \/ k \in touched
    BY <2>5 DEF IInv, AtRowWritten
  <2>13. v # Absent
    BY <2>4, EngineAssumption
  <2>14. GoneIsTouched'
    BY <2>4, <2>5, <2>6, <2>7, <2>12, <2>13 DEF IInv, GoneIsTouched
  <2>15. TrackingAgrees'
    <3> SUFFICES ASSUME NEW j \in Keys
                 PROVE  (table[j] = tracked[j] \/ j \in touched \cup torn)'
      BY DEF TrackingAgrees
    <3>1. CASE j = k
      BY <3>1, <2>4, <2>5, <2>6, <2>7, <2>12
    <3>2. CASE j # k
      <4>1. ~InFlight(j)
        BY <3>2, <2>9 DEF InFlight
      <4> QED
        BY <3>2, <4>1, <2>4, <2>5, <2>6, <2>7 DEF IInv, TrackingAgrees
    <3> QED
      BY <3>1, <3>2
  <2> QED
    BY <1>t, <2>10, <2>11, <2>14, <2>15 DEF IInv
<1>5. ASSUME NEW p \in 1 .. LastRow, NEW row \in Row \cup {Blank}, EditSheet(p, row)
      PROVE  IInv'
  <2>1. UNCHANGED <<table, tracked, loop, pc, run, touched, torn>>
    BY <1>5 DEF EditSheet, ghosts
  <2> QED
    BY <1>t, <2>1 DEF IInv, LoopHeld, AtRow, AtRowWritten, GoneIsTouched,
       TrackingAgrees, InFlight, Pending, Current
<1>6. ASSUME NEW k \in Keys, NEW v \in Vals \cup {Absent}, EditTable(k, v)
      PROVE  IInv'
  <2>1. /\ UNCHANGED <<tracked, loop, pc, run, torn>>
        /\ table' = [table EXCEPT ![k] = v]
        /\ touched' = touched \cup {k}
    BY <1>6 DEF EditTable
  <2>2. table \in [Keys -> Vals \cup {Absent}]
    BY DEF IInv, TypeOK
  <2>3. LoopHeld' /\ AtRow'
    BY <2>1 DEF IInv, LoopHeld, AtRow, Pending, Current
  <2>4. \A j \in Keys : j = k \/ table'[j] = table[j]
    BY <2>1, <2>2
  <2>5. AtRowWritten'
    <3> SUFFICES ASSUME NEW t \in Tasks, pc[t] = "hash"
                 PROVE  \/ table'[Current(t).key] = Current(t).val
                        \/ Current(t).key \in touched'
      BY <2>1 DEF AtRowWritten, Current
    <3>1. Current(t).key \in Keys
      BY CurrentType DEF IInv, AtRow, Row
    <3> QED
      BY <3>1, <2>1, <2>4 DEF IInv, AtRowWritten
  <2>6. GoneIsTouched'
    BY <2>1, <2>4 DEF IInv, GoneIsTouched
  <2>7. TrackingAgrees'
    <3> SUFFICES ASSUME NEW j \in Keys
                 PROVE  (table[j] = tracked[j] \/ j \in touched \cup torn \/ InFlight(j))'
      BY DEF TrackingAgrees
    <3>1. InFlight(j) => InFlight(j)'
      BY <2>1 DEF InFlight, Current
    <3> QED
      BY <3>1, <2>1, <2>4 DEF IInv, TrackingAgrees
  <2> QED
    BY <1>t, <2>3, <2>5, <2>6, <2>7 DEF IInv
<1>7. ASSUME Crash PROVE IInv'
  <2>1. /\ pc' = [t \in Tasks |-> "idle"]
        /\ UNCHANGED <<table, tracked, touched>>
        /\ torn' = torn \cup {Current(t).key : t \in {u \in Tasks : pc[u] = "hash"}}
    BY <1>7 DEF Crash, stores
  <2>2. LoopHeld' /\ AtRow' /\ AtRowWritten' /\ GoneIsTouched'
    BY <2>1 DEF IInv, LoopHeld, LoopPcs, AtRow, AtRowWritten, GoneIsTouched
  <2>3. \A j \in Keys : InFlight(j) => j \in torn'
    BY <2>1 DEF InFlight
  <2>4. TrackingAgrees'
    BY <2>1, <2>3 DEF IInv, TrackingAgrees
  <2> QED
    BY <1>t, <2>2, <2>4 DEF IInv
<1>8. CASE UNCHANGED vars
  BY <1>t, <1>8 DEF vars, IInv, LoopHeld, AtRow, AtRowWritten, GoneIsTouched,
     TrackingAgrees, InFlight, Pending, Current
<1> QED
  BY <1>1, <1>2, <1>3, <1>4, <1>5, <1>6, <1>7, <1>8 DEF Next, Environment

\* The stores, the coroutines' variables and the event loop keep their types in
\* every behaviour, in particular when a run is cut off between a row and its hash.
THEOREM TypeCorrect == Spec => []TypeOK
<1>1. IInv => TypeOK
  BY DEF IInv
<1> QED
  BY <1>1, InvInit, InvNext, PTL DEF Spec

\* change_tracking agrees with the target table, whatever overlaps and fails.
THEOREM TrackingCorrect == Spec => []TrackingAgrees
<1>1. IInv => TrackingAgrees
  BY DEF IInv
<1> QED
  BY <1>1, InvInit, InvNext, PTL DEF Spec

-----------------------------------------------------------------------------
(* Batches.                                                                *)

LEMMA BatchInit == Init => BInv
<1> SUFFICES ASSUME Init PROVE BInv
  OBVIOUS
<1>1. IInv
  BY InvInit
<1>2. \A t \in Tasks : pc[t] = "idle"
  BY DEF Init
<1> QED
  BY <1>1, <1>2 DEF BInv, FreshAt, Fresh, BatchTracked, Batch, BatchPcs

\* Only the task that is in a batch changes change_tracking.
LEMMA BatchOthers ==
    ASSUME BInv, NEW t \in Tasks, Private(t), tracked' = tracked \/ loop = t,
           NEW u \in Tasks, u # t
    PROVE  Fresh(u)' /\ Batch(u)'
<1>1. pc'[u] = pc[u] /\ run'[u] = run[u]
  BY DEF Private
<1>2. Fresh(u) /\ Batch(u)
  BY DEF BInv, FreshAt, BatchTracked
<1>3. Fresh(u)'
  BY <1>1, <1>2 DEF Fresh
<1>4. CASE pc[u] \in BatchPcs
  <2>1. loop = u
    BY <1>4 DEF BInv, IInv, LoopHeld, BatchPcs, LoopPcs
  <2>2. tracked' = tracked
    BY <2>1
  <2> QED
    BY <1>1, <1>2, <1>3, <2>2 DEF Batch, Recorded, Pending
<1>5. CASE pc[u] \notin BatchPcs
  BY <1>1, <1>3, <1>5 DEF Batch
<1> QED
  BY <1>4, <1>5

\* A step after which the batch of t is where it was, or over, or not begun.
LEMMA BatchKept ==
    ASSUME BInv, NEW t \in Tasks,
           tracked' = tracked, run'[t].snap = run[t].snap, run'[t].at = run[t].at,
           ~run'[t].bad => ~run[t].bad,
           pc[t] \in BatchPcs,
           pc'[t] \in {"row", "hash"} \/ pc[t] \notin {"row", "hash"} \/ ~Pending(t)
    PROVE  Batch(t)'
<1>1. Batch(t)
  BY DEF BInv, BatchTracked
<1>2. Recorded(t) => Recorded(t)'
  BY DEF Recorded
<1>3. ~Pending(t) => ~Pending(t)'
  BY DEF Pending
<1> QED
  BY <1>1, <1>2, <1>3 DEF Batch

LEMMA StepTracked ==
    ASSUME TypeOK, NEW t \in Tasks, Step(t) \/ Answer(t) \/ Resume(t)
    PROVE  tracked' = tracked \/ loop = t
<1>1. CASE RecordHash(t)
  BY <1>1 DEF RecordHash
<1>2. CASE WriteRow(t)
  BY <1>2 DEF WriteRow
<1>3. CASE ~RecordHash(t) /\ ~WriteRow(t)
  BY <1>3, StepQuiet DEF Quiet
<1> QED
  BY <1>1, <1>2, <1>3

\* What a row passed at the end of a snapshot's processed part adds to it.
LEMMA RecordedNext ==
    ASSUME BInv, NEW t \in Tasks, pc[t] \in {"row", "hash"}, Pending(t), ~run[t].bad,
           run'[t].snap = run[t].snap, run'[t].at = run[t].at + 1,
           \/ Current(t) = Blank /\ tracked' = tracked
           \/ /\ Current(t) # Blank
              /\ tracked' = [tracked EXCEPT ![Current(t).key] = Current(t).val]
    PROVE  Recorded(t)'
<1> DEFINE snap == run[t].snap
           at == run[t].at
<1>1. snap \in Seq(Row \cup {Blank}) /\ at \in Nat \ {0}
  BY DEF BInv, IInv, TypeOK, Run
<1>2. at \in DOMAIN snap
  BY <1>1 DEF Pending
<1>3. Recorded(t)
  BY DEF BInv, BatchTracked, Batch, BatchPcs
<1>4. tracked \in [Keys -> Vals \cup {Absent}]
  BY DEF BInv, IInv, TypeOK
<1> SUFFICES ASSUME NEW i \in DOMAIN snap, i < at + 1, snap[i] # Blank
             PROVE  \/ tracked'[snap[i].key] = snap[i].val
                    \/ \E j \in DOMAIN snap :
                          /\ i < j /\ j < at + 1
                          /\ snap[j] # Blank
                          /\ snap[j].key = snap[i].key
  BY DEF Recorded
<1>5. snap[i].key \in Keys /\ snap[i].val \in Vals
  <2>1. snap[i] \in Row
    BY <1>1
  <2> QED
    BY <2>1 DEF Row
<1>6. CASE i = at
  <2>1. tracked' = [tracked EXCEPT ![snap[i].key] = snap[i].val]
    BY <1>6 DEF Current
  <2> QED
    BY <2>1, <1>4, <1>5
<1>7. CASE i # at
  <2>1. i < at
    BY <1>1, <1>7
  <2>2. CASE \E j \in DOMAIN snap : /\ i < j /\ j < at
                                    /\ snap[j] # Blank
                                    /\ snap[j].key = snap[i].key
    BY <2>2, <1>1
  <2>3. CASE tracked[snap[i].key] = snap[i].val
    <3>1. CASE Current(t) # Blank /\ Current(t).key = snap[i].key
      BY <3>1, <2>1, <1>1, <1>2 DEF Current
    <3>2. CASE Current(t) # Blank /\ Current(t).key # snap[i].key
      BY <3>2, <2>3, <1>4, <1>5
    <3>3. CASE Current(t) = Blank
      BY <3>3, <2>3
    <3> QED
      BY <3>1, <3>2, <3>3
  <2> QED
    BY <2>1, <2>2, <2>3, <1>3 DEF Recorded
<1> QED
  BY <1>6, <1>7

LEMMA BatchStep ==
    ASSUME BInv, NEW t \in Tasks, Begin(t) \/ Step(t) \/ Answer(t) \/ Resume(t)
    PROVE  Fresh(t)' /\ Batch(t)'
<1> USE DEF stores, ghosts, Goto, Await
<1>a. TypeOK /\ Fresh(t) /\ Batch(t)
  BY DEF BInv, IInv, FreshAt, BatchTracked
<1>b. pc \in [Tasks -> Pcs] /\ run \in [Tasks -> Run] /\ run[t] \in Run
  BY <1>a DEF TypeOK
<1>n. ASSUME NEW k \in AllKinds, run'[t] = NewRun(k)
      PROVE  run'[t].at = 1 /\ Recorded(t)' /\ ~Pending(t)'
  BY <1>n DEF NewRun, Recorded, Pending
<1>o. ASSUME pc'[t] \notin BatchPcs, pc'[t] \notin {"log_to", "table", "getting", "got"}
      PROVE  Fresh(t)' /\ Batch(t)'
  BY <1>o DEF Fresh, Batch
<1>l. ASSUME Leave(t) PROVE Fresh(t)' /\ Batch(t)'
  <2>1. pc'[t] = "idle"
    BY <1>b, <1>l DEF Leave
  <2> QED
    BY <2>1, <1>o DEF BatchPcs
<1>d. ASSUME Failed(t) PROVE Fresh(t)' /\ Batch(t)'
  <2>1. pc'[t] \in {"fail_to", "fail_from"}
    BY <1>b, <1>d DEF Failed
  <2> QED
    BY <2>1, <1>o DEF BatchPcs
<1>1. ASSUME NEW k \in Kinds, BeginRun(t, k) PROVE Fresh(t)' /\ Batch(t)'
  <2>1. run'[t] = NewRun(k) /\ k \in AllKinds
    BY <1>1, <1>b, EngineAssumption DEF BeginRun
  <2> QED
    BY <2>1, <1>n DEF Fresh, Batch
<1>2. CASE BeginRange(t)
  <2>1. run'[t] = NewRun("range") /\ "range" \in AllKinds
    BY <1>2, <1>b DEF BeginRange, AllKinds
  <2> QED
    BY <2>1, <1>n DEF Fresh, Batch
<1>3. CASE CreateLog(t)
  <2>1. CASE Failed(t)
    BY <2>1, <1>d
  <2>2. CASE ~Failed(t)
    <3>1. /\ pc[t] \in {"log_to", "log_from"}
          /\ pc'[t] = IF pc[t] = "log_to" THEN "table" ELSE "select"
          /\ tracked' = tracked
          /\ \E b \in BOOLEAN : run' = [run EXCEPT ![t].known = b]
      BY <1>3, <2>2, <1>b DEF CreateLog
    <3>2. run'[t].snap = run[t].snap /\ run'[t].at = run[t].at /\ run'[t].bad = run[t].bad
      BY <3>1, <1>b DEF Run
    <3>3. CASE pc[t] = "log_to"
      BY <3>1, <3>2, <3>3, <1>a DEF Fresh, Batch, BatchPcs
    <3>4. CASE pc[t] = "log_from"
      <4>1. Batch(t)'
        BY <3>1, <3>2, <3>4, BatchKept DEF BatchPcs
      <4> QED
        BY <3>1, <3>4, <4>1 DEF Fresh
    <3> QED
      BY <3>1, <3>3, <3>4
  <2> QED
    BY <2>1, <2>2
<1>4. CASE EnsureTable(t)
  <2>1. CASE Failed(t)
    BY <2>1, <1>d
  <2>2. CASE ~Failed(t)
    <3>1. pc[t] = "table" /\ pc'[t] = "getting" /\ run' = run
      BY <1>4, <2>2, <1>b DEF EnsureTable
    <3> QED
      BY <3>1, <1>a DEF Fresh, Batch, BatchPcs
  <2> QED
    BY <2>1, <2>2
<1>5. CASE SkipRow(t)
  <2>1. /\ pc[t] = "row" /\ pc' = pc /\ tracked' = tracked /\ Pending(t)
        /\ run' = [run EXCEPT ![t].at = @ + 1]
        /\ Current(t) # Blank => tracked[Current(t).key] = Current(t).val
    BY <1>5 DEF SkipRow, NextRow
  <2>2. /\ run'[t].snap = run[t].snap
        /\ run'[t].at = run[t].at + 1
        /\ run'[t].bad = run[t].bad
    BY <2>1, <1>b DEF Run
  <2>3. tracked \in [Keys -> Vals \cup {Absent}]
    BY <1>a DEF TypeOK
  <2>4. ~run[t].bad => Recorded(t)'
    BY <2>1, <2>2, <2>3, RecordedNext
  <2> QED
    BY <2>1, <2>2, <2>4 DEF Fresh, Batch
<1>6. CASE WriteRow(t)
  <2>1. pc[t] = "row" /\ pc'[t] = "hash" /\ tracked' = tracked /\ run' = run
    BY <1>6, <1>b DEF WriteRow
  <2> QED
    BY <2>1, BatchKept DEF Fresh, BatchPcs
<1>7. CASE RowFails(t)
  <2>1. pc[t] = "row" /\ pc' = pc /\ run'[t].bad = TRUE
    BY <1>7, <1>b DEF RowFails, RowError, Run
  <2> QED
    BY <2>1 DEF Fresh, Batch
<1>8. CASE RecordHash(t)
  <2>1. pc[t] = "hash" /\ pc'[t] = "row"
    BY <1>8, <1>b DEF RecordHash
  <2>2. CASE RowError(t)
    <3>1. run'[t].bad = TRUE
      BY <2>2, <1>b DEF RowError, Run
    <3> QED
      BY <2>1, <3>1 DEF Fresh, Batch
  <2>3. CASE /\ NextRow(t)
             /\ tracked' = [tracked EXCEPT ![Current(t).key] = Current(t).val]
    <3>1. /\ run'[t].snap = run[t].snap
          /\ run'[t].at = run[t].at + 1
          /\ run'[t].bad = run[t].bad
      BY <2>3, <1>b DEF NextRow, Run
    <3>2. Pending(t) /\ Current(t) # Blank
      BY <2>1 DEF BInv, IInv, AtRow
    <3>3. ~run[t].bad => Recorded(t)'
      BY <2>1, <2>3, <3>1, <3>2, RecordedNext
    <3> QED
      BY <2>1, <3>1, <3>3 DEF Fresh, Batch
  <2> QED
    BY <1>8, <2>2, <2>3 DEF RecordHash
<1>9. CASE EndBatch(t)
  <2>1. /\ pc[t] = "row" /\ pc'[t] = "done_to" /\ ~Pending(t)
        /\ tracked' = tracked /\ run' = run
    BY <1>9, <1>b DEF EndBatch
  <2> QED
    BY <2>1, BatchKept DEF Fresh, BatchPcs
<1>10. ASSUME NEW b \in BOOLEAN, PhaseEnds(t, b), tracked' = tracked,
              b \/ (pc[t] \in {"done_to", "done_from"} /\ b = run[t].bad)
       PROVE  Fresh(t)' /\ Batch(t)'
  <2>1. CASE /\ pc[t] \in {"done_to", "fail_to"}
             /\ Goto(t, "log_from") /\ run' = [run EXCEPT ![t].bad = b]
    <3>1. /\ pc'[t] = "log_from" /\ run'[t].bad = b
          /\ run'[t].snap = run[t].snap /\ run'[t].at = run[t].at
      BY <2>1, <1>b DEF Run
    <3>2. CASE b
      BY <3>1, <3>2 DEF Fresh, Batch
    <3>3. CASE ~b
      <4>1. pc[t] = "done_to" /\ b = run[t].bad
        BY <1>10, <2>1, <3>3
      <4>2. Batch(t)'
        BY <1>10, <3>1, <3>3, <4>1, BatchKept DEF BatchPcs
      <4> QED
        BY <3>1, <4>2 DEF Fresh
    <3> QED
      BY <3>2, <3>3
  <2>2. CASE Leave(t)
    BY <2>2, <1>l
  <2> QED
    BY <1>10, <2>1, <2>2 DEF PhaseEnds
<1>11. CASE Complete(t)
  <2>1. run[t].bad \in BOOLEAN
    BY <1>b DEF Run
  <2>2. /\ pc[t] \in {"done_to", "done_from"} /\ tracked' = tracked
        /\ PhaseEnds(t, run[t].bad) \/ Failed(t)
    BY <1>11 DEF Complete
  <2> QED
    BY <2>1, <2>2, <1>10, <1>d
<1>12. CASE Fail(t)
  <2>1. tracked' = tracked /\ (PhaseEnds(t, TRUE) \/ Leave(t))
    BY <1>12 DEF Fail
  <2> QED
    BY <2>1, <1>10, <1>l
<1>13. CASE SelectRows(t)
  <2>1. CASE Failed(t)
    BY <2>1, <1>d
  <2>2. CASE ~Failed(t)
    <3>1. pc'[t] \in {"putting", "done_from"}
      BY <1>13, <2>2, <1>b DEF SelectRows
    <3> QED
      BY <3>1, <1>o DEF BatchPcs
  <2> QED
    BY <2>1, <2>2
<1>14. CASE ServeGet(t)
  <2>1. /\ pc[t] = "getting" /\ pc'[t] \in {"got", "get_failed"}
        /\ run' = run \/ run' = [run EXCEPT ![t].snap = sheet]
    BY <1>14, <1>b DEF ServeGet
  <2>2. run'[t].at = run[t].at
    BY <2>1, <1>b DEF Run
  <2> QED
    BY <2>1, <2>2, <1>a DEF Fresh, Batch, BatchPcs
<1>15. CASE ServePut(t) \/ FailPut(t) \/ ResumePut(t)
  <2>1. pc'[t] \in {"put", "put_failed", "done_from", "fail_from"}
    BY <1>15, <1>b DEF ServePut, FailPut, ResumePut
  <2> QED
    BY <2>1, <1>o DEF BatchPcs
<1>16. CASE ResumeGet(t)
  <2>1. CASE pc[t] = "got" /\ pc' = [pc EXCEPT ![t] = "row"] /\ run' = run
    <3>1. run[t].at = 1 /\ pc'[t] = "row"
      BY <2>1, <1>a, <1>b DEF Fresh
    <3>2. run[t].snap \in Seq(Row \cup {Blank})
      BY <1>b DEF Run
    <3>3. Recorded(t)'
      BY <2>1, <3>1, <3>2 DEF Recorded
    <3> QED
      BY <3>1, <3>3 DEF Fresh, Batch
  <2>2. CASE pc' = [pc EXCEPT ![t] = "fail_to"]
    BY <2>2, <1>b, <1>o DEF BatchPcs
  <2>3. CASE /\ pc' = [pc EXCEPT ![t] = "log_to"]
             /\ run' = [run EXCEPT ![t] = NewRun("to_mysql")]
    <3>1. pc'[t] = "log_to" /\ run'[t] = NewRun("to_mysql")
      BY <2>3, <1>b
    <3> QED
      BY <3>1, <1>n DEF Fresh, Batch, BatchPcs, AllKinds
  <2>4. CASE Leave(t)
    BY <2>4, <1>l
  <2> QED
    BY <1>16, <2>1, <2>2, <2>3, <2>4 DEF ResumeGet, KeysKnown
<1> QED
  BY <1>1, <1>2, <1>3, <1>4, <1>5, <1>6, <1>7, <1>8, <1>9, <1>11, <1>12, <1>13,
     <1>14, <1>15, <1>16
  DEF Begin, Step, Answer, Resume

LEMMA BatchNext == BInv /\ [Next]_vars => BInv'
<1> SUFFICES ASSUME BInv, [Next]_vars PROVE BInv'
  OBVIOUS
<1>1. IInv' /\ IInv /\ TypeOK
  BY InvNext DEF BInv, IInv
<1>2. ASSUME NEW t \in Tasks, Begin(t) \/ Step(t) \/ Answer(t) \/ Resume(t) PROVE BInv'
  <2>1. Private(t)
    BY <1>1, <1>2, BeginMoves, StepMoves
  <2>2. tracked' = tracked \/ loop = t
    BY <1>1, <1>2, BeginMoves, StepTracked DEF Quiet
  <2>3. Fresh(t)' /\ Batch(t)'
    BY <1>2, BatchStep
  <2>4. \A u \in Tasks : Fresh(u)' /\ Batch(u)'
    BY <2>1, <2>2, <2>3, BatchOthers
  <2> QED
    BY <1>1, <2>4 DEF BInv, FreshAt, BatchTracked
<1>3. CASE /\ UNCHANGED <<tracked, pc, run>>
  BY <1>1, <1>3 DEF BInv, FreshAt, Fresh, BatchTracked, Batch, Recorded, Pending
<1>4. CASE Crash
  <2>1. \A t \in Tasks : pc'[t] = "idle"
    BY <1>4 DEF Crash
  <2> QED
    BY <1>1, <2>1 DEF BInv, FreshAt, Fresh, BatchTracked, Batch, BatchPcs
<1> QED
  BY <1>2, <1>3, <1>4 DEF Next, Environment, EditSheet, EditTable, vars

LEMMA BatchLanded == BInv => CleanBatchLanded
<1> SUFFICES ASSUME BInv, NEW t \in Tasks,
                    pc[t] \in {"done_to", "log_from", "select"}, ~run[t].bad,
                    NEW i \in Final(run[t].snap)
             PROVE  Landed(run[t].snap[i])
  BY DEF CleanBatchLanded
<1> DEFINE snap == run[t].snap
           k == snap[i].key
<1>1. snap \in Seq(Row \cup {Blank}) /\ run[t].at \in Nat
  BY DEF BInv, IInv, TypeOK, Run
<1>2. /\ i \in DOMAIN snap /\ snap[i] # Blank
      /\ \A j \in DOMAIN snap : snap[j] # Blank /\ snap[j].key = k => j <= i
  BY DEF Final
<1>3. Recorded(t) /\ ~Pending(t)
  BY DEF BInv, BatchTracked, Batch, BatchPcs
<1>4. i < run[t].at
  BY <1>1, <1>2, <1>3 DEF Pending
<1>5. tracked[k] = snap[i].val
  BY <1>1, <1>2, <1>3, <1>4 DEF Recorded
<1>6. k \in Keys
  <2>1. snap[i] \in Row
    BY <1>1, <1>2
  <2> QED
    BY <2>1 DEF Row
<1>7. ~InFlight(k)
  BY DEF InFlight, BInv, IInv, LoopHeld, LoopPcs
<1> QED
  BY <1>5, <1>6, <1>7 DEF BInv, IInv, TrackingAgrees, Landed

\* A batch without an error has brought all it read into the table.
THEOREM CleanBatch == Spec => []CleanBatchLanded
  BY BatchInit, BatchNext, BatchLanded, PTL DEF Spec

LEMMA DeletionStaysNext == IInv /\ [Next]_vars => [DeletionStays]_vars
<1> SUFFICES ASSUME IInv, Next, NEW k \in Keys,
                    table[k] = Absent, tracked[k] # Absent, spent'.db = spent.db
             PROVE  table'[k] = Absent
  BY DEF DeletionStays
<1>1. ASSUME NEW t \in Tasks, WriteRow(t) PROVE table'[k] = Absent
  <2>1. table \in [Keys -> Vals \cup {Absent}]
    BY DEF IInv, TypeOK
  <2>2. Current(t).key # k \/ table' = table
    BY <1>1 DEF WriteRow, UpdateOf
  <2>3. \A j \in Keys : j # Current(t).key => table'[j] = table[j]
    BY <1>1, <2>1 DEF WriteRow, UpdateOf
  <2> QED
    BY <2>2, <2>3
<1>2. ASSUME NEW t \in Tasks, RecordHash(t) PROVE table'[k] = Absent
  BY <1>2 DEF RecordHash
<1>3. ASSUME NEW t \in Tasks, Begin(t) \/ Step(t) \/ Answer(t) \/ Resume(t),
             ~WriteRow(t), ~RecordHash(t)
      PROVE  table'[k] = Absent
  BY <1>3, BeginMoves, StepQuiet DEF Quiet, IInv
<1>4. ASSUME NEW p \in 1 .. LastRow, NEW row \in Row \cup {Blank}, EditSheet(p, row)
      PROVE  table'[k] = Absent
  BY <1>4 DEF EditSheet
<1>5. ASSUME NEW j \in Keys, NEW v \in Vals \cup {Absent}, EditTable(j, v)
      PROVE  FALSE
  <2>1. spent.db \in Nat /\ spent'.db = spent.db + 1
    BY <1>5, EngineAssumption DEF EditTable, IInv, TypeOK, Spent
  <2> QED
    BY <2>1
<1>6. CASE Crash
  BY <1>6 DEF Crash, stores
<1> QED
  BY <1>1, <1>2, <1>3, <1>4, <1>5, <1>6 DEF Next, Environment

\* No run brings a synchronised row back that another writer deleted.
THEOREM Deletions == Spec => DeletionsStay
  BY InvInit, InvNext, DeletionStaysNext, PTL DEF Spec, DeletionsStay

-----------------------------------------------------------------------------
(* The way back.                                                           *)

\* A run goes from the SELECT to the put by SelectRows only.
LEMMA OnlySelectPuts ==
    ASSUME TypeOK, Next, NEW t \in Tasks, pc[t] = "select", pc'[t] = "putting"
    PROVE  SelectRows(t)
<1>1. ASSUME NEW u \in Tasks, u # t, Begin(u) \/ Step(u) \/ Answer(u) \/ Resume(u)
      PROVE  FALSE
  BY <1>1, BeginMoves, StepMoves DEF Private
<1>2. ~Begin(t)
  BY DEF Begin, BeginRun, BeginRange
<1>3. Step(t) => SelectRows(t)
  <2> USE DEF TypeOK, Goto, Await
  <2>1. ~CreateLog(t)
    BY DEF CreateLog
  <2>2. ~EnsureTable(t) /\ ~SkipRow(t) /\ ~WriteRow(t) /\ ~RowFails(t)
    BY DEF EnsureTable, SkipRow, WriteRow, RowFails
  <2>3. ~RecordHash(t) /\ ~EndBatch(t) /\ ~Complete(t) /\ ~Fail(t)
    BY DEF RecordHash, EndBatch, Complete, Fail
  <2> QED
    BY <2>1, <2>2, <2>3 DEF Step
<1>4. ~Answer(t) /\ ~Resume(t)
  BY DEF Answer, ServeGet, ServePut, FailPut, Resume, ResumeGet, ResumePut, KeysKnown,
         KeysUnknown
<1>5. ~Environment
  BY DEF TypeOK, Environment, EditSheet, EditTable, Crash
<1> QED
  BY <1>1, <1>2, <1>3, <1>4, <1>5 DEF Next

\* What the SELECT of task t puts into the sheet.
PutKept(t) ==
    pc[t] = "select" /\ pc'[t] = "putting" /\ ~run[t].bad =>
        \A i \in Final(run[t].snap) :
            LET row == run[t].snap[i]
            IN  \/ \E j \in DOMAIN run'[t].payload : run'[t].payload[j] = row
                \/ row.key \in touched \cup torn

LEMMA PutKeeps ==
    ASSUME BInv, Next, NEW t \in Tasks
    PROVE  PutKept(t)
<1> SUFFICES ASSUME pc[t] = "select", pc'[t] = "putting", ~run[t].bad,
                    NEW i \in Final(run[t].snap)
             PROVE  \/ \E j \in DOMAIN run'[t].payload :
                          run'[t].payload[j] = run[t].snap[i]
                    \/ run[t].snap[i].key \in touched \cup torn
  BY DEF PutKept
<1> DEFINE row == run[t].snap[i]
<1>1. TypeOK
  BY DEF BInv, IInv
<1>2. SelectRows(t)
  BY <1>1, OnlySelectPuts
<1>3. table \in [Keys -> Vals \cup {Absent}] /\ run[t] \in Run
  BY <1>1 DEF TypeOK
<1>4. PICK rows \in Orders(TableRows) : run' = [run EXCEPT ![t].payload = rows]
  BY <1>1, <1>2 DEF SelectRows, TypeOK, Failed, Goto
<1>5. run'[t].payload = rows
  BY <1>1, <1>3, <1>4 DEF TypeOK, Run
<1>6. row \in Row
  BY <1>3 DEF Final, Run
<1>7. Landed(row)
  BY BatchLanded DEF CleanBatchLanded
<1>8. CASE table[row.key] = row.val
  <2>1. row = [key |-> row.key, val |-> table[row.key]] /\ row.key \in Keys
        /\ table[row.key] # Absent
    BY <1>6, <1>8, EngineAssumption DEF Row
  <2>2. row \in TableRows
    BY <2>1 DEF TableRows
  <2> QED
    BY <1>3, <1>5, <2>2, OrdersAll
<1> QED
  BY <1>7, <1>8 DEF Landed

LEMMA PutKeepsNext == BInv /\ [Next]_vars => [\A t \in Tasks : PutKept(t)]_vars
  BY PutKeeps

\* The second direction of a two-way run puts each row back that the clean first
\* one brought over, for any number of rows and overlapping runs
\* (trigger_sync, sync_from_mysql).
THEOREM PutKeepsCorrect == Spec => PutKeepsSyncedRows
<1>1. BInv /\ [Next]_vars =>
      [\A t \in Tasks :
        pc[t] = "select" /\ pc'[t] = "putting" /\ ~run[t].bad =>
            \A i \in Final(run[t].snap) :
                LET row == run[t].snap[i]
                IN  \/ \E j \in DOMAIN run'[t].payload : run'[t].payload[j] = row
                    \/ row.key \in touched \cup torn]_vars
  BY PutKeepsNext DEF PutKept
<1> QED
  BY <1>1, BatchInit, BatchNext, PTL DEF Spec, PutKeepsSyncedRows
=============================================================================
