--------------------------- MODULE ConnectionPool ---------------------------
(***************************************************************************)
(* The connection pool of a database service (services/mysql_service.py,   *)
(* services/postgresql_service.py) and the statements that go through it:  *)
(* execute, execute_many, and the two statements of create_sync_log.       *)
(*                                                                         *)
(* The engine's statements run in the thread of the event loop; the        *)
(* dependencies of the connection routers are plain functions, which       *)
(* FastAPI runs in worker threads.  So threads share the one service       *)
(* object, and may interleave at every step below.  The drivers, their     *)
(* pools and the server are external.                                      *)
(***************************************************************************)
EXTENDS Naturals, FiniteSets

CONSTANTS
    Threads,        \* threads that use the service
    Slots,          \* connections of a pool (pool_size of them)
    MaxJobs,        \* bound on the calls made
    MaxPools,       \* bound on the pools created
    MaxPoolFaults   \* bound on failing statements, commits, rollbacks, connects

ASSUME PoolAssumption ==
    /\ IsFiniteSet(Threads) /\ IsFiniteSet(Slots)
    /\ {MaxJobs, MaxPools, MaxPoolFaults} \subseteq Nat

Backends == {"mysql", "postgresql"}
NoPool == 0
Conn == [pool : 1 .. MaxPools, slot : Slots]

VARIABLES
    backend,    \* which of the two services
    pool,       \* self._pool, by number
    closed,     \* pools closed by closeall
    idle,       \* connections that lie in their pool
    thread,     \* thread[t]: where t is in its call, and its local variables
    jobs,       \* calls made so far; a call's number is also the id of the log
                \* it inserts
    made,       \* pools created so far
    open,       \* open[k]: the call whose work is uncommitted on connection k
    lastId,     \* lastId[k]: what LAST_INSERT_ID() answers on connection k
    committed,  \* calls whose work is committed
    faults

poolVars == <<backend, pool, closed, idle, thread, jobs, made, open, lastId,
              committed, faults>>

\* many: the call is execute_many.  log: it is create_sync_log, whose second
\* statement asks for the id; got: the id it returned.
Thread ==
    [at : {"ready", "check", "create", "return", "take", "run", "commit",
           "undo", "release"},
     job : 0 .. MaxJobs, kind : {"execute", "execute_many", "log"},
     second : BOOLEAN, mine : 0 .. MaxPools, conn : SUBSET Conn,
     good : BOOLEAN, told : {"none", "ok", "busy", "error"}, got : 0 .. MaxJobs]

PoolTypeOK ==
    /\ backend \in Backends
    /\ pool \in 0 .. MaxPools
    /\ closed \subseteq 1 .. MaxPools
    /\ idle \subseteq Conn
    /\ thread \in [Threads -> Thread]
    /\ jobs \in 0 .. MaxJobs
    /\ made \in 0 .. MaxPools
    /\ open \in [Conn -> 0 .. MaxJobs]
    /\ lastId \in [Conn -> 0 .. MaxJobs]
    /\ committed \subseteq 1 .. MaxJobs
    /\ faults \in 0 .. MaxPoolFaults

PoolInit ==
    /\ backend \in Backends
    /\ pool = NoPool
    /\ closed = {}
    /\ idle = {}
    /\ thread = [t \in Threads |->
                    [at |-> "ready", job |-> 0, kind |-> "execute",
                     second |-> FALSE, mine |-> NoPool, conn |-> {},
                     good |-> FALSE, told |-> "none", got |-> 0]]
    /\ jobs = 0
    /\ made = 0
    /\ open = [k \in Conn |-> 0]
    /\ lastId = [k \in Conn |-> 0]
    /\ committed = {}
    /\ faults = 0

Fault == faults < MaxPoolFaults /\ faults' = faults + 1
NoFault == UNCHANGED faults

Local(t) == thread[t]
ConnOf(t) == CHOOSE k \in Conn : k \in thread[t].conn
To(t, a) == thread' = [thread EXCEPT ![t].at = a]

\* The call leaves the service with a result or an exception.
Tell(t, what) == thread' = [thread EXCEPT ![t].at = "ready", ![t].told = what]

server == <<open, lastId, committed>>

-----------------------------------------------------------------------------
\* Only the metadata service, which is MySQL, writes logs.
StartJob(t, k) ==
    /\ Local(t).at = "ready"
    /\ jobs < MaxJobs
    /\ k = "log" => backend = "mysql"
    /\ jobs' = jobs + 1
    /\ thread' = [thread EXCEPT ![t].at = "check", ![t].job = jobs',
                      ![t].kind = k, ![t].second = FALSE, ![t].told = "none",
                      ![t].got = 0, ![t].good = FALSE]
    /\ UNCHANGED <<backend, pool, closed, idle, made, server, faults>>

\* _get_pool reads self._pool, makes a pool when there is none that is open ...
CheckPool(t) ==
    /\ Local(t).at = "check"
    /\ To(t, IF pool = NoPool \/ pool \in closed THEN "create" ELSE "return")
    /\ UNCHANGED <<backend, pool, closed, idle, jobs, made, server, faults>>

\* ... and stores it.  Two threads that both found none make one each.
CreatePool(t) ==
    /\ Local(t).at = "create"
    /\ \/ /\ made < MaxPools
          /\ made' = made + 1
          /\ pool' = made'
          /\ idle' = idle \cup [pool : {made'}, slot : Slots]
          /\ To(t, "return")
          /\ NoFault
       \/ /\ Fault
          /\ Tell(t, "error")
          /\ UNCHANGED <<made, pool, idle>>
    /\ UNCHANGED <<backend, closed, jobs, server>>

\* "return self._pool" reads the attribute again.
ReturnPool(t) ==
    /\ Local(t).at = "return"
    /\ thread' = [thread EXCEPT ![t].at = "take", ![t].mine = pool]
    /\ UNCHANGED <<backend, pool, closed, idle, jobs, made, server, faults>>

\* get_connection and getconn do not wait: an exhausted pool raises at once, as
\* does a pool that is closed or gone.
TakeConnection(t) ==
    LET mine == {k \in idle : k.pool = Local(t).mine}
    IN  /\ Local(t).at = "take"
        /\ IF Local(t).mine = NoPool \/ Local(t).mine \in closed
           THEN Tell(t, "error") /\ UNCHANGED idle
           ELSE IF mine = {}
           THEN Tell(t, "busy") /\ UNCHANGED idle
           ELSE \E k \in mine :
                    /\ idle' = idle \ {k}
                    /\ thread' = [thread EXCEPT ![t].at = "run", ![t].conn = {k}]
        /\ UNCHANGED <<backend, pool, closed, jobs, made, server, faults>>

\* cursor.execute or executemany: autocommit is off, so the work stays open.
RunStatement(t) ==
    /\ Local(t).at = "run"
    /\ LET k == ConnOf(t)
       IN  \/ /\ ~Local(t).second
              /\ open' = [open EXCEPT ![k] = Local(t).job]
              /\ lastId' = IF Local(t).kind = "log"
                           THEN [lastId EXCEPT ![k] = Local(t).job] ELSE lastId
              /\ To(t, "commit")
              /\ NoFault
           \/ /\ Local(t).second
              /\ thread' = [thread EXCEPT ![t].at = "commit", ![t].got = lastId[k]]
              /\ NoFault
              /\ UNCHANGED <<open, lastId>>
           \/ /\ Fault \/ (k.pool \in closed /\ NoFault)
              /\ To(t, "undo")
              /\ UNCHANGED <<open, lastId>>
    /\ UNCHANGED <<backend, pool, closed, idle, jobs, made, committed>>

Kept(k) == IF open[k] = 0 THEN {} ELSE {open[k]}

\* Mutant of CommitWork: the commit is left out where the cursor has no rows.
CommitWorkSkipped(t) ==
    /\ Local(t).at = "commit"
    /\ thread' = [thread EXCEPT ![t].at = "release", ![t].good = TRUE]
    /\ UNCHANGED <<backend, pool, closed, idle, jobs, made, server, faults>>

\* conn.commit(); one that fails may have reached the server before it did.
CommitWork(t) ==
    /\ Local(t).at = "commit"
    /\ LET k == ConnOf(t)
       IN  \/ /\ k.pool \notin closed
              /\ committed' = committed \cup Kept(k)
              /\ open' = [open EXCEPT ![k] = 0]
              /\ thread' = [thread EXCEPT ![t].at = "release", ![t].good = TRUE]
              /\ NoFault
           \/ /\ Fault \/ (k.pool \in closed /\ NoFault)
              /\ \/ UNCHANGED <<committed, open>>
                 \/ /\ committed' = committed \cup Kept(k)
                    /\ open' = [open EXCEPT ![k] = 0]
              /\ To(t, "undo")
    /\ UNCHANGED <<backend, pool, closed, idle, jobs, made, lastId>>

\* The except clauses roll back, and pass over a rollback that fails.
UndoWork(t) ==
    /\ Local(t).at = "undo"
    /\ LET k == ConnOf(t)
       IN  \/ open' = [open EXCEPT ![k] = 0] /\ NoFault
           \/ Fault /\ UNCHANGED open
    /\ thread' = [thread EXCEPT ![t].at = "release", ![t].good = FALSE]
    /\ UNCHANGED <<backend, pool, closed, idle, jobs, made, lastId, committed>>

\* Mutant of SessionAfter: pool_reset_session is left at FALSE.
SessionAfterKept(k) == UNCHANGED lastId

\* A MySQL connection that comes back is reset (pool_reset_session), which
\* ends its transaction and its LAST_INSERT_ID().
SessionAfter(k) == lastId' = [lastId EXCEPT ![k] = 0]

\* Mutant of GiveBack: the finally clause returns only connections in order.
GiveBackGood(t) ==
    IF Local(t).good THEN Local(t).conn ELSE {}

\* conn.close() puts a MySQL connection back into its pool, always; putconn
\* refuses the connection of a pool that is closed.
GiveBack(t) == {k \in Local(t).conn : k.pool \notin closed}

\* The finally clause; the first statement of create_sync_log is followed by
\* another execute.
ReleaseConnection(t) ==
    /\ Local(t).at = "release"
    /\ idle' = idle \cup GiveBack(t)
    /\ open' = [open EXCEPT ![ConnOf(t)] = 0]
    /\ SessionAfter(ConnOf(t))
    /\ LET next == [Local(t) EXCEPT !.conn = {}]
       IN  thread' = [thread EXCEPT ![t] =
               IF next.good /\ next.kind = "log" /\ ~next.second
               THEN [next EXCEPT !.at = "check", !.second = TRUE]
               ELSE [next EXCEPT !.at = "ready",
                                 !.told = IF next.good THEN "ok" ELSE "error"]]
    /\ UNCHANGED <<backend, pool, closed, jobs, made, committed, faults>>

\* MySQL's close forgets the pool, PostgreSQL's closes its idle connections and
\* those in use.
ClosePool ==
    /\ pool # NoPool
    /\ made < MaxPools
    /\ pool' = NoPool
    /\ closed' = IF backend = "postgresql" THEN closed \cup {pool} ELSE closed
    /\ idle' = {k \in idle : k.pool \notin closed'}
    /\ UNCHANGED <<backend, thread, jobs, made, server, faults>>

-----------------------------------------------------------------------------
ThreadStep(t) ==
    \/ CheckPool(t) \/ CreatePool(t) \/ ReturnPool(t) \/ TakeConnection(t)
    \/ RunStatement(t) \/ CommitWork(t) \/ UndoWork(t) \/ ReleaseConnection(t)

PoolNext ==
    \/ \E t \in Threads :
          \/ \E k \in {"execute", "execute_many", "log"} : StartJob(t, k)
          \/ ThreadStep(t)
    \/ ClosePool

PoolSpec == PoolInit /\ [][PoolNext]_poolVars

-----------------------------------------------------------------------------
(* What the services guarantee.                                            *)

InUse == UNION {Local(t).conn : t \in Threads}

\* On every way out of execute, with a failing statement, commit or rollback,
\* the connection comes back: each connection of a pool that is not closed is
\* idle or in the hands of exactly one thread.
NoConnectionLost ==
    /\ \A k \in Conn :
          k.pool \in (1 .. made) \ closed => (k \in idle) # (k \in InUse)
    /\ \A t, u \in Threads : t # u => Local(t).conn \cap Local(u).conn = {}

\* A call that returns has its work committed; one that raises because no
\* connection was free has done nothing, except a create_sync_log whose INSERT
\* came before.
ResultIsTrue ==
    \A t \in Threads :
        /\ Local(t).told = "ok" => Local(t).job \in committed
        /\ Local(t).told = "busy" /\ ~Local(t).second => Local(t).job \notin committed

\* create_sync_log never returns the id of another run's log, whichever
\* connection its second statement gets.
NoForeignLogId ==
    \A t \in Threads : Local(t).got \in {0, Local(t).job}
=============================================================================
