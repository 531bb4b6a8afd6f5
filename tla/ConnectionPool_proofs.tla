------------------------ MODULE ConnectionPool_proofs ------------------------
(***************************************************************************)
(* Proofs about ConnectionPool, for any number of threads, connections,    *)
(* pools, calls and faults.                                                *)
(***************************************************************************)
EXTENDS ConnectionPool, TLAPS

-----------------------------------------------------------------------------
(* The inductive invariant.                                                *)

Holds(t) == Local(t).at \in {"run", "commit", "undo", "release"}

\* A thread has one connection from taking it to giving it back.
HandsInv ==
    \A t \in Threads :
        /\ Holds(t) => \E k \in Conn : Local(t).conn = {k}
        /\ ~Holds(t) => Local(t).conn = {}

\* Every pool that is spoken of has been made, and what is idle is not closed.
BoundsInv ==
    /\ pool <= made
    /\ closed \subseteq 1 .. made
    /\ \A k \in idle : k.pool \in (1 .. made) \ closed
    /\ \A t \in Threads : Local(t).mine <= made
    /\ \A t \in Threads : \A k \in Local(t).conn : k.pool <= made

\* A call belongs to one thread.
JobsInv ==
    /\ committed \subseteq 1 .. jobs
    /\ \A t \in Threads : Local(t).job <= jobs
    /\ \A t \in Threads : Local(t).at # "ready" => Local(t).job > 0
    /\ \A t, u \in Threads :
          t # u /\ Local(t).job = Local(u).job => Local(t).job = 0

\* What is uncommitted on a connection is the work of the thread that has it,
\* and only the first statement of a call leaves an id there.
ServerInv ==
    /\ \A k \in Conn : open[k] # 0 =>
          \E t \in Threads : k \in Local(t).conn /\ Local(t).job = open[k]
    /\ \A k \in Conn : lastId[k] # 0 =>
          \E t \in Threads : k \in Local(t).conn /\ ~Local(t).second

FreshCall(t) ==
    /\ \/ Local(t).at \in {"check", "create", "return", "take", "run"}
       \/ Local(t).told = "busy"
    /\ ~Local(t).second

\* Where a call stands decides whether its work is open or committed.
WorkInv ==
    \A t \in Threads :
        /\ Local(t).at = "commit" /\ ~Local(t).second =>
              \A k \in Local(t).conn : open[k] = Local(t).job
        /\ \/ Local(t).second
           \/ Local(t).at = "release" /\ Local(t).good
           \/ Local(t).told = "ok"
           => Local(t).job \in committed
        /\ FreshCall(t) => Local(t).job \notin committed
        /\ Local(t).told # "none" => Local(t).at = "ready"
        /\ Local(t).got \in {0, Local(t).job}

PoolInv ==
    PoolTypeOK /\ HandsInv /\ BoundsInv /\ NoConnectionLost /\ JobsInv /\ ServerInv /\ WorkInv

-----------------------------------------------------------------------------
(* Lemmas.                                                                 *)

LEMMA InitInv == PoolInit => PoolInv
<1> SUFFICES ASSUME PoolInit PROVE PoolInv OBVIOUS
<1>a. MaxJobs \in Nat /\ MaxPools \in Nat /\ MaxPoolFaults \in Nat BY PoolAssumption
<1>b. 0 \in 0 .. MaxJobs /\ 0 \in 0 .. MaxPools /\ 0 \in 0 .. MaxPoolFaults BY <1>a
<1>1. PoolTypeOK
  <2>1. [at |-> "ready", job |-> 0, kind |-> "execute", second |-> FALSE, mine |-> NoPool,
         conn |-> {}, good |-> FALSE, told |-> "none", got |-> 0] \in Thread
      BY <1>b DEF Thread, NoPool
  <2> QED BY <1>b, <2>1 DEF PoolInit, PoolTypeOK, NoPool
<1>2. \A t \in Threads : /\ Local(t).at = "ready" /\ Local(t).job = 0 /\ ~Local(t).second
                         /\ Local(t).conn = {} /\ ~Local(t).good /\ Local(t).mine = 0
                         /\ Local(t).told = "none" /\ Local(t).got = 0
    BY DEF PoolInit, Local, NoPool
<1>3. HandsInv BY <1>2 DEF HandsInv, Holds
<1>4. BoundsInv BY <1>2 DEF BoundsInv, PoolInit, NoPool
<1>5. NoConnectionLost BY <1>2 DEF NoConnectionLost, PoolInit
<1>6. JobsInv BY <1>2 DEF JobsInv, PoolInit
<1>7. ServerInv BY DEF ServerInv, PoolInit
<1>8. WorkInv BY <1>2 DEF WorkInv, FreshCall, PoolInit
<1> QED BY <1>1, <1>3, <1>4, <1>5, <1>6, <1>7, <1>8 DEF PoolInv

\* The connection of a thread that has one.
LEMMA HandOf ==
    ASSUME PoolInv, NEW t \in Threads, Holds(t)
    PROVE  ConnOf(t) \in Conn /\ Local(t).conn = {ConnOf(t)}
<1>1. PICK k \in Conn : Local(t).conn = {k} BY DEF PoolInv, HandsInv
<1>2. \E j \in Conn : j \in thread[t].conn BY <1>1 DEF Local
<1> QED BY <1>1, <1>2 DEF ConnOf, Local

\* Two threads do not have the same connection, and nobody has an idle one.
LEMMA Exclusive ==
    ASSUME PoolInv
    PROVE  /\ \A t, u \in Threads : t # u => Local(t).conn \cap Local(u).conn = {}
           /\ \A t \in Threads : Local(t).conn \cap idle = {}
<1>1. \A t, u \in Threads : t # u => Local(t).conn \cap Local(u).conn = {}
    BY DEF PoolInv, NoConnectionLost
<1>2. ASSUME NEW t \in Threads, NEW k \in Local(t).conn, k \in idle PROVE FALSE
  <2>1. k \in Conn BY <1>2 DEF PoolInv, PoolTypeOK
  <2>2. k \in InUse BY <1>2 DEF InUse
  <2>3. k.pool \in (1 .. made) \ closed BY <1>2 DEF PoolInv, BoundsInv
  <2> QED BY <1>2, <2>1, <2>2, <2>3 DEF PoolInv, NoConnectionLost
<1> QED BY <1>1, <1>2

\* A step that only moves one thread, within a call that has not got a
\* connection yet.
LEMMA MoveInv ==
    ASSUME PoolInv, NEW t \in Threads, NEW r \in Thread,
           thread' = [thread EXCEPT ![t] = r],
           UNCHANGED <<backend, closed, idle, jobs, open, lastId, committed>>,
           pool' = pool, made' = made, faults' \in 0 .. MaxPoolFaults,
           Local(t).at \in {"check", "create", "return", "take"},
           r.conn = {}, r.job = Local(t).job, r.second = Local(t).second,
           r.got = Local(t).got, r.mine <= made,
           \/ r.at \in {"create", "return", "take"} /\ r.told = "none"
           \/ r.at = "ready" /\ r.told \in {"busy", "error"}
    PROVE  PoolInv'
<1>0. \A u \in Threads : thread'[u] = IF u = t THEN r ELSE thread[u]
    BY DEF PoolInv, PoolTypeOK
<1>a. Local(t).conn = {} BY DEF PoolInv, HandsInv, Holds
<1>b. Local(t).told = "none" BY DEF PoolInv, WorkInv
<1>c. \A u \in Threads : thread'[u].conn = thread[u].conn /\ thread'[u].job = thread[u].job
                        /\ thread'[u].second = thread[u].second
    BY <1>0, <1>a DEF Local
<1>1. PoolTypeOK' BY DEF PoolInv, PoolTypeOK
<1>2. HandsInv' BY <1>0 DEF PoolInv, HandsInv, Holds, Local
<1>3. BoundsInv' BY <1>0, <1>c DEF PoolInv, BoundsInv, Local
<1>4. NoConnectionLost' BY <1>c DEF PoolInv, NoConnectionLost, InUse, Local
<1>5. JobsInv' BY <1>0, <1>c DEF PoolInv, JobsInv, Local
<1>6. ServerInv' BY <1>c DEF PoolInv, ServerInv, Local
<1>7. WorkInv' BY <1>0, <1>a, <1>b DEF PoolInv, WorkInv, FreshCall, Local
<1> QED BY <1>1, <1>2, <1>3, <1>4, <1>5, <1>6, <1>7 DEF PoolInv

-----------------------------------------------------------------------------
(* Every step keeps the invariant.                                         *)

LEMMA StartInv ==
    ASSUME PoolInv, NEW t \in Threads, NEW k \in {"execute", "execute_many", "log"},
           StartJob(t, k)
    PROVE  PoolInv'
<1> DEFINE r == [thread[t] EXCEPT !.at = "check", !.job = jobs + 1, !.kind = k,
                                  !.second = FALSE, !.told = "none", !.got = 0,
                                  !.good = FALSE]
<1>t. thread[t] \in Thread BY DEF PoolInv, PoolTypeOK
<1>j. jobs \in Nat /\ jobs + 1 \in 0 .. MaxJobs /\ 0 \in 0 .. MaxJobs
    BY PoolAssumption DEF PoolInv, PoolTypeOK, StartJob
<1>r. r \in Thread BY <1>t, <1>j DEF Thread
<1>f. /\ thread' = [thread EXCEPT ![t] = r]
      /\ jobs' = jobs + 1
      /\ UNCHANGED <<backend, pool, closed, idle, made, open, lastId, committed, faults>>
    BY <1>t DEF StartJob, server, Thread
<1>0. \A u \in Threads : thread'[u] = IF u = t THEN r ELSE thread[u]
    BY <1>f DEF PoolInv, PoolTypeOK
<1>s. /\ r.at = "check" /\ r.job = jobs + 1 /\ ~r.second /\ r.told = "none" /\ r.got = 0
      /\ r.conn = Local(t).conn /\ r.mine = Local(t).mine
    BY <1>t DEF Local, Thread
<1>n. \A u \in Threads : thread[u].job \in Nat /\ thread[u].job <= jobs
    BY PoolAssumption DEF PoolInv, PoolTypeOK, Thread, JobsInv, Local
<1>a. Local(t).conn = {} BY DEF PoolInv, HandsInv, Holds, StartJob
<1>c. \A u \in Threads : thread'[u].conn = thread[u].conn
    BY <1>0, <1>s DEF Local
<1> HIDE DEF r
<1>1. PoolTypeOK' BY <1>f, <1>r, <1>j DEF PoolInv, PoolTypeOK
<1>2. HandsInv' BY <1>0, <1>a, <1>s DEF PoolInv, HandsInv, Holds, Local
<1>3. BoundsInv' BY <1>0, <1>f, <1>s, <1>c DEF PoolInv, BoundsInv, Local
<1>4. NoConnectionLost' BY <1>c, <1>f DEF PoolInv, NoConnectionLost, InUse, Local
<1>5. JobsInv'
  <2>1. committed' \subseteq 1 .. jobs' BY <1>f, <1>j DEF PoolInv, JobsInv
  <2> QED BY <2>1, <1>0, <1>f, <1>j, <1>n, <1>s DEF PoolInv, JobsInv, Local
<1>6. ServerInv' BY <1>0, <1>a, <1>f, <1>s DEF PoolInv, ServerInv, Local
<1>7. WorkInv'
  <2>1. r.job \notin committed BY <1>j, <1>s DEF PoolInv, JobsInv
  <2> QED BY <2>1, <1>0, <1>f, <1>s DEF PoolInv, WorkInv, FreshCall, Local
<1> QED BY <1>1, <1>2, <1>3, <1>4, <1>5, <1>6, <1>7 DEF PoolInv

LEMMA CheckInv ==
    ASSUME PoolInv, NEW t \in Threads, CheckPool(t) PROVE PoolInv'
<1> DEFINE r == [thread[t] EXCEPT
                    !.at = IF pool = NoPool \/ pool \in closed THEN "create" ELSE "return"]
<1>t. thread[t] \in Thread BY DEF PoolInv, PoolTypeOK
<1>r. r \in Thread BY <1>t DEF Thread
<1>f. thread' = [thread EXCEPT ![t] = r] BY <1>t DEF CheckPool, To, Thread
<1>s. /\ r.at \in {"create", "return"}
      /\ r.told = thread[t].told /\ r.conn = thread[t].conn /\ r.job = thread[t].job
      /\ r.second = thread[t].second /\ r.got = thread[t].got /\ r.mine = thread[t].mine
    BY <1>t DEF Thread
<1>a. thread[t].conn = {} /\ thread[t].told = "none" /\ thread[t].mine <= made
    BY DEF PoolInv, HandsInv, Holds, WorkInv, BoundsInv, CheckPool, Local
<1> HIDE DEF r
<1> QED BY <1>r, <1>f, <1>s, <1>a, MoveInv DEF CheckPool, Local, server, PoolInv, PoolTypeOK

LEMMA ReturnInv ==
    ASSUME PoolInv, NEW t \in Threads, ReturnPool(t) PROVE PoolInv'
<1> DEFINE r == [thread[t] EXCEPT !.at = "take", !.mine = pool]
<1>t. thread[t] \in Thread /\ pool \in 0 .. MaxPools BY DEF PoolInv, PoolTypeOK
<1>r. r \in Thread BY <1>t DEF Thread
<1>f. thread' = [thread EXCEPT ![t] = r] BY <1>t DEF ReturnPool, Thread
<1>s. /\ r.at = "take" /\ r.mine = pool
      /\ r.told = thread[t].told /\ r.conn = thread[t].conn /\ r.job = thread[t].job
      /\ r.second = thread[t].second /\ r.got = thread[t].got
    BY <1>t DEF Thread
<1>a. thread[t].conn = {} /\ thread[t].told = "none" /\ pool <= made
    BY DEF PoolInv, HandsInv, Holds, WorkInv, BoundsInv, ReturnPool, Local
<1> HIDE DEF r
<1> QED BY <1>r, <1>f, <1>s, <1>a, MoveInv DEF ReturnPool, Local, server, PoolInv, PoolTypeOK

\* The call of a thread without a connection leaves with what it is told.
LEMMA TellInv ==
    ASSUME PoolInv, NEW t \in Threads, NEW what \in {"busy", "error"}, Tell(t, what),
           Local(t).at \in {"create", "take"}, faults' \in 0 .. MaxPoolFaults,
           UNCHANGED <<backend, pool, closed, idle, jobs, made, open, lastId, committed>>
    PROVE  PoolInv'
<1> DEFINE r == [thread[t] EXCEPT !.at = "ready", !.told = what]
<1>t. thread[t] \in Thread BY DEF PoolInv, PoolTypeOK
<1>r. r \in Thread BY <1>t DEF Thread
<1>f. thread' = [thread EXCEPT ![t] = r] BY <1>t DEF Tell, Thread
<1>s. /\ r.at = "ready" /\ r.told = what
      /\ r.mine = thread[t].mine /\ r.conn = thread[t].conn /\ r.job = thread[t].job
      /\ r.second = thread[t].second /\ r.got = thread[t].got
    BY <1>t DEF Thread
<1>a. thread[t].conn = {} /\ thread[t].mine <= made
    BY DEF PoolInv, HandsInv, Holds, BoundsInv, Local
<1> HIDE DEF r
<1> QED BY <1>r, <1>f, <1>s, <1>a, MoveInv DEF Local

LEMMA CreateInv ==
    ASSUME PoolInv, NEW t \in Threads, CreatePool(t) PROVE PoolInv'
<1>q. made \in Nat /\ faults \in Nat /\ faults \in 0 .. MaxPoolFaults
    BY PoolAssumption DEF PoolInv, PoolTypeOK
<1>1. CASE Fault /\ Tell(t, "error") /\ UNCHANGED <<made, pool, idle>>
  <2>1. faults' \in 0 .. MaxPoolFaults BY <1>1, <1>q, PoolAssumption DEF Fault
  <2> QED BY <1>1, <2>1, TellInv DEF CreatePool, server, Local
<1>2. CASE /\ made < MaxPools
           /\ made' = made + 1
           /\ pool' = made'
           /\ idle' = idle \cup [pool : {made'}, slot : Slots]
           /\ To(t, "return")
           /\ NoFault
  <2> DEFINE r == [thread[t] EXCEPT !.at = "return"]
  <2>t. thread[t] \in Thread BY DEF PoolInv, PoolTypeOK
  <2>r. r \in Thread BY <2>t DEF Thread
  <2>f. /\ thread' = [thread EXCEPT ![t] = r]
        /\ UNCHANGED <<backend, closed, jobs, open, lastId, committed, faults>>
      BY <1>2, <2>t DEF To, Thread, CreatePool, server, NoFault
  <2>0. \A u \in Threads : thread'[u] = IF u = t THEN r ELSE thread[u]
      BY <2>f DEF PoolInv, PoolTypeOK
  <2>s. /\ r.at = "return" /\ r.told = thread[t].told /\ r.mine = thread[t].mine
        /\ r.conn = thread[t].conn /\ r.job = thread[t].job
        /\ r.second = thread[t].second /\ r.got = thread[t].got
      BY <2>t DEF Thread
  <2>a. Local(t).conn = {} /\ Local(t).at = "create"
      BY DEF PoolInv, HandsInv, Holds, CreatePool
  <2>c. \A u \in Threads : thread'[u].conn = thread[u].conn /\ thread'[u].job = thread[u].job
                          /\ thread'[u].second = thread[u].second
                          /\ thread'[u].mine = thread[u].mine
      BY <2>0, <2>s
  <2>n. [pool : {made + 1}, slot : Slots] \subseteq Conn
      BY <1>2, <1>q, PoolAssumption DEF Conn
  <2>k. \A k \in Conn : k.pool \in 1 .. MaxPools /\ (k \in [pool : {made + 1}, slot : Slots]
                                                  <=> k.pool = made + 1)
      BY <1>q DEF Conn
  <2> HIDE DEF r
  <2>1. PoolTypeOK' BY <1>2, <1>q, <2>f, <2>r, <2>n, PoolAssumption DEF PoolInv, PoolTypeOK
  <2>2. HandsInv' BY <2>0, <2>a, <2>s DEF PoolInv, HandsInv, Holds, Local
  <2>3. BoundsInv'
    <3>1. pool' <= made' /\ closed' \subseteq 1 .. made'
        BY <1>2, <1>q, <2>f DEF PoolInv, BoundsInv
    <3>2. \A k \in idle' : k.pool \in (1 .. made') \ closed'
        BY <1>2, <1>q, <2>f, <2>k, <2>n DEF PoolInv, BoundsInv
    <3>3. \A u \in Threads : thread[u].mine \in Nat
        BY PoolAssumption DEF PoolInv, PoolTypeOK, Thread
    <3>4. \A u \in Threads : thread[u].conn \subseteq Conn BY DEF PoolInv, PoolTypeOK, Thread
    <3>5. \A u \in Threads : \A k \in thread[u].conn : k.pool \in Nat
        BY <3>4, PoolAssumption DEF Conn
    <3> QED BY <1>2, <1>q, <2>c, <3>1, <3>2, <3>3, <3>5 DEF PoolInv, BoundsInv, Local
  <2>4. NoConnectionLost'
    <3>1. InUse' = InUse BY <2>c DEF InUse, Local
    <3>2. \A k \in InUse : k.pool <= made BY DEF PoolInv, BoundsInv, InUse
    <3>3. ASSUME NEW k \in Conn, k.pool \in (1 .. made') \ closed'
          PROVE  (k \in idle') # (k \in InUse')
      <4>1. CASE k.pool = made + 1
          BY <1>2, <1>q, <2>k, <3>1, <3>2, <4>1 DEF PoolInv, BoundsInv
      <4>2. CASE k.pool # made + 1
        <5>1. k.pool \in (1 .. made) \ closed BY <1>2, <1>q, <2>f, <2>k, <3>3, <4>2
        <5>2. (k \in idle') = (k \in idle) BY <1>2, <2>k, <4>2
        <5> QED BY <3>1, <5>1, <5>2 DEF PoolInv, NoConnectionLost
      <4> QED BY <4>1, <4>2
    <3> QED BY <2>c, <3>3 DEF PoolInv, NoConnectionLost, Local
  <2>5. JobsInv' BY <2>0, <2>a, <2>c, <2>f DEF PoolInv, JobsInv, Local
  <2>6. ServerInv' BY <2>c, <2>f DEF PoolInv, ServerInv, Local
  <2>7. WorkInv' BY <2>0, <2>a, <2>f, <2>s DEF PoolInv, WorkInv, FreshCall, Local
  <2> QED BY <2>1, <2>2, <2>3, <2>4, <2>5, <2>6, <2>7 DEF PoolInv
<1> QED BY <1>1, <1>2 DEF CreatePool

LEMMA TakeInv ==
    ASSUME PoolInv, NEW t \in Threads, TakeConnection(t) PROVE PoolInv'
<1>q. UNCHANGED <<backend, pool, closed, jobs, made, open, lastId, committed, faults>>
    BY DEF TakeConnection, server
<1>1. CASE UNCHANGED idle /\ (Tell(t, "error") \/ Tell(t, "busy"))
    BY <1>1, <1>q, TellInv DEF TakeConnection, Local, PoolInv, PoolTypeOK
<1>2. ASSUME NEW k \in idle,
             idle' = idle \ {k},
             thread' = [thread EXCEPT ![t].at = "run", ![t].conn = {k}]
      PROVE  PoolInv'
  <2> DEFINE r == [thread[t] EXCEPT !.at = "run", !.conn = {k}]
  <2>t. thread[t] \in Thread /\ k \in Conn BY DEF PoolInv, PoolTypeOK
  <2>r. r \in Thread BY <2>t DEF Thread
  <2>f. thread' = [thread EXCEPT ![t] = r] BY <1>2, <2>t DEF Thread
  <2>0. \A u \in Threads : thread'[u] = IF u = t THEN r ELSE thread[u]
      BY <2>f DEF PoolInv, PoolTypeOK
  <2>s. /\ r.at = "run" /\ r.told = thread[t].told /\ r.mine = thread[t].mine
        /\ r.conn = {k} /\ r.job = thread[t].job
        /\ r.second = thread[t].second /\ r.got = thread[t].got
      BY <2>t DEF Thread
  <2>a. Local(t).conn = {} /\ Local(t).at = "take"
      BY DEF PoolInv, HandsInv, Holds, TakeConnection
  <2>c. \A u \in Threads : thread'[u].job = thread[u].job
                          /\ thread'[u].second = thread[u].second
                          /\ thread'[u].mine = thread[u].mine
      BY <2>0, <2>s
  <2>i. \A u \in Threads : k \notin Local(u).conn BY Exclusive
  <2> HIDE DEF r
  <2>1. PoolTypeOK' BY <1>2, <1>q, <2>f, <2>r DEF PoolInv, PoolTypeOK
  <2>2. HandsInv' BY <2>0, <2>s, <2>t DEF PoolInv, HandsInv, Holds, Local
  <2>3. BoundsInv'
    <3>1. k.pool <= made BY PoolAssumption DEF PoolInv, BoundsInv, PoolTypeOK
    <3>2. \A j \in idle' : j.pool \in (1 .. made) \ closed BY <1>2 DEF PoolInv, BoundsInv
    <3>3. \A u \in Threads : \A j \in thread'[u].conn : j.pool <= made
        BY <2>0, <2>s, <3>1 DEF PoolInv, BoundsInv, Local
    <3>4. \A u \in Threads : thread'[u].mine <= made
        BY <2>c DEF PoolInv, BoundsInv, Local
    <3> QED BY <1>q, <3>2, <3>3, <3>4 DEF PoolInv, BoundsInv, Local
  <2>4. NoConnectionLost'
    <3>1. InUse' = InUse \cup {k} BY <2>0, <2>s, <2>a DEF InUse, Local
    <3>2. ASSUME NEW j \in Conn, j.pool \in (1 .. made) \ closed
          PROVE  (j \in idle') # (j \in InUse')
      <4>1. (j \in idle) # (j \in InUse) BY <3>2 DEF PoolInv, NoConnectionLost
      <4>2. CASE j = k BY <1>2, <3>1, <4>2
      <4>3. CASE j # k
        <5>1. (j \in idle') = (j \in idle) BY <1>2, <4>3
        <5>2. (j \in InUse') = (j \in InUse) BY <3>1, <4>3
        <5> QED BY <4>1, <5>1, <5>2
      <4> QED BY <4>2, <4>3
    <3>3. \A u, v \in Threads : u # v => Local(u)'.conn \cap Local(v)'.conn = {}
        BY <2>0, <2>s, <2>i DEF PoolInv, NoConnectionLost, Local
    <3> QED BY <1>q, <3>2, <3>3 DEF NoConnectionLost
  <2>5. JobsInv' BY <1>q, <2>0, <2>a, <2>c DEF PoolInv, JobsInv, Local
  <2>6. ServerInv' BY <1>q, <2>0, <2>a, <2>c DEF PoolInv, ServerInv, Local
  <2>7. WorkInv' BY <1>q, <2>0, <2>a, <2>s DEF PoolInv, WorkInv, FreshCall, Local
  <2> QED BY <2>1, <2>2, <2>3, <2>4, <2>5, <2>6, <2>7 DEF PoolInv
<1> QED BY <1>1, <1>2 DEF TakeConnection

LEMMA RunInv ==
    ASSUME PoolInv, NEW t \in Threads, RunStatement(t) PROVE PoolInv'
<1>t. thread[t] \in Thread BY DEF PoolInv, PoolTypeOK
<1>h. Holds(t) /\ Local(t).at = "run" /\ Local(t).job > 0 /\ Local(t).told = "none"
    BY DEF RunStatement, Holds, PoolInv, JobsInv, WorkInv
<1> DEFINE k == ConnOf(t)
<1>k. k \in Conn /\ thread[t].conn = {k} BY <1>h, HandOf DEF Local
<1> HIDE DEF k
<1>q. /\ UNCHANGED <<backend, pool, closed, idle, jobs, made, committed>>
      /\ faults' \in 0 .. MaxPoolFaults
    BY PoolAssumption DEF RunStatement, Fault, NoFault, PoolInv, PoolTypeOK
<1>e. PICK r \in Thread :
        /\ thread' = [thread EXCEPT ![t] = r]
        /\ r.conn = {k} /\ r.job = thread[t].job /\ r.second = thread[t].second
        /\ r.mine = thread[t].mine /\ r.told = "none"
        /\ \/ /\ r.at = "commit" /\ ~r.second /\ r.got = thread[t].got
              /\ open' = [open EXCEPT ![k] = r.job]
              /\ lastId' = lastId \/ lastId' = [lastId EXCEPT ![k] = r.job]
           \/ /\ r.at = "commit" /\ r.second /\ r.got = lastId[k]
              /\ UNCHANGED <<open, lastId>>
           \/ /\ r.at = "undo" /\ r.got = thread[t].got
              /\ UNCHANGED <<open, lastId>>
  <2>k. ConnOf(t) = k BY DEF k
  <2>1. CASE /\ ~Local(t).second
             /\ open' = [open EXCEPT ![k] = Local(t).job]
             /\ lastId' = IF Local(t).kind = "log"
                          THEN [lastId EXCEPT ![k] = Local(t).job] ELSE lastId
             /\ To(t, "commit")
    <3> DEFINE r == [thread[t] EXCEPT !.at = "commit"]
    <3>1. r \in Thread BY <1>t DEF Thread
    <3>2. thread' = [thread EXCEPT ![t] = r] BY <2>1, <1>t DEF To, Thread
    <3>3. /\ r.conn = {k} /\ r.job = thread[t].job /\ r.second = thread[t].second
          /\ r.mine = thread[t].mine /\ r.told = "none" /\ r.at = "commit"
          /\ r.got = thread[t].got
        BY <1>t, <1>k, <1>h DEF Thread, Local
    <3> QED BY <2>1, <3>1, <3>2, <3>3 DEF Local
  <2>2. CASE /\ Local(t).second
             /\ thread' = [thread EXCEPT ![t].at = "commit", ![t].got = lastId[k]]
             /\ UNCHANGED <<open, lastId>>
    <3> DEFINE r == [thread[t] EXCEPT !.at = "commit", !.got = lastId[k]]
    <3>1. r \in Thread
      <4>1. lastId[k] \in 0 .. MaxJobs BY <1>k DEF PoolInv, PoolTypeOK
      <4> QED BY <1>t, <4>1 DEF Thread
    <3>2. thread' = [thread EXCEPT ![t] = r] BY <2>2, <1>t DEF Thread
    <3>3. /\ r.conn = {k} /\ r.job = thread[t].job /\ r.second = thread[t].second
          /\ r.mine = thread[t].mine /\ r.told = "none" /\ r.at = "commit"
          /\ r.got = lastId[k]
        BY <1>t, <1>k, <1>h DEF Thread, Local
    <3> QED BY <2>2, <3>1, <3>2, <3>3 DEF Local
  <2>3. CASE To(t, "undo") /\ UNCHANGED <<open, lastId>>
    <3> DEFINE r == [thread[t] EXCEPT !.at = "undo"]
    <3>1. r \in Thread BY <1>t DEF Thread
    <3>2. thread' = [thread EXCEPT ![t] = r] BY <2>3, <1>t DEF To, Thread
    <3>3. /\ r.conn = {k} /\ r.job = thread[t].job /\ r.second = thread[t].second
          /\ r.mine = thread[t].mine /\ r.told = "none" /\ r.at = "undo"
          /\ r.got = thread[t].got
        BY <1>t, <1>k, <1>h DEF Thread, Local
    <3> QED BY <2>3, <3>1, <3>2, <3>3
  <2> QED BY <2>k, <2>1, <2>2, <2>3 DEF RunStatement
<1>0. \A u \in Threads : thread'[u] = IF u = t THEN r ELSE thread[u]
    BY <1>e DEF PoolInv, PoolTypeOK
<1>c. \A u \in Threads : thread'[u].conn = thread[u].conn /\ thread'[u].job = thread[u].job
                        /\ thread'[u].second = thread[u].second
                        /\ thread'[u].mine = thread[u].mine
    BY <1>0, <1>e, <1>k
<1>x. \A u \in Threads : u # t => k \notin Local(u).conn
    BY <1>k, Exclusive DEF Local
<1>1. PoolTypeOK'
  <2>1. r.job \in 0 .. MaxJobs BY DEF Thread
  <2> QED BY <1>e, <1>q, <1>k, <2>1 DEF PoolInv, PoolTypeOK
<1>2. HandsInv' BY <1>0, <1>e, <1>k DEF PoolInv, HandsInv, Holds, Local
<1>3. BoundsInv' BY <1>q, <1>c DEF PoolInv, BoundsInv, Local
<1>4. NoConnectionLost' BY <1>q, <1>c DEF PoolInv, NoConnectionLost, InUse, Local
<1>5. JobsInv' BY <1>q, <1>0, <1>c, <1>h DEF PoolInv, JobsInv, Local
<1>6. ServerInv'
  <2>1. \A j \in Conn : j # k => open'[j] = open[j] /\ lastId'[j] = lastId[j]
      BY <1>e DEF PoolInv, PoolTypeOK
  <2>2. open'[k] \in {open[k], r.job} BY <1>e, <1>k DEF PoolInv, PoolTypeOK
  <2>3. lastId'[k] = lastId[k] \/ ~r.second BY <1>e, <1>k DEF PoolInv, PoolTypeOK
  <2> QED BY <1>c, <1>e, <1>k, <2>1, <2>2, <2>3 DEF PoolInv, ServerInv, Local
<1>7. WorkInv'
  <2>1. ASSUME NEW u \in Threads, u # t
        PROVE  Local(u)'.at = "commit" /\ ~Local(u)'.second =>
                  \A j \in Local(u)'.conn : open'[j] = Local(u)'.job
    <3>1. thread[u].conn \subseteq Conn BY DEF PoolInv, PoolTypeOK, Thread
    <3>2. \A j \in thread[u].conn : open'[j] = open[j]
        BY <1>e, <1>x, <2>1, <3>1 DEF PoolInv, PoolTypeOK, Local
    <3> QED BY <1>0, <2>1, <3>2 DEF PoolInv, WorkInv, Local
  <2>2. r.at = "commit" /\ ~r.second => open'[k] = r.job
      BY <1>e, <1>k DEF PoolInv, PoolTypeOK
  <2>3. r.got \in {0, r.job}
    <3>1. CASE r.second /\ r.got = lastId[k]
      <4>1. \A u \in Threads : k \in Local(u).conn => Local(u).second
          BY <1>x, <1>e, <3>1 DEF Local
      <4>2. lastId[k] = 0 BY <1>k, <4>1 DEF PoolInv, ServerInv
      <4> QED BY <3>1, <4>2
    <3>2. CASE r.got = thread[t].got BY <1>e, <3>2 DEF PoolInv, WorkInv, Local
    <3> QED BY <1>e, <3>1, <3>2
  <2>4. r.second => r.job \in committed BY <1>e DEF PoolInv, WorkInv, Local
  <2> QED BY <1>0, <1>e, <1>q, <2>1, <2>2, <2>3, <2>4 DEF PoolInv, WorkInv, FreshCall, Local
<1> QED BY <1>1, <1>2, <1>3, <1>4, <1>5, <1>6, <1>7 DEF PoolInv

\* The work a thread commits is its own, or nothing.
LEMMA KeptOwn ==
    ASSUME PoolInv, NEW t \in Threads, Holds(t)
    PROVE  /\ Kept(ConnOf(t)) \subseteq {Local(t).job}
           /\ Kept(ConnOf(t)) \subseteq 1 .. jobs
<1>1. ConnOf(t) \in Conn /\ Local(t).conn = {ConnOf(t)} BY HandOf
<1>2. open[ConnOf(t)] # 0 => open[ConnOf(t)] = Local(t).job
  <2>1. \A u \in Threads : u # t => ConnOf(t) \notin Local(u).conn
      BY <1>1, Exclusive
  <2> QED BY <1>1, <2>1 DEF PoolInv, ServerInv
<1>3. Local(t).at # "ready" => Local(t).job > 0 BY DEF PoolInv, JobsInv
<1>4. Local(t).job \in 1 .. jobs
    BY <1>3, PoolAssumption DEF PoolInv, PoolTypeOK, JobsInv, Thread, Local, Holds
<1> QED BY <1>2, <1>4 DEF Kept

\* A thread that has a connection goes on with it, and its work may be ended
\* there, committed or not.
LEMMA EndWorkInv ==
    ASSUME PoolInv, NEW t \in Threads, Holds(t), NEW r \in Thread, NEW k, k = ConnOf(t),
           thread' = [thread EXCEPT ![t] = r],
           r.conn = Local(t).conn, r.job = Local(t).job, r.second = Local(t).second,
           r.mine = Local(t).mine, r.got = Local(t).got, r.told = "none",
           r.at \in {"undo", "release"},
           r.at = "release" /\ r.good => r.job \in committed',
           UNCHANGED <<backend, pool, closed, idle, jobs, made, lastId>>,
           faults' \in 0 .. MaxPoolFaults,
           committed' \in {committed, committed \cup Kept(k)},
           open' \in {open, [open EXCEPT ![k] = 0]}
    PROVE  PoolInv'
<1>k. k \in Conn /\ thread[t].conn = {k} BY HandOf DEF Local
<1>j. Local(t).job > 0 BY DEF PoolInv, JobsInv, Holds
<1>0. \A u \in Threads : thread'[u] = IF u = t THEN r ELSE thread[u]
    BY DEF PoolInv, PoolTypeOK
<1>c. \A u \in Threads : thread'[u].conn = thread[u].conn /\ thread'[u].job = thread[u].job
                        /\ thread'[u].second = thread[u].second
                        /\ thread'[u].mine = thread[u].mine
    BY <1>0 DEF Local
<1>x. \A u \in Threads : u # t => k \notin Local(u).conn
    BY <1>k, Exclusive DEF Local
<1>w. committed \subseteq committed' /\ committed' \subseteq committed \cup {Local(t).job}
      /\ committed' \subseteq 1 .. jobs
    BY KeptOwn DEF PoolInv, JobsInv
<1>o. \A j \in Conn : open'[j] \in {open[j], 0} /\ (j # k => open'[j] = open[j])
    BY DEF PoolInv, PoolTypeOK
<1>1. PoolTypeOK'
  <2>1. committed' \subseteq 1 .. MaxJobs
      BY <1>w, PoolAssumption DEF PoolInv, PoolTypeOK
  <2>2. open' \in [Conn -> 0 .. MaxJobs]
      BY <1>k, PoolAssumption DEF PoolInv, PoolTypeOK
  <2> QED BY <2>1, <2>2 DEF PoolInv, PoolTypeOK
<1>2. HandsInv' BY <1>0, <1>k DEF PoolInv, HandsInv, Holds, Local
<1>3. BoundsInv' BY <1>c DEF PoolInv, BoundsInv, Local
<1>4. NoConnectionLost' BY <1>c DEF PoolInv, NoConnectionLost, InUse, Local
<1>5. JobsInv' BY <1>0, <1>c, <1>j, <1>w DEF PoolInv, JobsInv, Local
<1>6. ServerInv' BY <1>c, <1>o DEF PoolInv, ServerInv, Local
<1>7. WorkInv'
  <2>1. ASSUME NEW u \in Threads, u # t
        PROVE  Local(u)'.at = "commit" /\ ~Local(u)'.second =>
                  \A j \in Local(u)'.conn : open'[j] = Local(u)'.job
    <3>1. thread[u].conn \subseteq Conn BY DEF PoolInv, PoolTypeOK, Thread
    <3>2. \A j \in thread[u].conn : open'[j] = open[j] BY <1>o, <1>x, <2>1, <3>1 DEF Local
    <3> QED BY <1>0, <2>1, <3>2 DEF PoolInv, WorkInv, Local
  <2>2. \A u \in Threads : u # t => Local(u).job # Local(t).job
      BY <1>j DEF PoolInv, JobsInv
  <2>3. \A u \in Threads : u # t => (Local(u).job \in committed' <=> Local(u).job \in committed)
      BY <1>w, <2>2
  <2>4. r.second => r.job \in committed' BY <1>w DEF PoolInv, WorkInv
  <2>5. r.got \in {0, r.job} BY DEF PoolInv, WorkInv
  <2> QED BY <1>0, <2>1, <2>3, <2>4, <2>5 DEF PoolInv, WorkInv, FreshCall, Local
<1> QED BY <1>1, <1>2, <1>3, <1>4, <1>5, <1>6, <1>7 DEF PoolInv

LEMMA CommitInv ==
    ASSUME PoolInv, NEW t \in Threads, CommitWork(t) PROVE PoolInv'
<1>t. thread[t] \in Thread BY DEF PoolInv, PoolTypeOK
<1>h. Holds(t) /\ Local(t).at = "commit" /\ Local(t).told = "none" /\ Local(t).job > 0
    BY DEF CommitWork, Holds, PoolInv, WorkInv, JobsInv
<1>k. ConnOf(t) \in Conn /\ Local(t).conn = {ConnOf(t)} BY <1>h, HandOf
<1>q. /\ UNCHANGED <<backend, pool, closed, idle, jobs, made, lastId>>
      /\ faults' \in 0 .. MaxPoolFaults
    BY PoolAssumption DEF CommitWork, Fault, NoFault, PoolInv, PoolTypeOK
<1>e. committed' \in {committed, committed \cup Kept(ConnOf(t))}
      /\ open' \in {open, [open EXCEPT ![ConnOf(t)] = 0]}
    BY DEF CommitWork
<1>1. CASE /\ thread' = [thread EXCEPT ![t].at = "release", ![t].good = TRUE]
           /\ committed' = committed \cup Kept(ConnOf(t))
  <2> DEFINE r == [thread[t] EXCEPT !.at = "release", !.good = TRUE]
  <2>1. r \in Thread BY <1>t DEF Thread
  <2>2. thread' = [thread EXCEPT ![t] = r] BY <1>1, <1>t DEF Thread
  <2>3. /\ r.conn = Local(t).conn /\ r.job = Local(t).job /\ r.second = Local(t).second
        /\ r.mine = Local(t).mine /\ r.got = Local(t).got /\ r.told = "none"
        /\ r.at = "release"
      BY <1>t, <1>h DEF Thread, Local
  <2>4. r.job \in committed'
    <3>1. CASE Local(t).second BY <1>1, <2>3, <3>1 DEF PoolInv, WorkInv
    <3>2. CASE ~Local(t).second
      <4>1. open[ConnOf(t)] = Local(t).job BY <1>h, <1>k, <3>2 DEF PoolInv, WorkInv
      <4>2. Kept(ConnOf(t)) = {Local(t).job} BY <1>h, <4>1 DEF Kept
      <4> QED BY <1>1, <2>3, <4>2
    <3> QED BY <3>1, <3>2
  <2> HIDE DEF r
  <2> QED BY <1>h, <1>q, <1>e, <2>1, <2>2, <2>3, <2>4, EndWorkInv
<1>2. CASE To(t, "undo")
  <2> DEFINE r == [thread[t] EXCEPT !.at = "undo"]
  <2>1. r \in Thread BY <1>t DEF Thread
  <2>2. thread' = [thread EXCEPT ![t] = r] BY <1>2, <1>t DEF Thread, To
  <2>3. /\ r.conn = Local(t).conn /\ r.job = Local(t).job /\ r.second = Local(t).second
        /\ r.mine = Local(t).mine /\ r.got = Local(t).got /\ r.told = "none"
        /\ r.at = "undo"
      BY <1>t, <1>h DEF Thread, Local
  <2> HIDE DEF r
  <2> QED BY <1>h, <1>q, <1>e, <2>1, <2>2, <2>3, EndWorkInv
<1> QED BY <1>1, <1>2 DEF CommitWork

LEMMA UndoInv ==
    ASSUME PoolInv, NEW t \in Threads, UndoWork(t) PROVE PoolInv'
<1>t. thread[t] \in Thread BY DEF PoolInv, PoolTypeOK
<1>h. Holds(t) /\ Local(t).told = "none"
    BY DEF UndoWork, Holds, PoolInv, WorkInv
<1>q. /\ UNCHANGED <<backend, pool, closed, idle, jobs, made, lastId, committed>>
      /\ faults' \in 0 .. MaxPoolFaults
      /\ open' \in {open, [open EXCEPT ![ConnOf(t)] = 0]}
    BY PoolAssumption DEF UndoWork, Fault, NoFault, PoolInv, PoolTypeOK
<1> DEFINE r == [thread[t] EXCEPT !.at = "release", !.good = FALSE]
<1>1. r \in Thread BY <1>t DEF Thread
<1>2. thread' = [thread EXCEPT ![t] = r] BY <1>t DEF Thread, UndoWork
<1>3. /\ r.conn = Local(t).conn /\ r.job = Local(t).job /\ r.second = Local(t).second
      /\ r.mine = Local(t).mine /\ r.got = Local(t).got /\ r.told = "none"
      /\ r.at = "release" /\ ~r.good
    BY <1>t, <1>h DEF Thread, Local
<1> HIDE DEF r
<1> QED BY <1>h, <1>q, <1>1, <1>2, <1>3, EndWorkInv

LEMMA ReleaseInv ==
    ASSUME PoolInv, NEW t \in Threads, ReleaseConnection(t) PROVE PoolInv'
<1>t. thread[t] \in Thread BY DEF PoolInv, PoolTypeOK
<1>h. Holds(t) /\ Local(t).at = "release" /\ Local(t).told = "none"
    BY DEF ReleaseConnection, Holds, PoolInv, WorkInv
<1> DEFINE k == ConnOf(t)
<1>k. k \in Conn /\ thread[t].conn = {k} BY <1>h, HandOf DEF Local
<1>q. /\ UNCHANGED <<backend, pool, closed, jobs, made, committed, faults>>
      /\ open' = [open EXCEPT ![k] = 0] /\ lastId' = [lastId EXCEPT ![k] = 0]
      /\ idle' = idle \cup {j \in {k} : j.pool \notin closed}
    BY <1>k DEF ReleaseConnection, SessionAfter, GiveBack, Local
<1> HIDE DEF k
<1>e. PICK r \in Thread :
        /\ thread' = [thread EXCEPT ![t] = r]
        /\ r.conn = {} /\ r.job = thread[t].job
        /\ r.mine = thread[t].mine /\ r.got = thread[t].got
        /\ \/ r.at = "check" /\ r.second /\ r.told = "none" /\ thread[t].good
           \/ r.at = "ready" /\ r.second = thread[t].second /\ r.told = "ok"
                /\ thread[t].good
           \/ r.at = "ready" /\ r.second = thread[t].second /\ r.told = "error"
  <2> DEFINE next == [thread[t] EXCEPT !.conn = {}]
             again == next.good /\ next.kind = "log" /\ ~next.second
             r == IF again THEN [next EXCEPT !.at = "check", !.second = TRUE]
                  ELSE [next EXCEPT !.at = "ready",
                                    !.told = IF next.good THEN "ok" ELSE "error"]
  <2>1. next \in Thread BY <1>t DEF Thread
  <2>2. r \in Thread BY <2>1 DEF Thread
  <2>3. thread' = [thread EXCEPT ![t] = r] BY DEF ReleaseConnection, Local
  <2>4. /\ next.conn = {} /\ next.job = thread[t].job /\ next.mine = thread[t].mine
        /\ next.got = thread[t].got /\ next.second = thread[t].second
        /\ next.good = thread[t].good /\ next.told = "none"
      BY <1>t, <1>h DEF Thread, Local
  <2>5. CASE again
    <3>1. /\ r.conn = next.conn /\ r.job = next.job /\ r.mine = next.mine
          /\ r.got = next.got /\ r.at = "check" /\ r.second /\ r.told = next.told
        BY <2>1, <2>5 DEF Thread
    <3> QED BY <2>2, <2>3, <2>4, <2>5, <3>1
  <2>6. CASE ~again
    <3>1. /\ r.conn = next.conn /\ r.job = next.job /\ r.mine = next.mine
          /\ r.got = next.got /\ r.at = "ready" /\ r.second = next.second
          /\ r.told = IF next.good THEN "ok" ELSE "error"
        BY <2>1, <2>6 DEF Thread
    <3> QED BY <2>2, <2>3, <2>4, <3>1
  <2> QED BY <2>5, <2>6
<1>0. \A u \in Threads : thread'[u] = IF u = t THEN r ELSE thread[u]
    BY <1>e DEF PoolInv, PoolTypeOK
<1>c. \A u \in Threads : thread'[u].job = thread[u].job /\ thread'[u].mine = thread[u].mine
    BY <1>0, <1>e
<1>x. \A u \in Threads : u # t => k \notin Local(u).conn
    BY <1>k, Exclusive DEF Local
<1>o. /\ open'[k] = 0 /\ lastId'[k] = 0
      /\ \A j \in Conn : j # k => open'[j] = open[j] /\ lastId'[j] = lastId[j]
    BY <1>q, <1>k DEF PoolInv, PoolTypeOK
<1>1. PoolTypeOK'
  <2>1. 0 \in 0 .. MaxJobs BY PoolAssumption
  <2> QED BY <1>e, <1>q, <1>k, <2>1 DEF PoolInv, PoolTypeOK
<1>2. HandsInv' BY <1>0, <1>e DEF PoolInv, HandsInv, Holds, Local
<1>3. BoundsInv'
  <2>1. k.pool \in 1 .. made BY <1>k, PoolAssumption DEF PoolInv, BoundsInv, Local, Conn,
                                                       PoolTypeOK
  <2>2. \A j \in idle' : j.pool \in (1 .. made) \ closed
      BY <1>q, <2>1 DEF PoolInv, BoundsInv
  <2>3. \A u \in Threads : \A j \in thread'[u].conn : j.pool <= made
      BY <1>0, <1>e DEF PoolInv, BoundsInv, Local
  <2> QED BY <1>q, <1>c, <2>2, <2>3 DEF PoolInv, BoundsInv, Local
<1>4. NoConnectionLost'
  <2>1. InUse' = InUse \ {k}
    <3>1. InUse' = UNION {thread'[u].conn : u \in Threads} BY DEF InUse, Local
    <3>2. InUse = UNION {thread[u].conn : u \in Threads} BY DEF InUse, Local
    <3>3. \A u \in Threads : thread'[u].conn = thread[u].conn \ {k}
        BY <1>0, <1>e, <1>k, <1>x DEF Local
    <3> QED BY <3>1, <3>2, <3>3
  <2>2. ASSUME NEW j \in Conn, j.pool \in (1 .. made) \ closed
        PROVE  (j \in idle') # (j \in InUse')
    <3>1. (j \in idle) # (j \in InUse) BY <2>2 DEF PoolInv, NoConnectionLost
    <3>2. CASE j = k BY <1>q, <2>1, <2>2, <3>2
    <3>3. CASE j # k
      <4>1. (j \in idle') = (j \in idle) BY <1>q, <3>3
      <4>2. (j \in InUse') = (j \in InUse) BY <2>1, <3>3
      <4> QED BY <3>1, <4>1, <4>2
    <3> QED BY <3>2, <3>3
  <2>3. \A u, v \in Threads : u # v => Local(u)'.conn \cap Local(v)'.conn = {}
      BY <1>0, <1>e DEF PoolInv, NoConnectionLost, Local
  <2> QED BY <1>q, <2>2, <2>3 DEF NoConnectionLost
<1>5. JobsInv' BY <1>q, <1>0, <1>c, <1>h DEF PoolInv, JobsInv, Local
<1>6. ServerInv'
  <2>1. \A u \in Threads : thread'[u].conn \ {k} = thread[u].conn \ {k}
                          /\ (u # t => thread'[u].second = thread[u].second)
      BY <1>0, <1>e, <1>k
  <2>2. ASSUME NEW j \in Conn, j # k, open[j] # 0
        PROVE  \E u \in Threads : j \in thread'[u].conn /\ thread'[u].job = open[j]
    <3>1. PICK u \in Threads : j \in Local(u).conn /\ Local(u).job = open[j]
        BY <2>2 DEF PoolInv, ServerInv
    <3>2. u # t BY <1>k, <2>2, <3>1 DEF Local
    <3> QED BY <1>0, <3>1, <3>2 DEF Local
  <2>3. ASSUME NEW j \in Conn, j # k, lastId[j] # 0
        PROVE  \E u \in Threads : j \in thread'[u].conn /\ ~thread'[u].second
    <3>1. PICK u \in Threads : j \in Local(u).conn /\ ~Local(u).second
        BY <2>3 DEF PoolInv, ServerInv
    <3>2. u # t BY <1>k, <2>3, <3>1 DEF Local
    <3> QED BY <1>0, <3>1, <3>2 DEF Local
  <2> QED BY <1>o, <2>2, <2>3 DEF ServerInv, Local
<1>7. WorkInv'
  <2>1. ASSUME NEW u \in Threads, u # t
        PROVE  Local(u)'.at = "commit" /\ ~Local(u)'.second =>
                  \A j \in Local(u)'.conn : open'[j] = Local(u)'.job
    <3>1. thread[u].conn \subseteq Conn BY DEF PoolInv, PoolTypeOK, Thread
    <3>2. \A j \in thread[u].conn : open'[j] = open[j] BY <1>o, <1>x, <2>1, <3>1 DEF Local
    <3> QED BY <1>0, <2>1, <3>2 DEF PoolInv, WorkInv, Local
  <2>2. thread[t].good => r.job \in committed BY <1>e, <1>h DEF PoolInv, WorkInv, Local
  <2>3. thread[t].second => r.job \in committed BY <1>e DEF PoolInv, WorkInv, Local
  <2>4. r.got \in {0, r.job} BY <1>e DEF PoolInv, WorkInv, Local
  <2> QED BY <1>0, <1>e, <1>q, <2>1, <2>2, <2>3, <2>4 DEF PoolInv, WorkInv, FreshCall, Local
<1> QED BY <1>1, <1>2, <1>3, <1>4, <1>5, <1>6, <1>7 DEF PoolInv

LEMMA CloseInv == ASSUME PoolInv, ClosePool PROVE PoolInv'
<1>q. /\ UNCHANGED <<backend, thread, jobs, made, open, lastId, committed, faults>>
      /\ pool' = 0 /\ closed' \in {closed, closed \cup {pool}}
      /\ idle' = {k \in idle : k.pool \notin closed'}
      /\ pool # 0
    BY DEF ClosePool, server, NoPool
<1>p. pool \in 1 .. made /\ made \in 0 .. MaxPools /\ MaxPools \in Nat
    BY <1>q, PoolAssumption DEF PoolInv, PoolTypeOK, BoundsInv
<1>c. closed' \subseteq 1 .. made /\ closed \subseteq closed'
    BY <1>q, <1>p DEF PoolInv, BoundsInv
<1>1. PoolTypeOK'
  <2>1. pool' \in 0 .. MaxPools /\ closed' \subseteq 1 .. MaxPools BY <1>q, <1>p, <1>c
  <2> QED BY <1>q, <2>1 DEF PoolInv, PoolTypeOK
<1>2. HandsInv' BY <1>q DEF PoolInv, HandsInv, Holds, Local
<1>3. BoundsInv' BY <1>q, <1>p, <1>c DEF PoolInv, BoundsInv, Local
<1>4. NoConnectionLost' BY <1>q, <1>c DEF PoolInv, NoConnectionLost, InUse, Local
<1>5. JobsInv' BY <1>q DEF PoolInv, JobsInv, Local
<1>6. ServerInv' BY <1>q DEF PoolInv, ServerInv, Local
<1>7. WorkInv' BY <1>q DEF PoolInv, WorkInv, FreshCall, Local
<1> QED BY <1>1, <1>2, <1>3, <1>4, <1>5, <1>6, <1>7 DEF PoolInv

LEMMA StutterInv == ASSUME PoolInv, UNCHANGED poolVars PROVE PoolInv'
<1>q. UNCHANGED <<backend, pool, closed, idle, thread, jobs, made, open, lastId, committed,
                  faults>>
    BY DEF poolVars
<1> QED BY <1>q DEF PoolInv, PoolTypeOK, HandsInv, BoundsInv, NoConnectionLost, JobsInv,
                    ServerInv, WorkInv, Holds, FreshCall, InUse, Local

LEMMA StepInv == PoolInv /\ [PoolNext]_poolVars => PoolInv'
BY StartInv, CheckInv, CreateInv, ReturnInv, TakeInv, RunInv, CommitInv, UndoInv, ReleaseInv,
   CloseInv, StutterInv DEF PoolNext, ThreadStep

LEMMA PoolSpecInv == PoolSpec => []PoolInv
BY InitInv, StepInv, PTL DEF PoolSpec

-----------------------------------------------------------------------------
(* What follows.                                                           *)

\* Every variable keeps its type.
THEOREM PoolTypeCorrect == PoolSpec => []PoolTypeOK
<1>1. PoolInv => PoolTypeOK BY DEF PoolInv
<1> QED BY <1>1, PoolSpecInv, PTL

\* Each connection of a pool that is not closed is idle or in one thread's
\* hands, however statements, commits, rollbacks and closes of other threads
\* come between.
THEOREM PoolConserved == PoolSpec => []NoConnectionLost
<1>1. PoolInv => NoConnectionLost BY DEF PoolInv
<1> QED BY <1>1, PoolSpecInv, PTL

\* A call that returned is committed; one that found no free connection in its
\* first statement is not.
THEOREM ResultCorrect == PoolSpec => []ResultIsTrue
<1>1. PoolInv => ResultIsTrue BY DEF PoolInv, WorkInv, FreshCall, ResultIsTrue
<1> QED BY <1>1, PoolSpecInv, PTL

\* The id of a log that create_sync_log returns is never that of another call.
THEOREM LogIdCorrect == PoolSpec => []NoForeignLogId
<1>1. PoolInv => NoForeignLogId BY DEF PoolInv, WorkInv, NoForeignLogId
<1> QED BY <1>1, PoolSpecInv, PTL
=============================================================================
