---------------------------- MODULE GuardedSync ----------------------------
(***************************************************************************)
(* How services/sync_engine_enhanced.py guards its runs: the lock of a     *)
(* configuration (DistributedLock), the limit on runs in progress          *)
(* (ConcurrencyLimiter), and the retry decorator with its dead-letter      *)
(* queue (services/retry_handler.py) around all of it.  What a run does to *)
(* the rows is that of SyncEngine and is left out here; what is kept is    *)
(* where it can fail, and its sync_logs row.                               *)
(*                                                                         *)
(* A step is what a coroutine does between two awaits.  The locks and      *)
(* semaphores of asyncio are modelled by how they serve their waiters.     *)
(***************************************************************************)
EXTENDS Integers, Sequences, FiniteSets

CONSTANTS
    Tasks,          \* coroutines that call the engine
    Configs,        \* sync configurations
    MaxConcurrent,  \* max_concurrent of the limiter
    MaxAttempts,    \* max_attempts of the retry decorator
    MaxDead,        \* max_size of the dead-letter queue
    MaxTimeouts     \* bound on lock requests of a configuration that time out
                    \* while the lock is held

ASSUME GuardAssumption ==
    /\ IsFiniteSet(Tasks)
    /\ {MaxConcurrent, MaxAttempts, MaxDead} \subseteq Nat \ {0}
    /\ MaxTimeouts \in Nat

VARIABLES
    pc,         \* pc[t]: where the coroutine is suspended
    call,       \* call[t]: what it was called for, and its local variables
    held,       \* held[c]: c's asyncio.Lock is locked
    waiters,    \* waiters[c]: the queue of that lock
    woken,      \* woken[c]: the head of the queue has been told to go on
    permits,    \* value of the limiter's semaphore
    active,     \* _active_count
    log,        \* log[t]: status of the sync_logs row last inserted for t
    result,     \* result[t]: how the call of t ended
    dead,       \* the dead-letter queue
    stolen      \* history: stolen[c] requests released a lock others held

vars == <<pc, call, held, waiters, woken, permits, active, log, result, dead,
          stolen>>
lock == <<held, waiters, woken>>
limiter == <<permits, active>>

-----------------------------------------------------------------------------
Directions == {"to_mysql", "from_mysql"}
Pcs == {"idle", "start", "lock", "permit", "api"}
Statuses == {"none", "running", "success", "partial", "failed"}
Results == {"none", "ok", "failed", "raised"}

\* loaded: _config is set, known: log_id holds the id of the run's own log.
Call == [config : Configs, dir : Directions, attempt : 0 .. MaxAttempts - 1,
         loaded : BOOLEAN, known : BOOLEAN]

NewCall(c, d) ==
    [config |-> c, dir |-> d, attempt |-> 0, loaded |-> FALSE, known |-> FALSE]

\* What the handler of an exception looks at: is its message that of an error
\* worth a retry, and is it one of high severity ("mysql", "database", ...).
Errors == [retryable : BOOLEAN, severe : BOOLEAN]

\* The runs that are in the section that c's lock guards.
Inside(c) ==
    {t \in Tasks : /\ pc[t] \in {"permit", "api"}
                   /\ call[t].config = c
                   /\ call[t].dir = "to_mysql"}

Running == {t \in Tasks : pc[t] = "api"}

GuardTypeOK ==
    /\ pc \in [Tasks -> Pcs]
    /\ call \in [Tasks -> Call]
    /\ held \in [Configs -> BOOLEAN]
    /\ waiters \in [Configs -> Seq(Tasks)]
    /\ woken \in [Configs -> BOOLEAN]
    /\ permits \in Nat
    /\ active \in Int
    /\ log \in [Tasks -> Statuses]
    /\ result \in [Tasks -> Results]
    /\ dead \in Seq(Tasks)
    /\ Len(dead) <= MaxDead
    /\ stolen \in [Configs -> Nat]

Init ==
    /\ pc = [t \in Tasks |-> "idle"]
    /\ call \in [Tasks -> {NewCall(c, "to_mysql") : c \in Configs}]
    /\ held = [c \in Configs |-> FALSE]
    /\ waiters = [c \in Configs |-> <<>>]
    /\ woken = [c \in Configs |-> FALSE]
    /\ permits = MaxConcurrent
    /\ active = 0
    /\ log = [t \in Tasks |-> "none"]
    /\ result = [t \in Tasks |-> "none"]
    /\ dead = <<>>
    /\ stolen = [c \in Configs |-> 0]

-----------------------------------------------------------------------------
(* The lock.                                                               *)

\* The sequence s without its i-th element.
Dropped(s, i) == SubSeq(s, 1, i - 1) \o SubSeq(s, i + 1, Len(s))

\* asyncio.Lock.acquire: at once if it is free and nobody waits for it.
Free(c) == ~held[c] /\ waiters[c] = <<>>

Wait(t, c) ==
    /\ waiters' = [waiters EXCEPT ![c] = Append(@, t)]
    /\ UNCHANGED <<held, woken>>

\* asyncio.Lock.release and what a cancelled waiter does of it: the lock is
\* free and the first of those still waiting is woken.
Freed(c, rest) ==
    /\ held' = [held EXCEPT ![c] = FALSE]
    /\ waiters' = [waiters EXCEPT ![c] = rest]
    /\ woken' = [woken EXCEPT ![c] = rest # <<>>]

\* Mutant of LeaveLock: runs that never asked for the lock release it too.
LeaveLockAny(t) ==
    LET c == call[t].config
    IN  IF held[c] THEN Freed(c, waiters[c]) ELSE UNCHANGED lock

\* Mutant of LeaveLock: there is no finally clause.
LeaveLockKept(t) == t \in Tasks /\ UNCHANGED lock

\* The finally clause at the end of the section: whoever holds the lock by now,
\* it is released; if nobody does, nothing happens.
LeaveLock(t) ==
    LET c == call[t].config
    IN  IF call[t].dir = "to_mysql" /\ held[c]
        THEN Freed(c, waiters[c])
        ELSE UNCHANGED lock

-----------------------------------------------------------------------------
(* How a call ends.                                                        *)

\* Of the coroutine's variables only known is kept, to say what its log tells.
Gone(t, r, known) ==
    /\ pc' = [pc EXCEPT ![t] = "idle"]
    /\ result' = [result EXCEPT ![t] = r]
    /\ call' = [call EXCEPT ![t] = [NewCall(@.config, "to_mysql") EXCEPT !.known = known]]

Return(t, r, known) == Gone(t, r, known) /\ UNCHANGED dead

\* Mutant of Enqueued: the queue is not cut.
EnqueuedAll(t) == Append(dead, t)

\* DeadLetterQueue.add keeps the latest.
Enqueued(t) ==
    LET all == Append(dead, t)
    IN  IF Len(all) > MaxDead THEN Tail(all) ELSE all

Again(t, e) == e.retryable /\ call[t].attempt < MaxAttempts - 1

\* An exception leaves the engine's method.  sync_from_mysql has no decorator.
\* record_error raises a NameError for an error of high severity, before the
\* error is put into the dead-letter queue and before it is retried.
Escape(t, e, known) ==
    \/ /\ call[t].dir = "from_mysql" \/ e.severe
       /\ Return(t, "raised", known)
    \/ /\ call[t].dir = "to_mysql" /\ ~e.severe /\ Again(t, e)
       /\ pc' = [pc EXCEPT ![t] = "start"]
       /\ call' = [call EXCEPT ![t].known = FALSE, ![t].attempt = @ + 1]
       /\ UNCHANGED <<result, dead>>
    \/ /\ call[t].dir = "to_mysql" /\ ~e.severe /\ ~Again(t, e)
       /\ Gone(t, "raised", known)
       /\ dead' = Enqueued(t)

\* Mutant of Settle: the log is left as it is.
SettleKept(t, mid, known) ==
    /\ log' = [log EXCEPT ![t] = mid]
    /\ \/ Return(t, "failed", known)
       \/ \E e \in Errors : Escape(t, e, known)

\* The except clauses for a run whose log is at status mid: the log is marked
\* failed and the result is a failed one, or this statement fails as well.
\* known: log_id is the id of the run's own log.
Settle(t, mid, known) ==
    \/ /\ log' = [log EXCEPT ![t] = IF known THEN "failed" ELSE mid]
       /\ Return(t, "failed", known)
    \/ /\ log' = [log EXCEPT ![t] = mid]
       /\ \E e \in Errors : Escape(t, e, known)

-----------------------------------------------------------------------------
(* A call.                                                                 *)

Begin(t, c, d) ==
    /\ pc[t] = "idle"
    /\ pc' = [pc EXCEPT ![t] = "start"]
    /\ call' = [call EXCEPT ![t] = NewCall(c, d)]
    /\ log' = [log EXCEPT ![t] = "none"]
    /\ result' = [result EXCEPT ![t] = "none"]
    /\ UNCHANGED <<lock, limiter, dead, stolen>>

\* _ensure_config, outside of the try: a failure leaves the method.
ConfigFails(t) ==
    /\ pc[t] = "start"
    /\ ~call[t].loaded
    /\ \E e \in Errors : Escape(t, e, FALSE)
    /\ UNCHANGED <<lock, limiter, log, stolen>>

\* The first attempt or, when the delay is over, the next one: a run towards the
\* table asks for the lock, one towards the sheet goes on to the limiter.
Start(t) ==
    /\ pc[t] = "start"
    /\ call' = [call EXCEPT ![t].loaded = TRUE]
    /\ LET c == call[t].config
       IN  \/ /\ call[t].dir = "from_mysql"
              /\ pc' = [pc EXCEPT ![t] = "permit"]
              /\ UNCHANGED lock
           \/ /\ call[t].dir = "to_mysql"
              /\ Free(c)
              /\ held' = [held EXCEPT ![c] = TRUE]
              /\ pc' = [pc EXCEPT ![t] = "permit"]
              /\ UNCHANGED <<waiters, woken>>
           \/ /\ call[t].dir = "to_mysql"
              /\ ~Free(c)
              /\ Wait(t, c)
              /\ pc' = [pc EXCEPT ![t] = "lock"]
    /\ UNCHANGED <<limiter, log, result, dead, stolen>>

\* The head of the queue, woken, takes the lock.
TakeLock(t) ==
    LET c == call[t].config
    IN  /\ pc[t] = "lock"
        /\ woken[c]
        /\ t = Head(waiters[c])
        /\ held' = [held EXCEPT ![c] = TRUE]
        /\ waiters' = [waiters EXCEPT ![c] = Tail(@)]
        /\ woken' = [woken EXCEPT ![c] = FALSE]
        /\ pc' = [pc EXCEPT ![t] = "permit"]
        /\ UNCHANGED <<call, limiter, log, result, dead, stolen>>

\* Mutant of StillWaiting: the request that gave up stays in the queue.
AllWaiting(c, i) == waiters[c]

StillWaiting(c, i) == Dropped(waiters[c], i)

\* wait_for gives up after 30 seconds.  The finally clause of DistributedLock
\* releases the lock if it is locked, although it is not this request's; if it is
\* not, the cancelled waiter wakes the first of the others.
TimeOut(t) ==
    LET c == call[t].config
    IN  /\ pc[t] = "lock"
        /\ held[c] => stolen[c] < MaxTimeouts
        /\ \E i \in DOMAIN waiters[c] :
              waiters[c][i] = t /\ Freed(c, StillWaiting(c, i))
        /\ stolen' = IF held[c] THEN [stolen EXCEPT ![c] = @ + 1] ELSE stolen
        /\ Return(t, "failed", FALSE)
        /\ UNCHANGED <<limiter, log>>

\* The limiter lets the run in.  Up to the call of the API, where it suspends,
\* it writes its log, creates the table or reads it; all of this may fail, and a
\* table without rows ends a run towards the sheet.
Enter(t) ==
    /\ pc[t] = "permit"
    /\ permits > 0
    /\ \/ \E known \in BOOLEAN :
             /\ permits' = permits - 1
             /\ active' = active + 1
             /\ log' = [log EXCEPT ![t] = "running"]
             /\ call' = [call EXCEPT ![t].known = known]
             /\ pc' = [pc EXCEPT ![t] = "api"]
             /\ UNCHANGED <<lock, result, dead>>
       \/ /\ log' \in {log, [log EXCEPT ![t] = "running"]}
          /\ Return(t, "failed", FALSE)
          /\ LeaveLock(t)
          /\ UNCHANGED limiter
       \/ /\ \E known \in BOOLEAN : Settle(t, "running", known)
          /\ LeaveLock(t)
          /\ UNCHANGED limiter
       \/ \E known \in BOOLEAN :
             /\ call[t].dir = "from_mysql"
             /\ log' = [log EXCEPT ![t] = IF known THEN "success" ELSE "running"]
             /\ Return(t, "ok", known)
             /\ UNCHANGED <<lock, limiter>>
    /\ UNCHANGED stolen

\* Mutant of LeaveLimiter: the semaphore is not released.
LeaveLimiterHeld ==
    /\ active' = active - 1
    /\ UNCHANGED permits

LeaveLimiter ==
    /\ active' = active - 1
    /\ permits' = permits + 1

\* What the run's log may say when an exception ends it: a run that brought all
\* of its rows over has completed its log before it calls record_sync, which
\* MetricsCollector does not have.
Mids(t) ==
    {log[t]} \cup
    {st \in {"success", "partial"} :
        call[t].known /\ (st = "partial" => call[t].dir = "to_mysql")}

\* The API has answered.  An empty sheet ends the run well; every other way
\* through the section raises an exception at its end, if not before.
Answer(t) ==
    /\ pc[t] = "api"
    /\ LeaveLimiter
    /\ LeaveLock(t)
    /\ \/ /\ call[t].dir = "to_mysql"
          /\ log' = [log EXCEPT ![t] = IF call[t].known THEN "success" ELSE @]
          /\ Return(t, "ok", call[t].known)
       \/ \E mid \in Mids(t) : Settle(t, mid, call[t].known)
    /\ UNCHANGED stolen

\* POST /dead-letter-queue/{index}/retry takes an item out of the queue, and that
\* is all it does.
TakeDead(i) ==
    /\ i \in DOMAIN dead
    /\ dead' = Dropped(dead, i)
    /\ UNCHANGED <<pc, call, lock, limiter, log, result, stolen>>

-----------------------------------------------------------------------------
Step(t) ==
    \/ \E c \in Configs, d \in Directions : Begin(t, c, d)
    \/ ConfigFails(t) \/ Start(t) \/ TakeLock(t) \/ TimeOut(t) \/ Enter(t)
    \/ Answer(t)

Next ==
    \/ \E t \in Tasks : Step(t)
    \/ \E i \in 1 .. MaxDead : TakeDead(i)

Spec == Init /\ [][Next]_vars

\* The loop runs what is ready, the client's timeouts answer every request, and
\* the semaphore serves its waiters in their order, so a run that waits for a
\* permit gets one although others keep asking.  Nothing has to time out.
Fairness ==
    \A t \in Tasks :
        /\ WF_vars(Start(t) \/ ConfigFails(t))
        /\ WF_vars(TakeLock(t))
        /\ SF_vars(Enter(t))
        /\ WF_vars(Answer(t))

FairSpec == Spec /\ Fairness

-----------------------------------------------------------------------------
(* What the guards guarantee.                                              *)

\* At most one run per configuration and one more for each request that timed
\* out and released a lock it did not hold; with no such timeout, the section is
\* exclusive.  A run that leaves after its lock was released under it must
\* not let in more than one in turn.
OverlapBounded == \A c \in Configs : Cardinality(Inside(c)) <= 1 + stolen[c]

\* The limiter's two counters agree with each other and with the runs in
\* progress, whichever way a run ends, so no permit is lost and no more than
\* MaxConcurrent runs are at the API.
LimitHolds ==
    /\ active = Cardinality(Running)
    /\ permits + active = MaxConcurrent

\* The queue of a lock holds who waits for it, once each, and nobody waits in
\* front of a free lock without having been told, also when the one that
\* was told gives up.
QueueServed ==
    \A c \in Configs :
        /\ \A t \in Tasks :
              pc[t] = "lock" /\ call[t].config = c <=> t \in {waiters[c][i] : i \in DOMAIN waiters[c]}
        /\ \A i, j \in DOMAIN waiters[c] : waiters[c][i] = waiters[c][j] => i = j
        /\ woken[c] <=> ~held[c] /\ waiters[c] # <<>>

\* The log of a call that returned a result says what the result says, if the run
\* knew which log was its own: neither a run that failed after it had completed
\* its log, nor one that was retried, leaves another status behind.
LogMatchesResult ==
    \A t \in Tasks : call[t].known =>
        /\ result[t] = "ok" => log[t] = "success"
        /\ result[t] = "failed" => log[t] = "failed"

\* Every call ends, through lock, limiter, API and retries.
EveryCallEnds == \A t \in Tasks : pc[t] # "idle" ~> pc[t] = "idle"

\* The guarded section is an admission-controlled one, whose lock lapses when a
\* request that timed out releases it.
Admits == INSTANCE Admission WITH
        inside <- [c \in Configs |-> Inside(c)],
        slack <- stolen

AdmitsAsSpecified == Admits!AdmissionSpec

-----------------------------------------------------------------------------
(* What comments of the repository say and the code denies.                *)

\* sync_engine_enhanced.py:44, the lock prevents concurrent syncs: no two runs
\* towards the table of one configuration are in the section.
MutualExclusion == \A c \in Configs : Cardinality(Inside(c)) <= 1

\* retry_handler.py:62, the dead-letter queue takes the requests that failed for
\* good: a call under the retry decorator that ends with an exception is in it.
PermanentFailuresQueued ==
    [][\A t \in Tasks :
        pc[t] # "idle" /\ result'[t] = "raised" /\ call[t].dir = "to_mysql" =>
            dead' = Enqueued(t)]_vars
=============================================================================
