------------------------- MODULE GuardedSync_proofs -------------------------
(***************************************************************************)
(* Proofs about GuardedSync, for any number of tasks and configurations,   *)
(* any limit on runs and attempts and any number of timeouts.              *)
(***************************************************************************)
EXTENDS GuardedSync, FiniteSetTheorems, SequenceTheorems, TLAPS

-----------------------------------------------------------------------------
(* Sequences.                                                              *)

LEMMA DroppedType ==
    ASSUME NEW S, NEW s \in Seq(S), NEW i \in DOMAIN s
    PROVE  Dropped(s, i) \in Seq(S) /\ Len(Dropped(s, i)) = Len(s) - 1
<1> DEFINE a == SubSeq(s, 1, i - 1)
           b == SubSeq(s, i + 1, Len(s))
<1>1. i \in 1 .. Len(s) /\ Len(s) \in Nat /\ \A j \in 1 .. Len(s) : s[j] \in S
  OBVIOUS
<1>2. a \in Seq(S) /\ Len(a) = i - 1
  BY <1>1, SubSeqProperties
<1>3. b \in Seq(S) /\ Len(b) = Len(s) - i
  BY <1>1, SubSeqProperties
<1>4. Dropped(s, i) = a \o b
  BY DEF Dropped
<1> HIDE DEF a, b
<1>5. a \o b \in Seq(S) /\ Len(a \o b) = Len(a) + Len(b)
  BY <1>2, <1>3, ConcatProperties
<1> QED
  BY <1>1, <1>2, <1>3, <1>4, <1>5

\* The elements of a sequence without repetitions, after one is dropped.
LEMMA DroppedElements ==
    ASSUME NEW S, NEW s \in Seq(S), NEW i \in DOMAIN s,
           \A j, k \in DOMAIN s : s[j] = s[k] => j = k
    PROVE  /\ \A j, k \in DOMAIN Dropped(s, i) :
                 Dropped(s, i)[j] = Dropped(s, i)[k] => j = k
           /\ \A x : (\E j \in DOMAIN Dropped(s, i) : Dropped(s, i)[j] = x)
                      <=> x # s[i] /\ \E j \in DOMAIN s : s[j] = x
<1> DEFINE a == SubSeq(s, 1, i - 1)
           b == SubSeq(s, i + 1, Len(s))
           d == Dropped(s, i)
<1>1. i \in 1 .. Len(s) /\ Len(s) \in Nat /\ DOMAIN s = 1 .. Len(s)
  OBVIOUS
<1>2. a \in Seq(S) /\ Len(a) = i - 1 /\ \A j \in 1 .. i - 1 : a[j] = s[j]
  BY <1>1, SubSeqProperties
<1>3. b \in Seq(S) /\ Len(b) = Len(s) - i /\ \A j \in 1 .. Len(s) - i : b[j] = s[i + j]
  <2>1. \A j \in 1 .. Len(s) : s[j] \in S
    BY <1>1
  <2>2. i + 1 \in 1 .. Len(s) + 1 /\ Len(s) \in i .. Len(s)
    BY <1>1
  <2> QED
    BY <1>1, <2>1, <2>2, SubSeqProperties
<1>4. d = a \o b
  BY DEF Dropped
<1> HIDE DEF a, b
<1>t. a \in Seq(S) /\ b \in Seq(S)
  BY <1>2, <1>3
<1>c. /\ Len(a \o b) = Len(a) + Len(b)
      /\ \A j \in 1 .. Len(a) + Len(b) :
            (a \o b)[j] = IF j <= Len(a) THEN a[j] ELSE b[j - Len(a)]
      /\ a \o b \in Seq(S)
  BY <1>t, ConcatProperties
<1>l. Len(a) + Len(b) = Len(s) - 1 /\ Len(a) = i - 1
  BY <1>1, <1>2, <1>3
<1>5. /\ Len(a \o b) = Len(s) - 1
      /\ \A j \in 1 .. Len(s) - 1 :
            (a \o b)[j] = IF j <= i - 1 THEN a[j] ELSE b[j - (i - 1)]
      /\ a \o b \in Seq(S)
  BY <1>c, <1>l
<1> HIDE DEF d
<1>6. Len(d) = Len(s) - 1 /\ DOMAIN d = 1 .. Len(s) - 1
  BY <1>4, <1>5
<1>7. \A j \in 1 .. Len(s) - 1 : d[j] = IF j < i THEN s[j] ELSE s[j + 1]
  <2> TAKE j \in 1 .. Len(s) - 1
  <2>1. d[j] = IF j <= i - 1 THEN a[j] ELSE b[j - (i - 1)]
    BY <1>4, <1>5
  <2>2. CASE j < i
    BY <1>1, <1>2, <2>1, <2>2
  <2>3. CASE j >= i
    <3>1. j - (i - 1) \in 1 .. Len(s) - i /\ i + (j - (i - 1)) = j + 1
      BY <1>1, <2>3
    <3> QED
      BY <1>1, <1>3, <2>1, <2>3, <3>1
  <2> QED
    BY <1>1, <2>2, <2>3
<1>8. \A j, k \in 1 .. Len(s) - 1 : d[j] = d[k] => j = k
  BY <1>1, <1>7
<1>9. ASSUME NEW x
      PROVE  (\E j \in DOMAIN d : d[j] = x) <=> x # s[i] /\ \E j \in DOMAIN s : s[j] = x
  <2>1. ASSUME NEW j \in 1 .. Len(s) - 1, d[j] = x
        PROVE  x # s[i] /\ \E k \in DOMAIN s : s[k] = x
    <3>1. CASE j < i
      BY <1>1, <1>7, <2>1, <3>1
    <3>2. CASE j >= i
      <4>1. j + 1 \in 1 .. Len(s) /\ j + 1 # i /\ s[j + 1] = x
        BY <1>1, <1>7, <2>1, <3>2
      <4> QED
        BY <1>1, <4>1
    <3> QED
      BY <1>1, <3>1, <3>2
  <2>2. ASSUME NEW j \in 1 .. Len(s), s[j] = x, x # s[i]
        PROVE  \E k \in 1 .. Len(s) - 1 : d[k] = x
    <3>1. CASE j < i
      <4>1. j \in 1 .. Len(s) - 1 /\ d[j] = x
        BY <1>1, <1>7, <2>2, <3>1
      <4> QED
        BY <4>1
    <3>2. CASE j > i
      <4>1. j - 1 \in 1 .. Len(s) - 1 /\ ~(j - 1 < i) /\ (j - 1) + 1 = j
        BY <1>1, <3>2
      <4>2. d[j - 1] = x
        BY <1>7, <2>2, <4>1
      <4> QED
        BY <4>1, <4>2
    <3> QED
      BY <1>1, <2>2, <3>1, <3>2
  <2> QED
    BY <1>1, <1>6, <2>1, <2>2
<1> QED
  BY <1>6, <1>8, <1>9 DEF d

LEMMA EnqueuedType ==
    ASSUME dead \in Seq(Tasks), Len(dead) <= MaxDead, NEW t \in Tasks
    PROVE  Enqueued(t) \in Seq(Tasks) /\ Len(Enqueued(t)) <= MaxDead
<1>1. Append(dead, t) \in Seq(Tasks) /\ Len(Append(dead, t)) = Len(dead) + 1
  OBVIOUS
<1>2. MaxDead \in Nat \ {0}
  BY GuardAssumption
<1>3. CASE Len(dead) + 1 > MaxDead
  <2>1. Append(dead, t) # <<>>
    BY <1>1, <1>2
  <2>2. /\ Tail(Append(dead, t)) \in Seq(Tasks)
        /\ Len(Tail(Append(dead, t))) = Len(Append(dead, t)) - 1
    BY <1>1, <2>1
  <2> QED
    BY <1>1, <1>2, <1>3, <2>2 DEF Enqueued
<1>4. CASE ~(Len(dead) + 1 > MaxDead)
  BY <1>1, <1>2, <1>4 DEF Enqueued
<1> QED
  BY <1>3, <1>4

-----------------------------------------------------------------------------
(* The parts of the actions.                                               *)

\* A step of t leaves the other coroutines where they are.
Alone(t) == \A u \in Tasks \ {t} : pc'[u] = pc[u] /\ call'[u] = call[u]

LockType ==
    /\ held \in [Configs -> BOOLEAN]
    /\ waiters \in [Configs -> Seq(Tasks)]
    /\ woken \in [Configs -> BOOLEAN]

\* Whoever is woken can take the lock.
WokenFree == \A c \in Configs : woken[c] => ~held[c] /\ waiters[c] # <<>>

LockInv == LockType /\ WokenFree

LEMMA FreedInv ==
    ASSUME LockInv, NEW c \in Configs, NEW rest \in Seq(Tasks), Freed(c, rest)
    PROVE  LockInv' /\ held' = [held EXCEPT ![c] = FALSE]
BY DEF LockInv, LockType, WokenFree, Freed

LEMMA LeaveLockInv ==
    ASSUME GuardTypeOK, LockInv, NEW t \in Tasks, LeaveLock(t)
    PROVE  /\ LockInv'
           /\ held' = IF call[t].dir = "to_mysql"
                      THEN [held EXCEPT ![call[t].config] = FALSE] ELSE held
<1> DEFINE c == call[t].config
<1>1. c \in Configs
  BY DEF GuardTypeOK, Call
<1>2. CASE call[t].dir = "to_mysql" /\ held[c]
  <2>1. waiters[c] \in Seq(Tasks) /\ Freed(c, waiters[c])
    BY <1>1, <1>2 DEF LeaveLock, LockInv, LockType
  <2> QED
    BY <1>1, <1>2, <2>1, FreedInv
<1>3. CASE ~(call[t].dir = "to_mysql" /\ held[c])
  <2>1. UNCHANGED <<held, waiters, woken>>
    BY <1>3 DEF LeaveLock, lock
  <2>2. LockInv'
    BY <2>1 DEF LockInv, LockType, WokenFree
  <2>3. call[t].dir = "to_mysql" => held = [held EXCEPT ![c] = FALSE]
    BY <1>1, <1>3 DEF LockInv, LockType
  <2> QED
    BY <2>1, <2>2, <2>3
<1> QED
  BY <1>2, <1>3

LEMMA NewCallType ==
    ASSUME NEW c \in Configs, NEW d \in Directions, NEW b \in BOOLEAN
    PROVE  NewCall(c, d) \in Call /\ [NewCall(c, d) EXCEPT !.known = b] \in Call
<1>1. 0 \in 0 .. MaxAttempts - 1
  BY GuardAssumption
<1> QED
  BY <1>1 DEF NewCall, Call

\* How a call may go on after an exception or a return.
Out(t) ==
    /\ pc' \in [Tasks -> Pcs]
    /\ call' \in [Tasks -> Call]
    /\ result' \in [Tasks -> Results]
    /\ dead' \in Seq(Tasks) /\ Len(dead') <= MaxDead
    /\ pc'[t] \in {"idle", "start"}
    /\ Alone(t)

LEMMA ReturnOut ==
    ASSUME GuardTypeOK, NEW t \in Tasks, NEW r \in Results, NEW b \in BOOLEAN, Return(t, r, b)
    PROVE  Out(t)
<1>1. [NewCall(call[t].config, "to_mysql") EXCEPT !.known = b] \in Call
  BY NewCallType DEF GuardTypeOK, Call, Directions
<1> QED
  BY <1>1 DEF GuardTypeOK, Return, Gone, Out, Alone, Pcs

LEMMA EscapeOut ==
    ASSUME GuardTypeOK, NEW t \in Tasks, NEW e \in Errors, NEW b \in BOOLEAN, Escape(t, e, b)
    PROVE  Out(t)
<1>1. CASE Return(t, "raised", b)
  BY <1>1, ReturnOut DEF Results
<1>2. CASE /\ Again(t, e)
           /\ pc' = [pc EXCEPT ![t] = "start"]
           /\ call' = [call EXCEPT ![t].known = FALSE, ![t].attempt = @ + 1]
           /\ UNCHANGED <<result, dead>>
  <2>0. call[t] \in Call /\ call[t].attempt < MaxAttempts - 1 /\ MaxAttempts \in Nat
    BY <1>2, GuardAssumption DEF GuardTypeOK, Again
  <2>1. call[t].attempt + 1 \in 0 .. MaxAttempts - 1
    BY <2>0 DEF Call
  <2>2. [call[t] EXCEPT !.known = FALSE, !.attempt = @ + 1] \in Call
    BY <2>0, <2>1 DEF Call
  <2>3. call' = [call EXCEPT ![t] = [call[t] EXCEPT !.known = FALSE, !.attempt = @ + 1]]
    BY <1>2 DEF GuardTypeOK
  <2> QED
    BY <1>2, <2>2, <2>3 DEF GuardTypeOK, Out, Alone, Pcs
<1>3. CASE Gone(t, "raised", b) /\ dead' = Enqueued(t)
  <2>1. [NewCall(call[t].config, "to_mysql") EXCEPT !.known = b] \in Call
    BY NewCallType DEF GuardTypeOK, Call, Directions
  <2>2. Enqueued(t) \in Seq(Tasks) /\ Len(Enqueued(t)) <= MaxDead
    BY EnqueuedType DEF GuardTypeOK
  <2> QED
    BY <1>3, <2>1, <2>2 DEF GuardTypeOK, Gone, Out, Alone, Pcs, Results
<1> QED
  BY <1>1, <1>2, <1>3 DEF Escape

LEMMA SettleOut ==
    ASSUME GuardTypeOK, NEW t \in Tasks, NEW mid \in Statuses, NEW b \in BOOLEAN,
           Settle(t, mid, b)
    PROVE  Out(t) /\ log' \in [Tasks -> Statuses]
<1>1. log' \in [Tasks -> Statuses]
  BY DEF Settle, GuardTypeOK, Statuses
<1>2. CASE Return(t, "failed", b)
  BY <1>1, <1>2, ReturnOut DEF Results
<1>3. CASE \E e \in Errors : Escape(t, e, b)
  BY <1>1, <1>3, EscapeOut
<1> QED
  BY <1>2, <1>3 DEF Settle

\* A run that the limiter lets in goes on to the API or ends there.
ToApi(t) ==
    /\ \E known \in BOOLEAN : call' = [call EXCEPT ![t].known = known]
    /\ pc' = [pc EXCEPT ![t] = "api"]
    /\ log' = [log EXCEPT ![t] = "running"]
    /\ permits' = permits - 1
    /\ active' = active + 1
    /\ UNCHANGED <<lock, result, dead, stolen>>

LEMMA EnterOut ==
    ASSUME GuardTypeOK, NEW t \in Tasks, Enter(t)
    PROVE  \/ ToApi(t) /\ Alone(t) /\ pc'[t] = "api" /\ permits > 0
           \/ /\ Out(t)
              /\ log' \in [Tasks -> Statuses]
              /\ LeaveLock(t) \/ (call[t].dir = "from_mysql" /\ UNCHANGED lock)
              /\ UNCHANGED <<limiter, stolen>>
<1>0. UNCHANGED stolen /\ permits > 0
  BY DEF Enter
<1>1. CASE \E known \in BOOLEAN :
              /\ permits' = permits - 1
              /\ active' = active + 1
              /\ log' = [log EXCEPT ![t] = "running"]
              /\ call' = [call EXCEPT ![t].known = known]
              /\ pc' = [pc EXCEPT ![t] = "api"]
              /\ UNCHANGED <<lock, result, dead>>
  <2>1. ToApi(t)
    BY <1>0, <1>1 DEF ToApi
  <2>2. Alone(t) /\ pc'[t] = "api"
    BY <1>1 DEF GuardTypeOK, Alone
  <2> QED
    BY <1>0, <2>1, <2>2
<1>2. CASE /\ log' \in {log, [log EXCEPT ![t] = "running"]}
           /\ Return(t, "failed", FALSE)
           /\ LeaveLock(t)
           /\ UNCHANGED limiter
  <2>1. Out(t)
    BY <1>2, ReturnOut DEF Results
  <2>2. log' \in [Tasks -> Statuses]
    BY <1>2 DEF GuardTypeOK, Statuses
  <2> QED
    BY <1>0, <1>2, <2>1, <2>2
<1>3. CASE /\ \E known \in BOOLEAN : Settle(t, "running", known)
           /\ LeaveLock(t)
           /\ UNCHANGED limiter
  BY <1>0, <1>3, SettleOut DEF Statuses
<1>4. CASE \E known \in BOOLEAN :
              /\ call[t].dir = "from_mysql"
              /\ log' = [log EXCEPT ![t] = IF known THEN "success" ELSE "running"]
              /\ Return(t, "ok", known)
              /\ UNCHANGED <<lock, limiter>>
  <2>1. Out(t)
    BY <1>4, ReturnOut DEF Results
  <2>2. log' \in [Tasks -> Statuses]
    BY <1>4 DEF GuardTypeOK, Statuses
  <2> QED
    BY <1>0, <1>4, <2>1, <2>2
<1> QED
  BY <1>1, <1>2, <1>3, <1>4 DEF Enter

LEMMA AnswerOut ==
    ASSUME GuardTypeOK, NEW t \in Tasks, Answer(t)
    PROVE  Out(t) /\ log' \in [Tasks -> Statuses]
<1>1. call[t].known \in BOOLEAN
  BY DEF GuardTypeOK, Call
<1>2. CASE /\ log' = [log EXCEPT ![t] = IF call[t].known THEN "success" ELSE @]
           /\ Return(t, "ok", call[t].known)
  <2>1. Out(t)
    BY <1>1, <1>2, ReturnOut DEF Results
  <2> QED
    BY <1>2, <2>1 DEF GuardTypeOK, Statuses
<1>3. CASE \E mid \in Mids(t) : Settle(t, mid, call[t].known)
  <2>1. Mids(t) \subseteq Statuses
    BY DEF Mids, GuardTypeOK, Statuses
  <2> QED
    BY <1>1, <1>3, <2>1, SettleOut
<1> QED
  BY <1>2, <1>3 DEF Answer

-----------------------------------------------------------------------------
(* Types.                                                                  *)

GType == GuardTypeOK /\ LockInv

LEMMA TypeInit == Init => GType
<1> SUFFICES ASSUME Init PROVE GType
  OBVIOUS
<1>1. \A c \in Configs : NewCall(c, "to_mysql") \in Call
  BY NewCallType DEF Directions
<1>2. MaxConcurrent \in Nat /\ MaxDead \in Nat
  BY GuardAssumption
<1> QED
  BY <1>1, <1>2 DEF Init, GType, GuardTypeOK, LockInv, LockType, WokenFree, Pcs, Statuses,
     Results

LEMMA TypeNext == GType /\ [Next]_vars => GType'
<1> SUFFICES ASSUME GType, [Next]_vars PROVE GType'
  OBVIOUS
<1>t. GuardTypeOK /\ LockInv
  BY DEF GType
<1>o. ASSUME NEW t \in Tasks, Out(t), LockInv', log' \in [Tasks -> Statuses],
             permits' \in Nat, active' \in Int, stolen' \in [Configs -> Nat]
      PROVE  GType'
  BY <1>o DEF GType, GuardTypeOK, Out, LockInv, LockType
<1>1. ASSUME NEW t \in Tasks, NEW c \in Configs, NEW d \in Directions, Begin(t, c, d)
      PROVE  GType'
  <2>1. NewCall(c, d) \in Call
    BY NewCallType
  <2> QED
    BY <1>1, <1>t, <2>1 DEF Begin, GType, GuardTypeOK, LockInv, LockType, WokenFree, lock,
       limiter, Pcs, Statuses, Results
<1>2. ASSUME NEW t \in Tasks, ConfigFails(t) PROVE GType'
  <2>1. Out(t)
    BY <1>2, <1>t, EscapeOut DEF ConfigFails
  <2>2. UNCHANGED <<held, waiters, woken, permits, active, log, stolen>>
    BY <1>2 DEF ConfigFails, lock, limiter
  <2>3. LockInv'
    BY <1>t, <2>2 DEF LockInv, LockType, WokenFree
  <2> QED
    BY <1>t, <2>1, <2>2, <2>3, <1>o DEF GuardTypeOK
<1>3. ASSUME NEW t \in Tasks, Start(t) PROVE GType'
  <2> DEFINE c == call[t].config
  <2>1. c \in Configs /\ [call[t] EXCEPT !.loaded = TRUE] \in Call
    BY <1>t DEF GuardTypeOK, Call
  <2>2. call' \in [Tasks -> Call]
    BY <1>3, <1>t, <2>1 DEF Start, GuardTypeOK
  <2>3. LockInv'
    <3>1. CASE UNCHANGED <<held, waiters, woken>>
      BY <1>t, <3>1 DEF LockInv, LockType, WokenFree
    <3>2. CASE /\ Free(c)
               /\ held' = [held EXCEPT ![c] = TRUE]
               /\ UNCHANGED <<waiters, woken>>
      BY <1>t, <2>1, <3>2 DEF LockInv, LockType, WokenFree, Free
    <3>3. CASE Wait(t, c)
      <4>0. waiters[c] \in Seq(Tasks)
        BY <1>t, <2>1 DEF LockInv, LockType
      <4>1. Append(waiters[c], t) \in Seq(Tasks) /\ Append(waiters[c], t) # <<>>
        BY <4>0, AppendProperties
      <4> QED
        BY <1>t, <2>1, <3>3, <4>1 DEF LockInv, LockType, WokenFree, Wait
    <3> QED
      BY <1>3, <3>1, <3>2, <3>3 DEF Start, lock
  <2>4. pc' \in [Tasks -> Pcs]
    BY <1>3, <1>t DEF Start, GuardTypeOK, Pcs
  <2>5. UNCHANGED <<permits, active, log, result, dead, stolen>>
    BY <1>3 DEF Start, limiter
  <2> QED
    BY <1>t, <2>2, <2>3, <2>4, <2>5 DEF GType, GuardTypeOK, LockInv, LockType
<1>4. ASSUME NEW t \in Tasks, TakeLock(t) PROVE GType'
  <2> DEFINE c == call[t].config
  <2>1. c \in Configs
    BY <1>t DEF GuardTypeOK, Call
  <2>2. /\ woken[c]
        /\ held' = [held EXCEPT ![c] = TRUE]
        /\ waiters' = [waiters EXCEPT ![c] = Tail(@)]
        /\ woken' = [woken EXCEPT ![c] = FALSE]
    BY <1>4 DEF TakeLock
  <2>3. Tail(waiters[c]) \in Seq(Tasks)
    BY <1>t, <2>1, <2>2 DEF LockInv, LockType, WokenFree
  <2>4. LockInv'
    BY <1>t, <2>1, <2>2, <2>3 DEF LockInv, LockType, WokenFree
  <2>5. /\ pc' \in [Tasks -> Pcs]
        /\ UNCHANGED <<call, permits, active, log, result, dead, stolen>>
    BY <1>4, <1>t DEF TakeLock, limiter, GuardTypeOK, Pcs
  <2> QED
    BY <1>t, <2>4, <2>5 DEF GType, GuardTypeOK, LockInv, LockType
<1>5. ASSUME NEW t \in Tasks, TimeOut(t) PROVE GType'
  <2> DEFINE c == call[t].config
  <2>1. c \in Configs
    BY <1>t DEF GuardTypeOK, Call
  <2>2. PICK i \in DOMAIN waiters[c] : Freed(c, StillWaiting(c, i))
    BY <1>5 DEF TimeOut
  <2>3. StillWaiting(c, i) \in Seq(Tasks)
    BY <1>t, <2>1, DroppedType DEF LockInv, LockType, StillWaiting
  <2>4. LockInv'
    BY <1>t, <2>1, <2>2, <2>3, FreedInv
  <2>5. Return(t, "failed", FALSE) /\ UNCHANGED <<permits, active, log>>
    BY <1>5 DEF TimeOut, limiter
  <2>6. Out(t)
    BY <1>t, <2>5, ReturnOut DEF Results
  <2>7. stolen' \in [Configs -> Nat]
    <3>1. stolen \in [Configs -> Nat] /\ stolen[c] + 1 \in Nat
      BY <1>t, <2>1 DEF GuardTypeOK
    <3>2. stolen' = [stolen EXCEPT ![c] = stolen[c] + 1] \/ stolen' = stolen
      BY <1>5 DEF TimeOut
    <3> QED
      BY <3>1, <3>2
  <2> QED
    BY <1>t, <2>4, <2>5, <2>6, <2>7, <1>o DEF GuardTypeOK
<1>6. ASSUME NEW t \in Tasks, Enter(t) PROVE GType'
  <2>1. CASE ToApi(t) /\ permits > 0
    <3>1. PICK known \in BOOLEAN : call' = [call EXCEPT ![t].known = known]
      BY <2>1 DEF ToApi
    <3>2. [call[t] EXCEPT !.known = known] \in Call
      BY <1>t DEF GuardTypeOK, Call
    <3>3. call' \in [Tasks -> Call]
      BY <1>t, <3>1, <3>2 DEF GuardTypeOK
    <3>4. permits' \in Nat /\ active' \in Int
      BY <1>t, <2>1 DEF ToApi, GuardTypeOK
    <3>5. UNCHANGED <<held, waiters, woken, result, dead, stolen>>
      BY <2>1 DEF ToApi, lock
    <3>6. pc' \in [Tasks -> Pcs] /\ log' \in [Tasks -> Statuses]
      BY <1>t, <2>1 DEF ToApi, GuardTypeOK, Pcs, Statuses
    <3> QED
      BY <1>t, <3>3, <3>4, <3>5, <3>6 DEF GType, GuardTypeOK, LockInv, LockType, WokenFree
  <2>2. CASE /\ Out(t)
             /\ log' \in [Tasks -> Statuses]
             /\ LeaveLock(t) \/ UNCHANGED lock
             /\ UNCHANGED <<limiter, stolen>>
    <3>1. LockInv'
      <4>1. CASE LeaveLock(t)
        BY <1>t, <4>1, LeaveLockInv
      <4>2. CASE UNCHANGED lock
        BY <1>t, <4>2 DEF lock, LockInv, LockType, WokenFree
      <4> QED
        BY <2>2, <4>1, <4>2
    <3> QED
      BY <1>t, <2>2, <3>1, <1>o DEF GuardTypeOK, limiter
  <2> QED
    BY <1>6, <1>t, <2>1, <2>2, EnterOut
<1>7. ASSUME NEW t \in Tasks, Answer(t) PROVE GType'
  <2>1. LeaveLock(t) /\ UNCHANGED stolen
    BY <1>7 DEF Answer
  <2>2. permits' \in Nat /\ active' \in Int
    BY <1>7, <1>t DEF Answer, LeaveLimiter, GuardTypeOK
  <2>3. Out(t) /\ log' \in [Tasks -> Statuses]
    BY <1>7, <1>t, AnswerOut
  <2>4. LockInv'
    BY <1>t, <2>1, LeaveLockInv
  <2> QED
    BY <1>t, <2>1, <2>2, <2>3, <2>4, <1>o DEF GuardTypeOK
<1>8. ASSUME NEW i \in 1 .. MaxDead, TakeDead(i) PROVE GType'
  <2>1. UNCHANGED <<pc, call, held, waiters, woken, permits, active, log, result, stolen>>
    BY <1>8 DEF TakeDead, lock, limiter
  <2>2. dead' \in Seq(Tasks) /\ Len(dead') = Len(dead) - 1
    BY <1>8, <1>t, DroppedType DEF TakeDead, GuardTypeOK
  <2>3. Len(dead') <= MaxDead
    BY <1>t, <2>2, GuardAssumption DEF GuardTypeOK
  <2> QED
    BY <1>t, <2>1, <2>2, <2>3 DEF GType, GuardTypeOK, LockInv, LockType, WokenFree
<1>9. CASE UNCHANGED vars
  BY <1>t, <1>9 DEF vars, lock, limiter, GType, GuardTypeOK, LockInv, LockType, WokenFree
<1> QED
  BY <1>1, <1>2, <1>3, <1>4, <1>5, <1>6, <1>7, <1>8, <1>9 DEF Next, Step

\* The variables of GuardedSync have their types in every reachable state, for
\* any number of tasks; in particular the dead-letter queue never grows past
\* its max_size (DeadLetterQueue.add).
THEOREM TypeCorrect == Spec => []GuardTypeOK
<1>1. GType => GuardTypeOK
  BY DEF GType
<1> QED
  BY <1>1, TypeInit, TypeNext, PTL DEF Spec

-----------------------------------------------------------------------------
(* Who is in the section.  Every step does one of four things to it.       *)

In == [c \in Configs |-> Inside(c)]

Same == UNCHANGED <<In, held, stolen>>

Admitted(c, t) ==
    /\ t \notin In[c]
    /\ ~held[c]
    /\ In' = [In EXCEPT ![c] = @ \cup {t}]
    /\ held' = [held EXCEPT ![c] = TRUE]
    /\ UNCHANGED stolen

Left(c, t) ==
    /\ t \in In[c]
    /\ In' = [In EXCEPT ![c] = @ \ {t}]
    /\ held' = [held EXCEPT ![c] = FALSE]
    /\ UNCHANGED stolen

Lapsed(c) ==
    /\ stolen' = [stolen EXCEPT ![c] = @ + 1]
    /\ held' = [held EXCEPT ![c] = FALSE]
    /\ UNCHANGED In

Moves ==
    \/ Same
    \/ \E c \in Configs : Lapsed(c) \/ \E t \in Tasks : Admitted(c, t) \/ Left(c, t)

\* t is in the section of c.
IsIn(t, c) ==
    /\ pc[t] \in {"permit", "api"}
    /\ call[t].config = c
    /\ call[t].dir = "to_mysql"

LEMMA InIs == \A c \in Configs : \A t \in Tasks : t \in In[c] <=> IsIn(t, c)
BY DEF In, Inside, IsIn

LEMMA InType ==
    /\ In = [c \in Configs |-> In[c]]
    /\ \A c \in Configs : In[c] \in SUBSET Tasks
BY DEF In, Inside

LEMMA Others ==
    ASSUME NEW t \in Tasks, Alone(t)
    PROVE  \A c \in Configs : \A u \in Tasks \ {t} : u \in In'[c] <=> u \in In[c]
BY DEF Alone, In, Inside

LEMMA Stays ==
    ASSUME NEW t \in Tasks, Alone(t), \A c \in Configs : IsIn(t, c)' <=> IsIn(t, c)
    PROVE  In' = In
<1>1. \A c \in Configs : \A u \in Tasks : u \in In'[c] <=> u \in In[c]
  <2>1. \A c \in Configs : t \in In'[c] <=> t \in In[c]
    BY DEF In, Inside, IsIn
  <2> QED
    BY <2>1, Others
<1>2. \A c \in Configs : In'[c] = In[c]
  <2>1. \A c \in Configs : In[c] \subseteq Tasks /\ In'[c] \subseteq Tasks
    BY DEF In, Inside
  <2> QED
    BY <1>1, <2>1
<1> QED
  BY <1>2 DEF In

LEMMA Leaves ==
    ASSUME GuardTypeOK, NEW t \in Tasks, Alone(t), pc'[t] \notin {"permit", "api"},
           NEW c \in Configs, IsIn(t, c)
    PROVE  t \in In[c] /\ In' = [In EXCEPT ![c] = @ \ {t}]
<1>1. \A d \in Configs : t \notin In'[d] /\ (t \in In[d] <=> d = c)
  BY DEF In, Inside, IsIn
<1>2. \A d \in Configs : In[d] \subseteq Tasks /\ In'[d] \subseteq Tasks
  BY DEF In, Inside
<1>3. ASSUME NEW d \in Configs
      PROVE  In'[d] = IF d = c THEN In[c] \ {t} ELSE In[d]
  <2>1. \A u \in Tasks : u # t => (u \in In'[d] <=> u \in In[d])
    BY Others
  <2>2. In'[d] \subseteq Tasks /\ In[d] \subseteq Tasks
    BY <1>2
  <2>3. t \in Tasks /\ (t \in In'[d] <=> FALSE) /\ (t \in In[d] <=> d = c)
    BY <1>1
  <2>4. CASE d = c
    <3>1. \A u : u \in In'[c] <=> u \in In[c] /\ u # t
      BY <2>1, <2>2, <2>3, <2>4
    <3> QED
      BY <2>4, <3>1
  <2>5. CASE d # c
    <3>1. \A u : u \in In'[d] <=> u \in In[d]
      BY <2>1, <2>2, <2>3, <2>5
    <3>2. In'[d] = In[d]
      BY <3>1
    <3> QED
      BY <2>5, <3>2
  <2> QED
    BY <2>4, <2>5
<1>4. In' = [d \in Configs |-> IF d = c THEN In[c] \ {t} ELSE In[d]]
  BY <1>3 DEF In
<1>5. [In EXCEPT ![c] = @ \ {t}] = [d \in Configs |-> IF d = c THEN In[c] \ {t} ELSE In[d]]
  BY DEF In
<1> QED
  BY <1>1, <1>4, <1>5

LEMMA Joins ==
    ASSUME GuardTypeOK, NEW t \in Tasks, Alone(t), pc[t] \notin {"permit", "api"},
           NEW c \in Configs, IsIn(t, c)'
    PROVE  t \notin In[c] /\ In' = [In EXCEPT ![c] = @ \cup {t}]
<1>1. \A d \in Configs : t \notin In[d] /\ (t \in In'[d] <=> d = c)
  BY DEF In, Inside, IsIn
<1>2. \A d \in Configs : In[d] \subseteq Tasks /\ In'[d] \subseteq Tasks
  BY DEF In, Inside
<1>3. ASSUME NEW d \in Configs
      PROVE  In'[d] = IF d = c THEN In[c] \cup {t} ELSE In[d]
  <2>1. \A u \in Tasks : u # t => (u \in In'[d] <=> u \in In[d])
    BY Others
  <2>2. In'[d] \subseteq Tasks /\ In[d] \subseteq Tasks
    BY <1>2
  <2>3. t \in Tasks /\ (t \in In'[d] <=> d = c) /\ (t \in In[d] <=> FALSE)
    BY <1>1
  <2>4. CASE d = c
    <3>1. \A u : u \in In'[c] <=> u \in In[c] \/ u = t
      BY <2>1, <2>2, <2>3, <2>4
    <3> QED
      BY <2>4, <3>1
  <2>5. CASE d # c
    <3>1. \A u : u \in In'[d] <=> u \in In[d]
      BY <2>1, <2>2, <2>3, <2>5
    <3>2. In'[d] = In[d]
      BY <3>1
    <3> QED
      BY <2>5, <3>2
  <2> QED
    BY <2>4, <2>5
<1>4. In' = [d \in Configs |-> IF d = c THEN In[c] \cup {t} ELSE In[d]]
  BY <1>3 DEF In
<1>5. [In EXCEPT ![c] = @ \cup {t}] = [d \in Configs |-> IF d = c THEN In[c] \cup {t} ELSE In[d]]
  BY DEF In
<1> QED
  BY <1>1, <1>4, <1>5

\* A task in the section that ends or starts over leaves it, and the lock is free.
LEMMA Departs ==
    ASSUME GuardTypeOK, LockInv, NEW t \in Tasks, pc[t] \in {"permit", "api"}, Out(t),
           \/ LeaveLock(t)
           \/ call[t].dir = "from_mysql" /\ UNCHANGED lock,
           UNCHANGED stolen
    PROVE  Moves
<1> DEFINE c == call[t].config
<1>1. c \in Configs /\ call[t].dir \in Directions
  BY DEF GuardTypeOK, Call
<1>2. Alone(t) /\ pc'[t] \notin {"permit", "api"}
  BY DEF Out
<1>3. CASE call[t].dir = "to_mysql"
  <2>1. held' = [held EXCEPT ![c] = FALSE]
    BY <1>3, LeaveLockInv
  <2>2. IsIn(t, c)
    BY <1>3 DEF IsIn
  <2>3. Left(c, t)
    BY <1>1, <1>2, <2>1, <2>2, Leaves DEF Left
  <2> QED
    BY <1>1, <2>3 DEF Moves
<1>4. CASE call[t].dir # "to_mysql"
  <2>1. held' = held
    BY <1>4, LeaveLockInv DEF lock
  <2>2. \A d \in Configs : ~IsIn(t, d) /\ ~IsIn(t, d)'
    BY <1>2, <1>4 DEF IsIn
  <2>3. In' = In
    BY <1>2, <2>2, Stays
  <2> QED
    BY <2>1, <2>3 DEF Moves, Same
<1> QED
  BY <1>3, <1>4

\* A step of t, in none of the places inside before or after it.
LEMMA Outside ==
    ASSUME NEW t \in Tasks, Alone(t), pc[t] \notin {"permit", "api"},
           pc'[t] \notin {"permit", "api"}
    PROVE  In' = In
<1>1. \A c \in Configs : ~IsIn(t, c) /\ ~IsIn(t, c)'
  BY DEF IsIn
<1> QED
  BY <1>1, Stays

\* Who asks for a lock runs towards the table.
Askers == \A t \in Tasks : pc[t] = "lock" => call[t].dir = "to_mysql"

LEMMA AskersNext == GType /\ Askers /\ [Next]_vars => Askers'
<1> SUFFICES ASSUME GType, Askers, [Next]_vars PROVE Askers'
  OBVIOUS
<1>t. GuardTypeOK /\ LockInv
  BY DEF GType
<1>o. ASSUME NEW t \in Tasks, Alone(t), pc'[t] # "lock" PROVE Askers'
  BY <1>o DEF Askers, Alone
<1>1. ASSUME NEW t \in Tasks, NEW c \in Configs, NEW d \in Directions, Begin(t, c, d)
      PROVE  Askers'
  <2>1. Alone(t) /\ pc'[t] = "start"
    BY <1>t, <1>1 DEF Begin, Alone, GuardTypeOK
  <2> QED
    BY <2>1, <1>o
<1>2. ASSUME NEW t \in Tasks, ConfigFails(t) PROVE Askers'
  BY <1>t, <1>2, <1>o, EscapeOut DEF ConfigFails, Out
<1>3. ASSUME NEW t \in Tasks, Start(t) PROVE Askers'
  <2>1. Alone(t) /\ call'[t].dir = call[t].dir
    BY <1>t, <1>3 DEF Start, Alone, GuardTypeOK, Call
  <2>2. pc'[t] = "lock" => call[t].dir = "to_mysql"
    BY <1>t, <1>3 DEF Start, GuardTypeOK
  <2> QED
    BY <2>1, <2>2 DEF Askers, Alone
<1>4. ASSUME NEW t \in Tasks, TakeLock(t) PROVE Askers'
  <2>1. Alone(t) /\ pc'[t] = "permit"
    BY <1>t, <1>4 DEF TakeLock, Alone, GuardTypeOK
  <2> QED
    BY <2>1, <1>o
<1>5. ASSUME NEW t \in Tasks, TimeOut(t) PROVE Askers'
  BY <1>t, <1>5, <1>o, ReturnOut DEF TimeOut, Out, Results
<1>6. ASSUME NEW t \in Tasks, Enter(t) PROVE Askers'
  BY <1>t, <1>6, <1>o, EnterOut DEF Out
<1>7. ASSUME NEW t \in Tasks, Answer(t) PROVE Askers'
  BY <1>t, <1>7, <1>o, AnswerOut DEF Out
<1>8. ASSUME NEW i \in 1 .. MaxDead, TakeDead(i) PROVE Askers'
  BY <1>8 DEF TakeDead, Askers
<1>9. CASE UNCHANGED vars
  BY <1>9 DEF vars, Askers
<1> QED
  BY <1>1, <1>2, <1>3, <1>4, <1>5, <1>6, <1>7, <1>8, <1>9 DEF Next, Step

LEMMA NextMoves == GType /\ Askers /\ [Next]_vars => Moves
<1> SUFFICES ASSUME GType, Askers, [Next]_vars PROVE Moves
  OBVIOUS
<1>t. GuardTypeOK /\ LockInv
  BY DEF GType
<1>1. ASSUME NEW t \in Tasks, NEW c \in Configs, NEW d \in Directions, Begin(t, c, d)
      PROVE  Moves
  <2>1. Alone(t) /\ pc[t] = "idle" /\ pc'[t] = "start" /\ UNCHANGED <<held, stolen>>
    BY <1>t, <1>1 DEF Begin, Alone, GuardTypeOK, lock
  <2> QED
    BY <2>1, Outside DEF Moves, Same
<1>2. ASSUME NEW t \in Tasks, ConfigFails(t) PROVE Moves
  <2>1. Out(t) /\ pc[t] = "start" /\ UNCHANGED <<held, stolen>>
    BY <1>t, <1>2, EscapeOut DEF ConfigFails, lock
  <2> QED
    BY <2>1, Outside DEF Moves, Same, Out
<1>3. ASSUME NEW t \in Tasks, Start(t) PROVE Moves
  <2> DEFINE c == call[t].config
  <2>1. c \in Configs /\ call' = [call EXCEPT ![t].loaded = TRUE]
        /\ pc[t] = "start" /\ UNCHANGED stolen
    BY <1>t, <1>3 DEF Start, GuardTypeOK, Call
  <2>2. call'[t].config = c /\ call'[t].dir = call[t].dir
    BY <1>t, <2>1 DEF GuardTypeOK, Call
  <2>3. Alone(t)
    BY <1>t, <1>3 DEF Start, Alone, GuardTypeOK
  <2>4. CASE /\ call[t].dir = "from_mysql"
             /\ pc' = [pc EXCEPT ![t] = "permit"]
             /\ UNCHANGED lock
    <3>1. \A d \in Configs : ~IsIn(t, d) /\ ~IsIn(t, d)'
      BY <2>2, <2>4 DEF IsIn
    <3> QED
      BY <2>1, <2>3, <2>4, <3>1, Stays DEF Moves, Same, lock
  <2>5. CASE /\ call[t].dir = "to_mysql"
             /\ Free(c)
             /\ held' = [held EXCEPT ![c] = TRUE]
             /\ pc' = [pc EXCEPT ![t] = "permit"]
             /\ UNCHANGED <<waiters, woken>>
    <3>1. IsIn(t, c)'
      BY <1>t, <2>2, <2>5 DEF IsIn, GuardTypeOK
    <3>2. Admitted(c, t)
      BY <1>t, <2>1, <2>3, <2>5, <3>1, Joins DEF Admitted, Free
    <3> QED
      BY <2>1, <3>2 DEF Moves
  <2>6. CASE /\ call[t].dir = "to_mysql"
             /\ ~Free(c)
             /\ Wait(t, c)
             /\ pc' = [pc EXCEPT ![t] = "lock"]
    <3>1. pc'[t] = "lock" /\ UNCHANGED held
      BY <1>t, <2>6 DEF GuardTypeOK, Wait
    <3> QED
      BY <2>1, <2>3, <3>1, Outside DEF Moves, Same
  <2> QED
    BY <1>3, <2>4, <2>5, <2>6 DEF Start
<1>4. ASSUME NEW t \in Tasks, TakeLock(t) PROVE Moves
  <2> DEFINE c == call[t].config
  <2>1. /\ pc[t] = "lock" /\ woken[c]
        /\ held' = [held EXCEPT ![c] = TRUE]
        /\ pc' = [pc EXCEPT ![t] = "permit"]
        /\ UNCHANGED <<call, stolen>>
    BY <1>4 DEF TakeLock
  <2>2. c \in Configs /\ Alone(t)
    BY <1>t, <2>1 DEF GuardTypeOK, Call, Alone
  <2>3. ~held[c]
    BY <1>t, <2>1, <2>2 DEF LockInv, WokenFree
  <2>4. call[t].dir = "to_mysql"
    BY <2>1 DEF Askers
  <2>5. IsIn(t, c)'
    BY <1>t, <2>1, <2>4 DEF IsIn, GuardTypeOK
  <2>6. Admitted(c, t)
    BY <1>t, <2>1, <2>2, <2>3, <2>5, Joins DEF Admitted
  <2> QED
    BY <2>2, <2>6 DEF Moves
<1>5. ASSUME NEW t \in Tasks, TimeOut(t) PROVE Moves
  <2> DEFINE c == call[t].config
  <2>1. c \in Configs
    BY <1>t DEF GuardTypeOK, Call
  <2>2. Return(t, "failed", FALSE) /\ pc[t] = "lock"
    BY <1>5 DEF TimeOut
  <2>3. In' = In
    <3>1. Out(t)
      BY <1>t, <2>2, ReturnOut DEF Results
    <3> QED
      BY <2>2, <3>1, Outside DEF Out
  <2>4. held' = [held EXCEPT ![c] = FALSE]
    BY <1>5 DEF TimeOut, Freed
  <2>5. stolen' = IF held[c] THEN [stolen EXCEPT ![c] = @ + 1] ELSE stolen
    BY <1>5 DEF TimeOut
  <2>6. CASE held[c]
    BY <2>1, <2>3, <2>4, <2>5, <2>6 DEF Moves, Lapsed
  <2>7. CASE ~held[c]
    <3>1. held' = held
      BY <1>t, <2>1, <2>4, <2>7 DEF LockInv, LockType
    <3> QED
      BY <2>3, <2>5, <2>7, <3>1 DEF Moves, Same
  <2> QED
    BY <2>6, <2>7
<1>6. ASSUME NEW t \in Tasks, Enter(t) PROVE Moves
  <2>1. pc[t] = "permit"
    BY <1>6 DEF Enter
  <2>2. CASE ToApi(t) /\ Alone(t) /\ pc'[t] = "api"
    <3>1. call'[t].config = call[t].config /\ call'[t].dir = call[t].dir
      BY <1>t, <2>2 DEF ToApi, GuardTypeOK, Call
    <3>2. \A d \in Configs : IsIn(t, d)' <=> IsIn(t, d)
      BY <2>1, <2>2, <3>1 DEF IsIn
    <3> QED
      BY <2>2, <3>2, Stays DEF Moves, Same, ToApi, lock
  <2>3. CASE /\ Out(t)
             /\ LeaveLock(t) \/ (call[t].dir = "from_mysql" /\ UNCHANGED lock)
             /\ UNCHANGED stolen
    BY <1>t, <2>1, <2>3, Departs
  <2> QED
    BY <1>t, <1>6, <2>2, <2>3, EnterOut
<1>7. ASSUME NEW t \in Tasks, Answer(t) PROVE Moves
  <2>1. Out(t)
    BY <1>t, <1>7, AnswerOut
  <2> QED
    BY <1>t, <1>7, <2>1, Departs DEF Answer
<1>8. ASSUME NEW i \in 1 .. MaxDead, TakeDead(i) PROVE Moves
  BY <1>8 DEF TakeDead, lock, Moves, Same, In, Inside
<1>9. CASE UNCHANGED vars
  BY <1>9 DEF vars, Moves, Same, In, Inside
<1> QED
  BY <1>1, <1>2, <1>3, <1>4, <1>5, <1>6, <1>7, <1>8, <1>9 DEF Next, Step

-----------------------------------------------------------------------------
(* The section.                                                            *)

\* While the lock is held one of those inside may owe its place to it; each of
\* the others is paid for by a request that timed out.
OverlapInv ==
    \A c \in Configs : Cardinality(In[c]) <= stolen[c] + (IF held[c] THEN 1 ELSE 0)

OInv == GType /\ Askers /\ OverlapInv

LEMMA InFinite == \A c \in Configs : IsFiniteSet(In[c]) /\ Cardinality(In[c]) \in Nat
<1> SUFFICES ASSUME NEW c \in Configs
             PROVE  IsFiniteSet(In[c]) /\ Cardinality(In[c]) \in Nat
  OBVIOUS
<1>1. In[c] \in SUBSET Tasks /\ IsFiniteSet(Tasks)
  BY InType, GuardAssumption
<1>2. IsFiniteSet(In[c])
  BY <1>1, FS_Subset
<1> QED
  BY <1>2, FS_CardinalityType

LEMMA OverlapNext == GuardTypeOK /\ OverlapInv /\ Moves => OverlapInv'
<1> SUFFICES ASSUME GuardTypeOK, OverlapInv, Moves, NEW d \in Configs
             PROVE  Cardinality(In'[d]) <= stolen'[d] + (IF held'[d] THEN 1 ELSE 0)
  BY DEF OverlapInv
<1>1. /\ Cardinality(In[d]) <= stolen[d] + (IF held[d] THEN 1 ELSE 0)
      /\ stolen[d] \in Nat /\ stolen \in [Configs -> Nat] /\ held \in [Configs -> BOOLEAN]
  BY DEF OverlapInv, GuardTypeOK
<1>2. IsFiniteSet(In[d]) /\ Cardinality(In[d]) \in Nat
  BY InFinite
<1>3. CASE Same
  BY <1>1, <1>3 DEF Same
<1>4. ASSUME NEW c \in Configs, Lapsed(c)
      PROVE  Cardinality(In'[d]) <= stolen'[d] + (IF held'[d] THEN 1 ELSE 0)
  <2>1. In' = In
    BY <1>4 DEF Lapsed
  <2>2. stolen'[d] = (IF c = d THEN stolen[d] + 1 ELSE stolen[d])
    BY <1>1, <1>4 DEF Lapsed
  <2>3. held'[d] = (IF c = d THEN FALSE ELSE held[d])
    BY <1>1, <1>4 DEF Lapsed
  <2> QED
    BY <1>1, <1>2, <2>1, <2>2, <2>3
<1>5. ASSUME NEW c \in Configs, NEW t \in Tasks, Admitted(c, t)
      PROVE  Cardinality(In'[d]) <= stolen'[d] + (IF held'[d] THEN 1 ELSE 0)
  <2>1. ~held[c] /\ stolen' = stolen
    BY <1>5 DEF Admitted
  <2>2. held'[d] = (IF c = d THEN TRUE ELSE held[d])
    BY <1>1, <1>5 DEF Admitted
  <2>3. In'[d] = (IF c = d THEN In[d] \cup {t} ELSE In[d])
    BY <1>5, InType DEF Admitted
  <2>4. /\ Cardinality(In[d] \cup {t}) \in Nat
        /\ Cardinality(In[d] \cup {t}) <= Cardinality(In[d]) + 1
    <3>1. Cardinality(In[d] \cup {t})
            = IF t \in In[d] THEN Cardinality(In[d]) ELSE Cardinality(In[d]) + 1
      BY <1>2, FS_AddElement
    <3> QED
      BY <1>2, <3>1
  <2>5. CASE c = d
    BY <1>1, <1>2, <2>1, <2>2, <2>3, <2>4, <2>5
  <2>6. CASE c # d
    BY <1>1, <2>1, <2>2, <2>3, <2>6
  <2> QED
    BY <2>5, <2>6
<1>6. ASSUME NEW c \in Configs, NEW t \in Tasks, Left(c, t)
      PROVE  Cardinality(In'[d]) <= stolen'[d] + (IF held'[d] THEN 1 ELSE 0)
  <2>1. t \in In[c] /\ stolen' = stolen
    BY <1>6 DEF Left
  <2>2. held'[d] = (IF c = d THEN FALSE ELSE held[d])
    BY <1>1, <1>6 DEF Left
  <2>3. In'[d] = (IF c = d THEN In[d] \ {t} ELSE In[d])
    BY <1>6, InType DEF Left
  <2>4. c = d => Cardinality(In[d] \ {t}) = Cardinality(In[d]) - 1
    BY <1>2, <2>1, FS_RemoveElement
  <2> QED
    BY <1>1, <1>2, <2>1, <2>2, <2>3, <2>4
<1> QED
  BY <1>3, <1>4, <1>5, <1>6 DEF Moves

LEMMA OInit == Init => OInv
<1> SUFFICES ASSUME Init PROVE OInv
  OBVIOUS
<1>1. GType
  BY TypeInit
<1>2. Askers
  BY DEF Init, Askers
<1>3. \A c \in Configs : In[c] = {}
  BY DEF Init, In, Inside
<1>4. \A c \in Configs : Cardinality(In[c]) = 0 /\ stolen[c] = 0 /\ held[c] = FALSE
  BY <1>3, FS_EmptySet DEF Init
<1>5. OverlapInv
  BY <1>4 DEF OverlapInv
<1> QED
  BY <1>1, <1>2, <1>5 DEF OInv

LEMMA ONext == OInv /\ [Next]_vars => OInv'
BY TypeNext, AskersNext, NextMoves, OverlapNext DEF OInv, GType

LEMMA OverlapFollows == OInv => OverlapBounded
<1> SUFFICES ASSUME OInv, NEW c \in Configs
             PROVE  Cardinality(Inside(c)) <= 1 + stolen[c]
  BY DEF OverlapBounded
<1>1. In[c] = Inside(c) /\ Cardinality(In[c]) \in Nat /\ stolen[c] \in Nat
  BY InFinite DEF In, OInv, GType, GuardTypeOK
<1>2. Cardinality(In[c]) <= stolen[c] + (IF held[c] THEN 1 ELSE 0)
  BY DEF OInv, OverlapInv
<1> QED
  BY <1>1, <1>2

\* For any number of tasks and configurations, the runs inside the section of a
\* configuration are at most one and one more per request that timed out and
\* released the lock (DistributedLock.acquire).
THEOREM OverlapCorrect == Spec => []OverlapBounded
BY OInit, ONext, OverlapFollows, PTL DEF Spec

\* Admission has its own instance of FiniteSets.
LEMMA SameCardinality == \A S : Admits!Cardinality(S) = Cardinality(S)
BY DEF Admits!Cardinality, Cardinality

\* The section is admission-controlled as Admission specifies: a run enters
\* only when the lapses of the lock so far leave it a place.
THEOREM AdmissionCorrect == Spec => AdmitsAsSpecified
<1>1. Init => Admits!AdmissionInit
  BY DEF Init, Admits!AdmissionInit, Inside
<1>2. OInv /\ [Next]_vars => [Admits!AdmissionNext]_<<In, stolen>>
  <2> SUFFICES ASSUME OInv, [Next]_vars
               PROVE  Admits!AdmissionNext \/ UNCHANGED <<In, stolen>>
    OBVIOUS
  <2>1. Moves
    BY NextMoves DEF OInv
  <2>2. CASE Same
    BY <2>2 DEF Same
  <2>3. ASSUME NEW c \in Configs, Lapsed(c) PROVE Admits!AdmissionNext
    BY <2>3 DEF Lapsed, In, Admits!AdmissionNext, Admits!Lapse
  <2>4. ASSUME NEW c \in Configs, NEW t \in Tasks, Admitted(c, t)
        PROVE  Admits!AdmissionNext
    <3>1. Cardinality(In[c]) <= stolen[c]
      BY <2>4, InFinite DEF Admitted, OInv, OverlapInv, GType, GuardTypeOK
    <3>2. /\ t \notin In[c]
          /\ In' = [In EXCEPT ![c] = @ \cup {t}]
          /\ UNCHANGED stolen
      BY <2>4 DEF Admitted
    <3>3. Admits!Enter(c, t)
      BY <3>1, <3>2, SameCardinality DEF In, Admits!Enter
    <3> QED
      BY <3>3 DEF Admits!AdmissionNext
  <2>5. ASSUME NEW c \in Configs, NEW t \in Tasks, Left(c, t)
        PROVE  Admits!AdmissionNext
    <3>1. Admits!Exit(c, t)
      BY <2>5 DEF Left, In, Admits!Exit
    <3> QED
      BY <3>1 DEF Admits!AdmissionNext
  <2> QED
    BY <2>1, <2>2, <2>3, <2>4, <2>5 DEF Moves
<1> QED
  BY <1>1, <1>2, OInit, ONext, PTL DEF Spec, AdmitsAsSpecified, Admits!AdmissionSpec, In

-----------------------------------------------------------------------------
(* The limiter.                                                            *)

LEMMA RunningFinite == IsFiniteSet(Running) /\ Cardinality(Running) \in Nat
<1>1. Running \in SUBSET Tasks /\ IsFiniteSet(Tasks)
  BY GuardAssumption DEF Running
<1>2. IsFiniteSet(Running)
  BY <1>1, FS_Subset
<1> QED
  BY <1>2, FS_CardinalityType

\* A step of t that neither comes to the API nor leaves it.
LEMMA RunningStays ==
    ASSUME NEW t \in Tasks, Alone(t), pc[t] # "api", pc'[t] # "api"
    PROVE  Running' = Running
BY DEF Alone, Running

LEMMA LimitInit == Init => LimitHolds
<1> SUFFICES ASSUME Init PROVE LimitHolds
  OBVIOUS
<1>1. Running = {}
  BY DEF Init, Running
<1>2. Cardinality(Running) = 0
  BY <1>1, FS_EmptySet
<1> QED
  BY <1>2, GuardAssumption DEF Init, LimitHolds

LEMMA LimitNext == GType /\ LimitHolds /\ [Next]_vars => LimitHolds'
<1> SUFFICES ASSUME GType, LimitHolds, [Next]_vars PROVE LimitHolds'
  OBVIOUS
<1>t. GuardTypeOK
  BY DEF GType
<1>n. /\ IsFiniteSet(Running) /\ Cardinality(Running) \in Nat
      /\ permits \in Nat /\ active \in Int /\ MaxConcurrent \in Nat
  BY <1>t, RunningFinite, GuardAssumption DEF GuardTypeOK
<1>o. ASSUME NEW t \in Tasks, Alone(t), pc[t] # "api", pc'[t] # "api",
             UNCHANGED <<permits, active>>
      PROVE  LimitHolds'
  BY <1>o, RunningStays DEF LimitHolds
<1>1. ASSUME NEW t \in Tasks, NEW c \in Configs, NEW d \in Directions, Begin(t, c, d)
      PROVE  LimitHolds'
  <2>1. /\ Alone(t) /\ pc[t] = "idle" /\ pc'[t] = "start"
        /\ UNCHANGED <<permits, active>>
    BY <1>t, <1>1 DEF Begin, Alone, GuardTypeOK, limiter
  <2> QED
    BY <2>1, <1>o
<1>2. ASSUME NEW t \in Tasks, ConfigFails(t) PROVE LimitHolds'
  <2>1. Out(t) /\ pc[t] = "start" /\ UNCHANGED <<permits, active>>
    BY <1>t, <1>2, EscapeOut DEF ConfigFails, limiter
  <2> QED
    BY <2>1, <1>o DEF Out
<1>3. ASSUME NEW t \in Tasks, Start(t) PROVE LimitHolds'
  <2>1. /\ Alone(t) /\ pc[t] = "start" /\ pc'[t] \in {"permit", "lock"}
        /\ UNCHANGED <<permits, active>>
    BY <1>t, <1>3 DEF Start, Alone, GuardTypeOK, limiter
  <2> QED
    BY <2>1, <1>o
<1>4. ASSUME NEW t \in Tasks, TakeLock(t) PROVE LimitHolds'
  <2>1. /\ Alone(t) /\ pc[t] = "lock" /\ pc'[t] = "permit"
        /\ UNCHANGED <<permits, active>>
    BY <1>t, <1>4 DEF TakeLock, Alone, GuardTypeOK, limiter
  <2> QED
    BY <2>1, <1>o
<1>5. ASSUME NEW t \in Tasks, TimeOut(t) PROVE LimitHolds'
  <2>1. Out(t) /\ pc[t] = "lock" /\ UNCHANGED <<permits, active>>
    BY <1>t, <1>5, ReturnOut DEF TimeOut, limiter, Results
  <2> QED
    BY <2>1, <1>o DEF Out
<1>6. ASSUME NEW t \in Tasks, Enter(t) PROVE LimitHolds'
  <2>1. pc[t] = "permit"
    BY <1>6 DEF Enter
  <2>2. CASE ToApi(t) /\ Alone(t) /\ pc'[t] = "api"
    <3>1. t \notin Running /\ Running' = Running \cup {t}
      BY <2>1, <2>2 DEF Running, Alone
    <3>2. Cardinality(Running') = Cardinality(Running) + 1
      BY <1>n, <3>1, FS_AddElement
    <3>3. permits' = permits - 1 /\ active' = active + 1
      BY <2>2 DEF ToApi
    <3> QED
      BY <1>n, <3>2, <3>3 DEF LimitHolds
  <2>3. CASE Out(t) /\ UNCHANGED limiter
    BY <2>1, <2>3, <1>o DEF Out, limiter
  <2> QED
    BY <1>t, <1>6, <2>2, <2>3, EnterOut
<1>7. ASSUME NEW t \in Tasks, Answer(t) PROVE LimitHolds'
  <2>1. Out(t)
    BY <1>t, <1>7, AnswerOut
  <2>2. t \in Running /\ Running' = Running \ {t}
    BY <1>7, <2>1 DEF Answer, Running, Out, Alone
  <2>3. Cardinality(Running') = Cardinality(Running) - 1
    BY <1>n, <2>2, FS_RemoveElement
  <2>4. permits' = permits + 1 /\ active' = active - 1
    BY <1>7 DEF Answer, LeaveLimiter
  <2> QED
    BY <1>n, <2>3, <2>4 DEF LimitHolds
<1>8. ASSUME NEW i \in 1 .. MaxDead, TakeDead(i) PROVE LimitHolds'
  BY <1>8 DEF TakeDead, limiter, LimitHolds, Running
<1>9. CASE UNCHANGED vars
  BY <1>9 DEF vars, limiter, LimitHolds, Running
<1> QED
  BY <1>1, <1>2, <1>3, <1>4, <1>5, <1>6, <1>7, <1>8, <1>9 DEF Next, Step

\* For any number of tasks, the permits of the limiter and its count of active
\* runs account for each other and for the runs at the API, so no more than
\* MaxConcurrent are there and no permit is lost (ConcurrencyLimiter.acquire).
THEOREM LimitCorrect == Spec => []LimitHolds
BY TypeInit, TypeNext, LimitInit, LimitNext, PTL DEF Spec

-----------------------------------------------------------------------------
(* Logs and results.                                                       *)

\* What LogMatchesResult says of t, and that t has no result before it ends.
Told(t) ==
    /\ call[t].known =>
          /\ result[t] = "ok" => log[t] = "success"
          /\ result[t] = "failed" => log[t] = "failed"
    /\ pc[t] # "idle" => result[t] = "none"

LogInv == \A t \in Tasks : Told(t)

\* A step of t leaves the results and logs of the others as they are, too.
AloneLog(t) ==
    /\ Alone(t)
    /\ \A u \in Tasks \ {t} : result'[u] = result[u] /\ log'[u] = log[u]

LEMMA LogStep ==
    ASSUME LogInv, NEW t \in Tasks, AloneLog(t), Told(t)'
    PROVE  LogInv'
BY DEF LogInv, Told, AloneLog, Alone

\* A step of t that gives it no result and keeps it from having one.
LEMMA NoResult ==
    ASSUME LogInv, NEW t \in Tasks, AloneLog(t), result'[t] \in {"none", "raised"},
           pc'[t] # "idle" => result'[t] = "none"
    PROVE  LogInv'
<1>1. Told(t)'
  BY DEF Told
<1> QED
  BY <1>1, LogStep

LEMMA ReturnTold ==
    ASSUME GuardTypeOK, NEW t \in Tasks, NEW r \in Results, NEW b \in BOOLEAN, Return(t, r, b)
    PROVE  /\ pc'[t] = "idle" /\ result'[t] = r /\ call'[t].known = b
           /\ Alone(t)
           /\ \A u \in Tasks \ {t} : result'[u] = result[u]
BY DEF GuardTypeOK, Return, Gone, Alone, NewCall, Call

LEMMA EscapeTold ==
    ASSUME GuardTypeOK, LogInv, NEW t \in Tasks, pc[t] # "idle", NEW e \in Errors,
           NEW b \in BOOLEAN, Escape(t, e, b)
    PROVE  /\ result'[t] \in {"none", "raised"}
           /\ pc'[t] # "idle" => result'[t] = "none"
           /\ Alone(t)
           /\ \A u \in Tasks \ {t} : result'[u] = result[u]
<1>1. Alone(t)
  BY EscapeOut DEF Out
<1>2. CASE Gone(t, "raised", b)
  BY <1>1, <1>2 DEF Gone, GuardTypeOK
<1>3. CASE pc' = [pc EXCEPT ![t] = "start"] /\ UNCHANGED result
  BY <1>1, <1>3 DEF LogInv, Told
<1> QED
  BY <1>2, <1>3 DEF Escape, Return

LEMMA SettleTold ==
    ASSUME GuardTypeOK, LogInv, NEW t \in Tasks, pc[t] # "idle", NEW mid \in Statuses,
           NEW b \in BOOLEAN, Settle(t, mid, b)
    PROVE  LogInv'
<1>1. CASE /\ log' = [log EXCEPT ![t] = IF b THEN "failed" ELSE mid]
           /\ Return(t, "failed", b)
  <2>1. AloneLog(t)
    BY <1>1, ReturnTold DEF AloneLog, GuardTypeOK, Results
  <2>2. Told(t)'
    BY <1>1, ReturnTold DEF Told, GuardTypeOK, Results
  <2> QED
    BY <2>1, <2>2, LogStep
<1>2. CASE /\ log' = [log EXCEPT ![t] = mid]
           /\ \E e \in Errors : Escape(t, e, b)
  <2>1. AloneLog(t)
    BY <1>2, EscapeTold DEF AloneLog, GuardTypeOK
  <2> QED
    BY <1>2, <2>1, EscapeTold, NoResult
<1> QED
  BY <1>1, <1>2 DEF Settle

LEMMA LogInit == Init => LogInv
BY DEF Init, LogInv, Told, NewCall

LEMMA LogNext == GType /\ LogInv /\ [Next]_vars => LogInv'
<1> SUFFICES ASSUME GType, LogInv, [Next]_vars PROVE LogInv'
  OBVIOUS
<1>t. GuardTypeOK
  BY DEF GType
<1>p. \A t \in Tasks : pc[t] # "idle" => result[t] = "none"
  BY DEF LogInv, Told
<1>1. ASSUME NEW t \in Tasks, NEW c \in Configs, NEW d \in Directions, Begin(t, c, d)
      PROVE  LogInv'
  <2>1. AloneLog(t) /\ result'[t] = "none"
    BY <1>t, <1>1 DEF Begin, AloneLog, Alone, GuardTypeOK
  <2> QED
    BY <2>1, NoResult
<1>2. ASSUME NEW t \in Tasks, ConfigFails(t) PROVE LogInv'
  <2>1. PICK e \in Errors : Escape(t, e, FALSE)
    BY <1>2 DEF ConfigFails
  <2>2. pc[t] = "start" /\ UNCHANGED log
    BY <1>2 DEF ConfigFails
  <2>3. AloneLog(t)
    BY <1>t, <2>1, <2>2, EscapeTold DEF AloneLog
  <2> QED
    BY <1>t, <2>1, <2>2, <2>3, EscapeTold, NoResult
<1>3. ASSUME NEW t \in Tasks, Start(t) PROVE LogInv'
  <2>1. AloneLog(t)
    BY <1>t, <1>3 DEF Start, AloneLog, Alone, GuardTypeOK
  <2>2. pc[t] = "start" /\ UNCHANGED result
    BY <1>3 DEF Start
  <2> QED
    BY <1>p, <2>1, <2>2, NoResult
<1>4. ASSUME NEW t \in Tasks, TakeLock(t) PROVE LogInv'
  <2>1. AloneLog(t)
    BY <1>t, <1>4 DEF TakeLock, AloneLog, Alone, GuardTypeOK
  <2>2. pc[t] = "lock" /\ UNCHANGED result
    BY <1>4 DEF TakeLock
  <2> QED
    BY <1>p, <2>1, <2>2, NoResult
<1>5. ASSUME NEW t \in Tasks, TimeOut(t) PROVE LogInv'
  <2>1. Return(t, "failed", FALSE) /\ UNCHANGED log
    BY <1>5 DEF TimeOut
  <2>2. AloneLog(t) /\ Told(t)'
    BY <1>t, <2>1, ReturnTold DEF AloneLog, Told, Results
  <2> QED
    BY <2>2, LogStep
<1>6. ASSUME NEW t \in Tasks, Enter(t) PROVE LogInv'
  <2>1. pc[t] = "permit"
    BY <1>6 DEF Enter
  <2>3. CASE /\ log' \in {log, [log EXCEPT ![t] = "running"]}
             /\ Return(t, "failed", FALSE)
    <3>1. AloneLog(t) /\ Told(t)'
      BY <1>t, <2>3, ReturnTold DEF AloneLog, Told, Results, GuardTypeOK
    <3> QED
      BY <3>1, LogStep
  <2>4. CASE \E known \in BOOLEAN : Settle(t, "running", known)
    BY <1>t, <2>1, <2>4, SettleTold DEF Statuses
  <2>5. ASSUME NEW known \in BOOLEAN,
               log' = [log EXCEPT ![t] = IF known THEN "success" ELSE "running"],
               Return(t, "ok", known)
        PROVE  LogInv'
    <3>1. AloneLog(t) /\ Told(t)'
      BY <1>t, <2>5, ReturnTold DEF AloneLog, Told, Results, GuardTypeOK
    <3> QED
      BY <3>1, LogStep
  <2>6. CASE \E known \in BOOLEAN :
                /\ permits' = permits - 1
                /\ active' = active + 1
                /\ log' = [log EXCEPT ![t] = "running"]
                /\ call' = [call EXCEPT ![t].known = known]
                /\ pc' = [pc EXCEPT ![t] = "api"]
                /\ UNCHANGED <<lock, result, dead>>
    <3>1. AloneLog(t) /\ UNCHANGED result
      BY <1>t, <2>6 DEF AloneLog, Alone, GuardTypeOK
    <3> QED
      BY <1>p, <2>1, <3>1, NoResult
  <2> QED
    BY <1>6, <2>3, <2>4, <2>5, <2>6 DEF Enter
<1>7. ASSUME NEW t \in Tasks, Answer(t) PROVE LogInv'
  <2>1. call[t].known \in BOOLEAN /\ pc[t] = "api"
    BY <1>t, <1>7 DEF GuardTypeOK, Call, Answer
  <2>2. CASE /\ log' = [log EXCEPT ![t] = IF call[t].known THEN "success" ELSE @]
             /\ Return(t, "ok", call[t].known)
    <3>1. AloneLog(t) /\ Told(t)'
      BY <1>t, <2>1, <2>2, ReturnTold DEF AloneLog, Told, Results, GuardTypeOK
    <3> QED
      BY <3>1, LogStep
  <2>3. CASE \E mid \in Mids(t) : Settle(t, mid, call[t].known)
    <3>1. Mids(t) \subseteq Statuses
      BY <1>t DEF Mids, GuardTypeOK, Statuses
    <3> QED
      BY <1>t, <2>1, <2>3, <3>1, SettleTold
  <2> QED
    BY <1>7, <2>2, <2>3 DEF Answer
<1>8. ASSUME NEW i \in 1 .. MaxDead, TakeDead(i) PROVE LogInv'
  BY <1>8 DEF TakeDead, LogInv, Told
<1>9. CASE UNCHANGED vars
  BY <1>9 DEF vars, LogInv, Told
<1> QED
  BY <1>1, <1>2, <1>3, <1>4, <1>5, <1>6, <1>7, <1>8, <1>9 DEF Next, Step

\* A run that knows its own sync_logs row leaves it in the status its result
\* says, for any number of runs, attempts and failures (the except clauses of
\* sync_to_mysql and sync_from_mysql).
THEOREM LogCorrect == Spec => []LogMatchesResult
<1>1. LogInv => LogMatchesResult
  BY DEF LogInv, Told, LogMatchesResult
<1> QED
  BY <1>1, TypeInit, TypeNext, LogInit, LogNext, PTL DEF Spec

-----------------------------------------------------------------------------
(* The queue of the lock.                                                  *)

Waits(t, c) == pc[t] = "lock" /\ call[t].config = c

Holds(s, u) == \E i \in DOMAIN s : s[i] = u

NoRepeat(s) == \A i, j \in DOMAIN s : s[i] = s[j] => i = j

Queued(t, c) == Holds(waiters[c], t)

\* The three parts of QueueServed: the queue of c holds its waiters, once each, and
\* its head has been told when the lock is free.
QueueIs(c) == \A t \in Tasks : Waits(t, c) <=> Queued(t, c)

OnceEach(c) == NoRepeat(waiters[c])

HeadTold(c) == woken[c] <=> ~held[c] /\ waiters[c] # <<>>

QueueInv == \A c \in Configs : QueueIs(c) /\ OnceEach(c) /\ HeadTold(c)

LEMMA QueueInit == Init => QueueInv
BY DEF Init, QueueInv, QueueIs, OnceEach, HeadTold, Waits, Queued, Holds, NoRepeat

\* A step that changes no queue, and after which the same tasks wait.
LEMMA QueueStays ==
    ASSUME QueueInv, waiters' = waiters,
           \A t \in Tasks, c \in Configs : Waits(t, c)' <=> Waits(t, c),
           \A c \in Configs : HeadTold(c)'
    PROVE  QueueInv'
BY DEF QueueInv, QueueIs, OnceEach, Queued

\* A release at the end of the section keeps the queues.
LEMMA LeaveLockTold ==
    ASSUME GType, QueueInv, NEW t \in Tasks, LeaveLock(t)
    PROVE  waiters' = waiters /\ \A c \in Configs : HeadTold(c)'
<1>1. PICK c \in Configs : c = call[t].config
  BY DEF GType, GuardTypeOK, Call
<1>t. LockType
  BY DEF GType, LockInv
<1>2. CASE Freed(c, waiters[c])
  <2>1. waiters' = waiters
    BY <1>t, <1>2 DEF Freed, LockType
  <2>2. held'[c] = FALSE /\ (woken'[c] <=> waiters[c] # <<>>)
    BY <1>t, <1>2 DEF Freed, LockType
  <2>3. HeadTold(c)'
    BY <2>1, <2>2 DEF HeadTold
  <2>4. ASSUME NEW d \in Configs, d # c PROVE HeadTold(d)'
    <3>1. held'[d] = held[d] /\ woken'[d] = woken[d] /\ HeadTold(d)
      BY <1>t, <1>2, <2>4 DEF Freed, LockType, QueueInv
    <3> QED
      BY <2>1, <3>1 DEF HeadTold
  <2>5. \A d \in Configs : HeadTold(d)'
    BY <2>3, <2>4
  <2> QED
    BY <2>1, <2>5
<1>3. CASE UNCHANGED lock
  BY <1>3 DEF lock, HeadTold, QueueInv
<1> QED
  BY <1>1, <1>2, <1>3 DEF LeaveLock

\* A task that did not wait and does not wait afterwards.
LEMMA NoWaiter ==
    ASSUME NEW t \in Tasks, Alone(t), pc[t] # "lock", pc'[t] # "lock"
    PROVE  \A u \in Tasks, c \in Configs : Waits(u, c)' <=> Waits(u, c)
BY DEF Alone, Waits

\* A task that asks for the lock joins its queue.
LEMMA QueueWait ==
    ASSUME GType, QueueInv, NEW t \in Tasks, NEW c \in Configs, c = call[t].config,
           ~Free(c), Wait(t, c), Alone(t), pc[t] # "lock", pc'[t] = "lock",
           call'[t].config = c
    PROVE  QueueInv'
<1>1. LockType
  BY DEF GType, LockInv
<1>2. waiters[c] \in Seq(Tasks) /\ ~Queued(t, c)
  BY <1>1 DEF LockType, QueueInv, QueueIs, Waits
<1>3. waiters' = [waiters EXCEPT ![c] = Append(waiters[c], t)] /\ UNCHANGED <<held, woken>>
  BY DEF Wait
<1>4. ASSUME NEW d \in Configs, d # c
      PROVE  QueueIs(d)' /\ OnceEach(d)' /\ HeadTold(d)'
  <2>1. waiters'[d] = waiters[d]
    BY <1>1, <1>3, <1>4 DEF LockType
  <2>2. \A u \in Tasks : Waits(u, d)' <=> Waits(u, d)
    BY <1>4 DEF Alone, Waits
  <2>3. QueueIs(d) /\ OnceEach(d) /\ HeadTold(d)
    BY DEF QueueInv
  <2>4. QueueIs(d)'
    BY <2>1, <2>2, <2>3 DEF QueueIs, Queued
  <2>5. OnceEach(d)'
    BY <2>1, <2>3 DEF OnceEach
  <2>6. HeadTold(d)'
    BY <1>3, <2>1, <2>3 DEF HeadTold
  <2> QED
    BY <2>4, <2>5, <2>6
<1>5. QueueIs(c)' /\ OnceEach(c)' /\ HeadTold(c)'
  <2> DEFINE q == waiters[c]
  <2>1. waiters'[c] = Append(q, t)
    BY <1>1, <1>3 DEF LockType
  <2>2. /\ q \in Seq(Tasks)
        /\ Len(Append(q, t)) = Len(q) + 1
        /\ \A i \in 1 .. Len(q) : Append(q, t)[i] = q[i]
        /\ Append(q, t)[Len(q) + 1] = t
        /\ DOMAIN q = 1 .. Len(q) /\ DOMAIN Append(q, t) = 1 .. Len(q) + 1
        /\ Len(q) \in Nat
    BY <1>2
  <2> HIDE DEF q
  <2>3. \A u : Queued(u, c)' <=> Queued(u, c) \/ u = t
    <3>1. ASSUME NEW u, NEW i \in 1 .. Len(q) + 1, Append(q, t)[i] = u
          PROVE  u = t \/ \E j \in 1 .. Len(q) : q[j] = u
      BY <2>2, <3>1
    <3>2. ASSUME NEW u, NEW j \in 1 .. Len(q), q[j] = u
          PROVE  \E i \in 1 .. Len(q) + 1 : Append(q, t)[i] = u
      BY <2>2, <3>2
    <3>3. \E i \in 1 .. Len(q) + 1 : Append(q, t)[i] = t
      BY <2>2
    <3> QED
      <4>1. \A u : Queued(u, c) <=> \E j \in 1 .. Len(q) : q[j] = u
        BY <2>2 DEF Queued, Holds, q
      <4>2. \A u : Queued(u, c)' <=> \E i \in 1 .. Len(q) + 1 : Append(q, t)[i] = u
        BY <2>1, <2>2 DEF Queued, Holds
      <4> QED
        BY <3>1, <3>2, <3>3, <4>1, <4>2, Zenon
  <2>4. \A u \in Tasks : Waits(u, c)' <=> Waits(u, c) \/ u = t
    BY DEF Alone, Waits
  <2>5. QueueIs(c)'
    BY <2>3, <2>4 DEF QueueInv, QueueIs
  <2>6. \A i \in 1 .. Len(q) : q[i] # t
    BY <1>2, <2>2 DEF Queued, Holds, q
  <2>7. \A i, j \in 1 .. Len(q) : q[i] = q[j] => i = j
    BY <2>2 DEF QueueInv, OnceEach, NoRepeat, q
  <2>8. \A i, j \in 1 .. Len(q) + 1 : Append(q, t)[i] = Append(q, t)[j] => i = j
    BY <2>2, <2>6, <2>7
  <2>9. OnceEach(c)'
    BY <2>1, <2>2, <2>8 DEF OnceEach, NoRepeat
  <2>10. Append(q, t) # <<>>
    BY <2>2
  <2>11. held[c] \/ q # <<>>
    BY DEF Free, q
  <2>12. HeadTold(c)
    BY DEF QueueInv
  <2>13. HeadTold(c)'
    BY <1>3, <2>1, <2>10, <2>11, <2>12 DEF HeadTold, q
  <2> QED
    BY <2>5, <2>9, <2>13
<1> QED
  BY <1>4, <1>5 DEF QueueInv

\* A task leaves the queue, which keeps the others.
LEMMA QueueLeft ==
    ASSUME GType, QueueInv, NEW t \in Tasks, NEW c \in Configs, c = call[t].config,
           pc[t] = "lock", Alone(t), pc'[t] # "lock",
           NEW rest \in Seq(Tasks), waiters' = [waiters EXCEPT ![c] = rest],
           NoRepeat(rest),
           \A u \in Tasks : Holds(rest, u) <=> u # t /\ Queued(u, c),
           \A d \in Configs : d # c => held'[d] = held[d] /\ woken'[d] = woken[d],
           woken'[c] <=> ~held'[c] /\ rest # <<>>
    PROVE  QueueInv'
<1>1. LockType
  BY DEF GType, LockInv
<1>2. waiters'[c] = rest
  BY <1>1 DEF LockType
<1>3. QueueIs(c)' /\ OnceEach(c)' /\ HeadTold(c)'
  <2>1. \A u \in Tasks : Waits(u, c)' <=> Waits(u, c) /\ u # t
    BY DEF Alone, Waits
  <2> QED
    BY <1>2, <2>1 DEF QueueInv, QueueIs, Queued, OnceEach, HeadTold
<1>4. ASSUME NEW d \in Configs, d # c
      PROVE  QueueIs(d)' /\ OnceEach(d)' /\ HeadTold(d)'
  <2>1. waiters'[d] = waiters[d]
    BY <1>1, <1>4 DEF LockType
  <2>2. \A u \in Tasks : Waits(u, d)' <=> Waits(u, d)
    BY <1>4 DEF Alone, Waits
  <2> QED
    BY <1>4, <2>1, <2>2 DEF QueueInv, QueueIs, Queued, OnceEach, HeadTold
<1> QED
  BY <1>3, <1>4 DEF QueueInv

\* The head of a queue without repetitions is not in its tail.
LEMMA TailElements ==
    ASSUME NEW s \in Seq(Tasks), s # <<>>,
           NoRepeat(s)
    PROVE  /\ Tail(s) \in Seq(Tasks)
           /\ NoRepeat(Tail(s))
           /\ \A u : Holds(Tail(s), u) <=> u # Head(s) /\ Holds(s, u)
<1>1. /\ Len(s) \in Nat /\ Len(s) > 0 /\ DOMAIN s = 1 .. Len(s)
      /\ Tail(s) \in Seq(Tasks) /\ Len(Tail(s)) = Len(s) - 1
      /\ DOMAIN Tail(s) = 1 .. Len(s) - 1
      /\ \A i \in 1 .. Len(s) - 1 : Tail(s)[i] = s[i + 1]
      /\ Head(s) = s[1]
  OBVIOUS
<1>d. \A i, j \in 1 .. Len(s) : s[i] = s[j] => i = j
  BY <1>1 DEF NoRepeat
<1>2. \A i, j \in 1 .. Len(s) - 1 : Tail(s)[i] = Tail(s)[j] => i = j
  BY <1>1, <1>d
<1>3. ASSUME NEW u, NEW i \in 1 .. Len(s) - 1, Tail(s)[i] = u
      PROVE  u # Head(s) /\ \E j \in 1 .. Len(s) : s[j] = u
  <2>1. i + 1 \in 1 .. Len(s) /\ i + 1 # 1 /\ s[i + 1] = u
    BY <1>1, <1>3
  <2> QED
    BY <1>1, <1>d, <2>1
<1>4. ASSUME NEW u, u # Head(s), NEW j \in 1 .. Len(s), s[j] = u
      PROVE  \E i \in 1 .. Len(s) - 1 : Tail(s)[i] = u
  <2>1. j - 1 \in 1 .. Len(s) - 1 /\ (j - 1) + 1 = j
    BY <1>1, <1>4
  <2> QED
    BY <1>1, <1>4, <2>1
<1> QED
  BY <1>1, <1>2, <1>3, <1>4 DEF NoRepeat, Holds

\* So it is with an element taken out of it.
LEMMA RestElements ==
    ASSUME NEW s \in Seq(Tasks), NEW i \in DOMAIN s, NoRepeat(s)
    PROVE  /\ Dropped(s, i) \in Seq(Tasks)
           /\ NoRepeat(Dropped(s, i))
           /\ \A u : Holds(Dropped(s, i), u) <=> u # s[i] /\ Holds(s, u)
<1>1. Dropped(s, i) \in Seq(Tasks)
  BY DroppedType
<1>2. \A j, k \in DOMAIN s : s[j] = s[k] => j = k
  BY DEF NoRepeat
<1>3. /\ \A j, k \in DOMAIN Dropped(s, i) :
            Dropped(s, i)[j] = Dropped(s, i)[k] => j = k
      /\ \A x : (\E j \in DOMAIN Dropped(s, i) : Dropped(s, i)[j] = x)
                 <=> x # s[i] /\ \E j \in DOMAIN s : s[j] = x
  BY <1>2, DroppedElements
<1> QED
  BY <1>1, <1>3 DEF NoRepeat, Holds

LEMMA QueueNext == GType /\ QueueInv /\ [Next]_vars => QueueInv'
<1> SUFFICES ASSUME GType, QueueInv, [Next]_vars PROVE QueueInv'
  OBVIOUS
<1>t. GuardTypeOK /\ LockInv /\ LockType
  BY DEF GType, LockInv
<1>q. \A c \in Configs : HeadTold(c)
  BY DEF QueueInv
<1>o. ASSUME NEW t \in Tasks, Alone(t), pc[t] # "lock", pc'[t] # "lock",
             LeaveLock(t) \/ UNCHANGED lock
      PROVE  QueueInv'
  <2>1. waiters' = waiters /\ \A c \in Configs : HeadTold(c)'
    BY <1>o, <1>q, LeaveLockTold DEF lock, HeadTold
  <2> QED
    BY <1>o, <2>1, NoWaiter, QueueStays
<1>1. ASSUME NEW t \in Tasks, NEW c \in Configs, NEW d \in Directions, Begin(t, c, d)
      PROVE  QueueInv'
  <2>1. Alone(t) /\ pc[t] # "lock" /\ pc'[t] # "lock" /\ UNCHANGED lock
    BY <1>t, <1>1 DEF Begin, Alone, GuardTypeOK
  <2> QED
    BY <2>1, <1>o
<1>2. ASSUME NEW t \in Tasks, ConfigFails(t) PROVE QueueInv'
  BY <1>t, <1>2, <1>o, EscapeOut DEF ConfigFails, Out
<1>3. ASSUME NEW t \in Tasks, Start(t) PROVE QueueInv'
  <2> DEFINE c == call[t].config
  <2>1. /\ c \in Configs /\ Alone(t) /\ pc[t] = "start"
        /\ call'[t].config = c
    BY <1>t, <1>3 DEF Start, Alone, GuardTypeOK, Call
  <2>2. CASE pc' = [pc EXCEPT ![t] = "permit"] /\ UNCHANGED lock
    BY <1>t, <1>o, <2>1, <2>2 DEF GuardTypeOK
  <2>3. CASE /\ Free(c)
             /\ held' = [held EXCEPT ![c] = TRUE]
             /\ pc' = [pc EXCEPT ![t] = "permit"]
             /\ UNCHANGED <<waiters, woken>>
    <3>1. \A d \in Configs : HeadTold(d)'
      BY <1>t, <1>q, <2>1, <2>3 DEF LockType, Free, HeadTold
    <3> QED
      BY <1>t, <2>1, <2>3, <3>1, NoWaiter, QueueStays DEF GuardTypeOK
  <2>4. CASE ~Free(c) /\ Wait(t, c) /\ pc' = [pc EXCEPT ![t] = "lock"]
    BY <1>t, <2>1, <2>4, QueueWait DEF GuardTypeOK
  <2> QED
    BY <1>3, <2>2, <2>3, <2>4 DEF Start
<1>4. ASSUME NEW t \in Tasks, TakeLock(t) PROVE QueueInv'
  <2>1. PICK c \in Configs : c = call[t].config
    BY <1>t DEF GuardTypeOK, Call
  <2>2. Alone(t) /\ pc[t] = "lock" /\ pc'[t] # "lock"
    BY <1>t, <1>4 DEF TakeLock, Alone, GuardTypeOK
  <2>3. PICK q \in Seq(Tasks) : q = waiters[c]
    BY <1>t DEF LockType
  <2>4. /\ woken[c] /\ t = Head(q)
        /\ held' = [held EXCEPT ![c] = TRUE]
        /\ waiters' = [waiters EXCEPT ![c] = Tail(q)]
        /\ woken' = [woken EXCEPT ![c] = FALSE]
    BY <1>4, <2>1, <2>3 DEF TakeLock
  <2>5. q # <<>> /\ NoRepeat(q)
    BY <1>q, <2>3, <2>4 DEF HeadTold, QueueInv, OnceEach
  <2>6. /\ Tail(q) \in Seq(Tasks) /\ NoRepeat(Tail(q))
        /\ \A u : Holds(Tail(q), u) <=> u # t /\ Queued(u, c)
    BY <2>3, <2>4, <2>5, TailElements DEF Queued
  <2>7. \A d \in Configs : d # c => held'[d] = held[d] /\ woken'[d] = woken[d]
    BY <1>t, <2>4 DEF LockType
  <2>8. held'[c] = TRUE /\ woken'[c] = FALSE
    BY <1>t, <2>4 DEF LockType
  <2>9. woken'[c] <=> ~held'[c] /\ Tail(q) # <<>>
    BY <2>8
  <2> QED
    BY <2>1, <2>2, <2>4, <2>6, <2>7, <2>9, QueueLeft
<1>5. ASSUME NEW t \in Tasks, TimeOut(t) PROVE QueueInv'
  <2>1. PICK c \in Configs : c = call[t].config
    BY <1>t DEF GuardTypeOK, Call
  <2>2. pc[t] = "lock" /\ Return(t, "failed", FALSE)
    BY <1>5 DEF TimeOut
  <2>3. Alone(t) /\ pc'[t] # "lock"
    BY <1>t, <2>2, ReturnOut DEF Out, Results
  <2>4. PICK q \in Seq(Tasks) : q = waiters[c]
    BY <1>t DEF LockType
  <2>5. PICK i \in DOMAIN q : q[i] = t /\ Freed(c, Dropped(q, i))
    BY <1>5, <2>1, <2>4 DEF TimeOut, StillWaiting
  <2>6. NoRepeat(q)
    BY <2>4 DEF QueueInv, OnceEach
  <2>7. PICK rest \in Seq(Tasks) : rest = Dropped(q, i)
    BY <2>6, RestElements
  <2>8. NoRepeat(rest) /\ \A u : Holds(rest, u) <=> u # t /\ Queued(u, c)
    BY <2>4, <2>5, <2>6, <2>7, RestElements DEF Queued
  <2>9. /\ held' = [held EXCEPT ![c] = FALSE]
        /\ waiters' = [waiters EXCEPT ![c] = rest]
        /\ woken' = [woken EXCEPT ![c] = rest # <<>>]
    BY <2>5, <2>7 DEF Freed
  <2>10. \A d \in Configs : d # c => held'[d] = held[d] /\ woken'[d] = woken[d]
    BY <1>t, <2>9 DEF LockType
  <2>11. held'[c] = FALSE /\ (woken'[c] <=> rest # <<>>)
    BY <1>t, <2>9 DEF LockType
  <2>12. woken'[c] <=> ~held'[c] /\ rest # <<>>
    BY <2>11
  <2> QED
    BY <2>1, <2>2, <2>3, <2>8, <2>9, <2>10, <2>12, QueueLeft
<1>6. ASSUME NEW t \in Tasks, Enter(t) PROVE QueueInv'
  <2>1. pc[t] = "permit"
    BY <1>6 DEF Enter
  <2>2. CASE ToApi(t) /\ Alone(t) /\ pc'[t] = "api"
    BY <1>o, <2>1, <2>2 DEF ToApi
  <2>3. CASE Out(t) /\ (LeaveLock(t) \/ UNCHANGED lock)
    BY <1>o, <2>1, <2>3 DEF Out
  <2> QED
    BY <1>t, <1>6, <2>2, <2>3, EnterOut
<1>7. ASSUME NEW t \in Tasks, Answer(t) PROVE QueueInv'
  BY <1>t, <1>7, <1>o, AnswerOut DEF Out, Answer
<1>8. ASSUME NEW i \in 1 .. MaxDead, TakeDead(i) PROVE QueueInv'
  BY <1>8, <1>q, QueueStays DEF TakeDead, lock, HeadTold, Waits
<1>9. CASE UNCHANGED vars
  BY <1>9, <1>q, QueueStays DEF vars, lock, HeadTold, Waits
<1> QED
  BY <1>1, <1>2, <1>3, <1>4, <1>5, <1>6, <1>7, <1>8, <1>9 DEF Next, Step

\* Nobody who waits for a lock is forgotten, is in its queue twice or waits in front
\* of a free lock without having been told, for any number of tasks and timeouts
\* (DistributedLock.acquire over asyncio.Lock).
THEOREM QueueCorrect == Spec => []QueueServed
<1>1. QueueInv => QueueServed
  BY DEF QueueInv, QueueIs, OnceEach, HeadTold, Waits, Queued, Holds, NoRepeat, QueueServed
<1> QED
  BY <1>1, TypeInit, TypeNext, QueueInit, QueueNext, PTL DEF Spec
=============================================================================
