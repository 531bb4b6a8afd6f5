------------------------ MODULE Configurations_proofs ------------------------
(***************************************************************************)
(* Proofs about Configurations, for any configurations, engines, intervals *)
(* and cache time.                                                         *)
(***************************************************************************)
EXTENDS Configurations, TLAPS

-----------------------------------------------------------------------------
(* The inductive invariant.                                                *)

\* Only a version that was the active row can have been retired, and nothing is
\* dated later than now.
RowOK(c) ==
    /\ row[c].active => row[c].version > 0
    /\ \A v \in Versions :
          \/ v > row[c].version
          \/ v = row[c].version /\ row[c].active
          => retired[c][v] = Never
    /\ row[c].version = 0 => pending[c] = <<>>

RowInv == \A c \in Configs : RowOK(c)

\* A version is not in the cache since later than it was retired.
CacheInv ==
    /\ \A c \in Configs :
          /\ cached[c].at <= clock
          /\ \A v \in Versions : cached[c].version = v => cached[c].at <= retired[c][v]
    /\ \A e \in Engines : engine[e].from <= clock

ConfigInv ==
    ConfigTypeOK /\ RowInv /\ CacheInv /\ StalenessBounded /\ JobHasStoredInterval

LEMMA ConfigInitInv == ConfigInit => ConfigInv
<1> SUFFICES ASSUME ConfigInit PROVE ConfigInv OBVIOUS
<1>a. /\ MaxClock \in Nat /\ MaxVersion \in Nat /\ MaxRestarts \in Nat
      /\ Never \in 0 .. Never /\ 0 \in 0 .. MaxVersion /\ 0 \in 0 .. MaxClock
    BY ConfigAssumption DEF Never
<1>b. (CHOOSE c \in Configs : TRUE) \in Configs BY ConfigAssumption
<1>c. (CHOOSE i \in Intervals : TRUE) \in Intervals BY ConfigAssumption
<1>1. ConfigTypeOK
  <2>1. [version |-> 0, active |-> FALSE, interval |-> CHOOSE i \in Intervals : TRUE] \in RowOf
      BY <1>a, <1>c DEF RowOf
  <2>2. row \in [Configs -> RowOf] BY <2>1 DEF ConfigInit
  <2>3. cached \in [Configs -> [version : 0 .. MaxVersion, at : 0 .. MaxClock]]
      BY <1>a DEF ConfigInit, NoCache
  <2>4. engine \in [Engines -> [config : Configs, version : 0 .. MaxVersion,
                                from : 0 .. MaxClock]]
      BY <1>a, <1>b DEF ConfigInit, NoEngine
  <2>5. pending \in [Configs -> Seq(Intervals)] BY DEF ConfigInit
  <2>6. retired \in [Configs -> [Versions -> 0 .. Never]] BY <1>a DEF ConfigInit
  <2>7. clock \in 0 .. MaxClock /\ restarts \in 0 .. MaxRestarts
      BY <1>a DEF ConfigInit
  <2> QED BY <2>2, <2>3, <2>4, <2>5, <2>6, <2>7 DEF ConfigInit, ConfigTypeOK
<1>2. RowInv BY DEF ConfigInit, RowInv, RowOK
<1>3. CacheInv BY <1>a, ConfigAssumption DEF ConfigInit, CacheInv, NoCache, NoEngine, Versions
<1>4. StalenessBounded BY DEF ConfigInit, StalenessBounded, NoEngine
<1>5. JobHasStoredInterval BY DEF ConfigInit, JobHasStoredInterval
<1> QED BY <1>1, <1>2, <1>3, <1>4, <1>5 DEF ConfigInv

-----------------------------------------------------------------------------
(* Every step keeps the invariant.                                         *)

\* What a change of a row does, whoever makes it.
LEMMA StoreFacts ==
    ASSUME ConfigInv, NEW c \in Configs, NEW active \in BOOLEAN, NEW interval \in Intervals,
           StoreRow(c, active, interval)
    PROVE  /\ row' \in [Configs -> RowOf]
           /\ row'[c].version = row[c].version + 1
           /\ row'[c].active = active /\ row'[c].interval = interval
           /\ \A d \in Configs : d # c => row'[d] = row[d] /\ retired'[d] = retired[d]
           /\ retired' \in [Configs -> [Versions -> 0 .. Never]]
           /\ \A v \in Versions :
                 \/ retired'[c][v] = retired[c][v]
                 \/ /\ v = row[c].version /\ row[c].active
                    /\ retired[c][v] = Never /\ retired'[c][v] = clock
           /\ row[c].active => retired'[c][row[c].version] = clock
<1>a. /\ row[c] \in RowOf /\ MaxVersion \in Nat /\ MaxClock \in Nat
      /\ clock \in 0 .. Never
    BY ConfigAssumption DEF ConfigInv, ConfigTypeOK, Never
<1>1. [version |-> row[c].version + 1, active |-> active, interval |-> interval] \in RowOf
    BY <1>a DEF StoreRow, RowOf
<1>2. CASE row[c].active
  <2>1. row[c].version \in Versions /\ retired[c][row[c].version] = Never
      BY <1>a, <1>2 DEF ConfigInv, RowInv, RowOK, Versions, RowOf
  <2>2. retired' = [retired EXCEPT ![c][row[c].version] = clock] BY <1>2 DEF StoreRow
  <2>3. retired'[c] = [retired[c] EXCEPT ![row[c].version] = clock]
        /\ \A d \in Configs : d # c => retired'[d] = retired[d]
      BY <2>2 DEF ConfigInv, ConfigTypeOK
  <2>4. retired'[c] \in [Versions -> 0 .. Never]
      BY <1>a, <2>1, <2>3 DEF ConfigInv, ConfigTypeOK
  <2>5. retired' \in [Configs -> [Versions -> 0 .. Never]]
      BY <2>2, <2>3, <2>4 DEF ConfigInv, ConfigTypeOK
  <2>6. \A v \in Versions : retired'[c][v] = IF v = row[c].version THEN clock ELSE retired[c][v]
      BY <2>3 DEF ConfigInv, ConfigTypeOK
  <2> QED BY <1>1, <1>2, <2>1, <2>3, <2>5, <2>6 DEF StoreRow, ConfigInv, ConfigTypeOK
<1>3. CASE ~row[c].active BY <1>1, <1>3 DEF StoreRow, ConfigInv, ConfigTypeOK
<1> QED BY <1>2, <1>3

\* A change of a row keeps what holds of rows, of the cache and of the engines at work.
LEMMA StoreInv ==
    ASSUME ConfigInv, NEW c \in Configs, NEW active \in BOOLEAN, NEW interval \in Intervals,
           StoreRow(c, active, interval), UNCHANGED <<cached, engine, clock>>,
           \A d \in Configs : d # c => pending'[d] = pending[d]
    PROVE  RowInv' /\ CacheInv' /\ StalenessBounded'
<1>f. /\ row'[c].version = row[c].version + 1
      /\ row'[c].active = active
      /\ \A d \in Configs : d # c => row'[d] = row[d] /\ retired'[d] = retired[d]
      /\ \A v \in Versions :
            \/ retired'[c][v] = retired[c][v]
            \/ /\ v = row[c].version /\ row[c].active
               /\ retired[c][v] = Never /\ retired'[c][v] = clock
    BY StoreFacts
<1>a. /\ row[c].version \in Nat /\ MaxVersion \in Nat /\ Versions \subseteq Nat
      /\ clock \in Nat
    BY ConfigAssumption DEF ConfigInv, ConfigTypeOK, RowOf, Versions
<1>1. RowInv'
  <2>1. ASSUME NEW v \in Versions, v > row'[c].version \/ v = row'[c].version
        PROVE  retired'[c][v] = Never
    <3>1. v > row[c].version BY <1>f, <1>a, <2>1
    <3> QED BY <1>f, <1>a, <3>1 DEF ConfigInv, RowInv, RowOK
  <2>2. row'[c].version > 0 BY <1>f, <1>a
  <2>3. row'[c].version # 0 BY <1>f, <1>a
  <2>4. RowOK(c)' BY <2>1, <2>2, <2>3 DEF RowOK
  <2>5. \A d \in Configs : d # c => RowOK(d)' BY <1>f DEF ConfigInv, RowInv, RowOK
  <2> QED BY <2>4, <2>5 DEF RowInv
<1>2. CacheInv' BY <1>f DEF ConfigInv, CacheInv
<1>3. StalenessBounded'
  <2> SUFFICES ASSUME NEW e \in Engines, engine[e].version > 0
               PROVE  \/ retired'[engine[e].config][engine[e].version] = Never
                      \/ engine[e].from < retired'[engine[e].config][engine[e].version] + Ttl
      BY DEF StalenessBounded
  <2>1. /\ engine[e].config \in Configs /\ engine[e].version \in Versions
        /\ engine[e].from \in Nat /\ engine[e].from <= clock /\ Ttl \in Nat /\ Ttl > 0
      BY ConfigAssumption DEF ConfigInv, ConfigTypeOK, CacheInv, Versions
  <2>2. CASE retired'[engine[e].config][engine[e].version]
                 = retired[engine[e].config][engine[e].version]
      BY <2>2 DEF ConfigInv, StalenessBounded
  <2>3. CASE retired'[engine[e].config][engine[e].version] = clock
      BY <1>a, <2>1, <2>3
  <2> QED BY <1>f, <2>1, <2>2, <2>3
<1> QED BY <1>1, <1>2, <1>3

LEMMA InsertInv == ASSUME ConfigInv, NEW c \in Configs, InsertRow(c) PROVE ConfigInv'
<1>1. PICK i \in Intervals : StoreRow(c, TRUE, i) BY DEF InsertRow
<1>q. /\ UNCHANGED <<cached, engine, pending, listed, clock, missed, restarts>>
      /\ row[c].version = 0
    BY DEF InsertRow
<1>2. RowInv' /\ CacheInv' /\ StalenessBounded' BY <1>1, <1>q, StoreInv
<1>3. ConfigTypeOK' BY <1>1, <1>q, StoreFacts DEF ConfigInv, ConfigTypeOK
<1>4. JobHasStoredInterval'
  <2>1. pending[c] = <<>> BY <1>q DEF ConfigInv, RowInv, RowOK
  <2>2. \A d \in Configs : d # c => row'[d] = row[d] BY <1>1, StoreFacts
  <2> QED BY <1>q, <2>1, <2>2 DEF ConfigInv, JobHasStoredInterval
<1> QED BY <1>2, <1>3, <1>4 DEF ConfigInv

LEMMA DeleteInv == ASSUME ConfigInv, NEW c \in Configs, DeleteConfig(c) PROVE ConfigInv'
<1>0. row[c].interval \in Intervals BY DEF ConfigInv, ConfigTypeOK, RowOf
<1>1. StoreRow(c, FALSE, row[c].interval) BY DEF DeleteConfig
<1>q. UNCHANGED <<cached, engine, pending, listed, clock, missed, restarts>>
    BY DEF DeleteConfig, RemoveJob
<1>2. RowInv' /\ CacheInv' /\ StalenessBounded' BY <1>0, <1>1, <1>q, StoreInv
<1>3. ConfigTypeOK' BY <1>0, <1>1, <1>q, StoreFacts DEF ConfigInv, ConfigTypeOK
<1>4. JobHasStoredInterval'
  <2>1. ~row'[c].active BY <1>0, <1>1, StoreFacts
  <2>2. \A d \in Configs : d # c => row'[d] = row[d] BY <1>0, <1>1, StoreFacts
  <2> QED BY <1>q, <2>1, <2>2 DEF ConfigInv, JobHasStoredInterval
<1> QED BY <1>2, <1>3, <1>4 DEF ConfigInv

LEMMA UpdateInv ==
    ASSUME ConfigInv, NEW c \in Configs, NEW active \in Flags,
           NEW interval \in {NoInterval} \cup Intervals, NEW edited \in BOOLEAN,
           UpdateConfig(c, active, interval, edited)
    PROVE  ConfigInv'
<1> DEFINE a == (active = "on" \/ (active = "unset" /\ row[c].active))
           i == IF interval = NoInterval THEN row[c].interval ELSE interval
<1>a. a \in BOOLEAN OBVIOUS
<1>i. i \in Intervals BY DEF ConfigInv, ConfigTypeOK, RowOf
<1>1. StoreRow(c, a, i) BY DEF UpdateConfig
<1>q. UNCHANGED <<cached, engine, clock, restarts>> BY DEF UpdateConfig
<1>j. \/ active = "off" /\ UNCHANGED <<pending, listed, missed>>
      \/ /\ pending' = [pending EXCEPT ![c] = Append(@, i)] /\ listed' = listed \cup {c}
         /\ missed' = missed \ {c}
      \/ UNCHANGED <<pending, listed>> /\ missed' = missed \cup {c}
    BY DEF UpdateConfig, AddJob, RemoveJob
<1>o. active = "off" => ~a OBVIOUS
<1> HIDE DEF a, i
<1>p. pending' \in [Configs -> Seq(Intervals)]
      /\ \A d \in Configs : d # c => pending'[d] = pending[d]
  <2>1. pending \in [Configs -> Seq(Intervals)] BY DEF ConfigInv, ConfigTypeOK
  <2>2. Append(pending[c], i) \in Seq(Intervals) BY <1>i, <2>1
  <2>3. pending' \in {pending, [pending EXCEPT ![c] = Append(pending[c], i)]} BY <1>j
  <2> QED BY <2>1, <2>2, <2>3
<1>2. RowInv' /\ CacheInv' /\ StalenessBounded' BY <1>a, <1>i, <1>1, <1>q, <1>p, StoreInv
<1>3. ConfigTypeOK'
  <2>1. listed' \subseteq Configs /\ missed' \subseteq Configs
      BY <1>j DEF ConfigInv, ConfigTypeOK
  <2> QED BY <1>a, <1>i, <1>1, <1>q, <1>p, <2>1, StoreFacts DEF ConfigInv, ConfigTypeOK
<1>4. JobHasStoredInterval'
  <2>0. /\ row'[c].active = a /\ row'[c].interval = i
        /\ \A d \in Configs : d # c => row'[d] = row[d]
      BY <1>a, <1>i, <1>1, StoreFacts
  <2> SUFFICES ASSUME NEW d \in Configs, d \notin missed', row'[d].active, pending'[d] # <<>>
               PROVE  pending'[d][Len(pending'[d])] = row'[d].interval
      BY DEF JobHasStoredInterval
  <2>1. CASE d # c
    <3>1. d \notin missed BY <1>j, <2>1
    <3> QED BY <1>p, <2>0, <2>1, <3>1 DEF ConfigInv, JobHasStoredInterval
  <2>2. CASE d = c
    <3>1. pending'[c] = Append(pending[c], i) /\ pending[c] \in Seq(Intervals)
        BY <1>j, <1>o, <2>0, <2>2 DEF ConfigInv, ConfigTypeOK
    <3>2. /\ Len(pending'[c]) = Len(pending[c]) + 1
          /\ pending'[c][Len(pending[c]) + 1] = i
        BY <1>i, <3>1
    <3> QED BY <2>0, <2>2, <3>2
  <2> QED BY <2>1, <2>2
<1> QED BY <1>2, <1>3, <1>4 DEF ConfigInv

LEMMA EnsureInv ==
    ASSUME ConfigInv, NEW e \in Engines, NEW c \in Configs, EnsureConfig(e, c),
           UNCHANGED <<row, pending, listed, clock, missed, retired, restarts>>
    PROVE  ConfigInv'
<1>c. clock \in 0 .. MaxClock /\ clock \in Nat /\ Ttl \in Nat /\ Ttl > 0
    BY ConfigAssumption DEF ConfigInv, ConfigTypeOK
<1>r. \A d \in Configs, v \in Versions : retired[d][v] \in 0 .. Never
    BY DEF ConfigInv, ConfigTypeOK
<1>n. clock <= Never BY <1>c, ConfigAssumption DEF Never
<1>e. PICK v \in 0 .. MaxVersion :
        /\ engine' = [engine EXCEPT ![e] = [config |-> c, version |-> v, from |-> clock]]
        /\ \/ Fresh(c) /\ v = cached[c].version /\ UNCHANGED cached
           \/ /\ row[c].active /\ v = row[c].version
              /\ cached' = [cached EXCEPT ![c] = [version |-> v, at |-> clock]]
    BY DEF EnsureConfig, ConfigInv, ConfigTypeOK, RowOf
<1>0. /\ engine'[e] = [config |-> c, version |-> v, from |-> clock]
      /\ \A f \in Engines : f # e => engine'[f] = engine[f]
      /\ \A d \in Configs : cached'[d] \in {cached[d], [version |-> v, at |-> clock]}
      /\ \A d \in Configs : d # c => cached'[d] = cached[d]
    BY <1>e DEF ConfigInv, ConfigTypeOK
<1>1. ConfigTypeOK'
  <2>1. engine' \in [Engines -> [config : Configs, version : 0 .. MaxVersion,
                                 from : 0 .. MaxClock]]
      BY <1>c, <1>e DEF ConfigInv, ConfigTypeOK
  <2>2. cached' \in [Configs -> [version : 0 .. MaxVersion, at : 0 .. MaxClock]]
    <3>1. cached \in [Configs -> [version : 0 .. MaxVersion, at : 0 .. MaxClock]]
        BY DEF ConfigInv, ConfigTypeOK
    <3>2. [version |-> v, at |-> clock] \in [version : 0 .. MaxVersion, at : 0 .. MaxClock]
        BY <1>c
    <3>3. cached' \in {cached, [cached EXCEPT ![c] = [version |-> v, at |-> clock]]}
        BY <1>e
    <3> QED BY <3>1, <3>2, <3>3
  <2>3. /\ row' = row /\ pending' = pending /\ listed' = listed /\ clock' = clock
        /\ missed' = missed /\ retired' = retired /\ restarts' = restarts
      OBVIOUS
  <2> QED BY <2>1, <2>2, <2>3 DEF ConfigInv, ConfigTypeOK
<1>2. RowInv' BY DEF ConfigInv, RowInv, RowOK
<1>v. row[c].active => row[c].version \in Versions /\ retired[c][row[c].version] = Never
  <2>1. row[c].version \in 0 .. MaxVersion BY DEF ConfigInv, ConfigTypeOK, RowOf
  <2>2. row[c].active => row[c].version \in Versions
      BY <2>1, ConfigAssumption DEF ConfigInv, RowInv, RowOK, Versions
  <2> QED BY <2>2 DEF ConfigInv, RowInv, RowOK
<1>3. CacheInv'
  <2>1. \A d \in Configs : cached'[d].at <= clock
      BY <1>0, <1>c DEF ConfigInv, CacheInv
  <2>2. \A f \in Engines : engine'[f].from <= clock
      BY <1>0, <1>c DEF ConfigInv, CacheInv
  <2>3. ASSUME NEW d \in Configs, NEW w \in Versions, cached'[d].version = w
        PROVE  cached'[d].at <= retired[d][w]
    <3>1. CASE cached'[d] = cached[d] BY <2>3, <3>1 DEF ConfigInv, CacheInv
    <3>2. CASE cached'[d] # cached[d]
      <4>1. d = c /\ row[c].active /\ v = row[c].version
            /\ cached'[d] = [version |-> v, at |-> clock]
          BY <1>0, <1>e, <3>2
      <4> QED BY <1>n, <1>v, <2>3, <4>1
    <3> QED BY <3>1, <3>2
  <2> QED BY <2>1, <2>2, <2>3 DEF CacheInv
<1>4. StalenessBounded'
  <2>1. v > 0 => \/ retired[c][v] = Never \/ clock < retired[c][v] + Ttl
    <3>1. CASE row[c].active /\ v = row[c].version BY <1>v, <3>1
    <3>2. CASE Fresh(c) /\ v = cached[c].version /\ v > 0
      <4>1. v \in Versions BY <3>2, ConfigAssumption DEF Versions
      <4>2. cached[c].at <= retired[c][v] BY <3>2, <4>1 DEF ConfigInv, CacheInv
      <4>3. cached[c].at \in Nat /\ retired[c][v] \in Nat
          BY <4>1, <1>r, ConfigAssumption DEF ConfigInv, ConfigTypeOK, Never
      <4> QED BY <1>c, <3>2, <4>2, <4>3 DEF Fresh
    <3> QED BY <1>e, <3>1, <3>2
  <2> QED BY <1>0, <2>1 DEF ConfigInv, StalenessBounded
<1>5. JobHasStoredInterval' BY DEF ConfigInv, JobHasStoredInterval
<1> QED BY <1>1, <1>2, <1>3, <1>4, <1>5 DEF ConfigInv

LEMMA EndInv == ASSUME ConfigInv, NEW e \in Engines, EndEngine(e) PROVE ConfigInv'
<1>q. /\ UNCHANGED <<row, cached, pending, listed, clock, missed, retired, restarts>>
      /\ engine' = [engine EXCEPT ![e].version = 0]
    BY DEF EndEngine
<1>0. /\ engine'[e].version = 0 /\ engine'[e].from = engine[e].from
      /\ \A f \in Engines : f # e => engine'[f] = engine[f]
      /\ engine' \in [Engines -> [config : Configs, version : 0 .. MaxVersion,
                                  from : 0 .. MaxClock]]
  <2>1. engine[e] \in [config : Configs, version : 0 .. MaxVersion, from : 0 .. MaxClock]
      BY DEF ConfigInv, ConfigTypeOK
  <2>2. [engine[e] EXCEPT !.version = 0]
            \in [config : Configs, version : 0 .. MaxVersion, from : 0 .. MaxClock]
      BY <2>1, ConfigAssumption
  <2> QED BY <1>q, <2>1, <2>2 DEF ConfigInv, ConfigTypeOK
<1>1. ConfigTypeOK' BY <1>q, <1>0 DEF ConfigInv, ConfigTypeOK
<1>2. RowInv' BY <1>q DEF ConfigInv, RowInv, RowOK
<1>3. CacheInv' BY <1>q, <1>0 DEF ConfigInv, CacheInv
<1>4. StalenessBounded' BY <1>q, <1>0 DEF ConfigInv, StalenessBounded
<1>5. JobHasStoredInterval' BY <1>q DEF ConfigInv, JobHasStoredInterval
<1> QED BY <1>1, <1>2, <1>3, <1>4, <1>5 DEF ConfigInv

LEMMA TickInv == ASSUME ConfigInv, Tick PROVE ConfigInv'
<1>q. /\ UNCHANGED <<row, cached, engine, pending, listed, missed, retired, restarts>>
      /\ clock' = clock + 1 /\ clock' \in 0 .. MaxClock /\ clock \in Nat
    BY ConfigAssumption DEF Tick, ConfigInv, ConfigTypeOK
<1>1. ConfigTypeOK' BY <1>q DEF ConfigInv, ConfigTypeOK
<1>2. RowInv' BY <1>q DEF ConfigInv, RowInv, RowOK
<1>3. CacheInv'
  <2>1. \A c \in Configs : cached[c].at \in Nat
      BY ConfigAssumption DEF ConfigInv, ConfigTypeOK
  <2>2. \A e \in Engines : engine[e].from \in Nat
      BY ConfigAssumption DEF ConfigInv, ConfigTypeOK
  <2> QED BY <1>q, <2>1, <2>2 DEF ConfigInv, CacheInv
<1>4. StalenessBounded' BY <1>q DEF ConfigInv, StalenessBounded
<1>5. JobHasStoredInterval' BY <1>q DEF ConfigInv, JobHasStoredInterval
<1> QED BY <1>1, <1>2, <1>3, <1>4, <1>5 DEF ConfigInv

LEMMA RestartInv == ASSUME ConfigInv, Restart PROVE ConfigInv'
<1>q. /\ UNCHANGED <<row, clock, retired>>
      /\ cached' = NoCache /\ engine' = NoEngine
      /\ pending' = [c \in Configs |-> <<>>] /\ listed' = {} /\ missed' = {}
      /\ restarts' \in 0 .. MaxRestarts
    BY ConfigAssumption DEF Restart, ConfigInv, ConfigTypeOK
<1>b. (CHOOSE c \in Configs : TRUE) \in Configs BY ConfigAssumption
<1>c. clock \in Nat /\ \A c \in Configs, v \in Versions : retired[c][v] \in Nat
    BY ConfigAssumption DEF ConfigInv, ConfigTypeOK, Never
<1>1. ConfigTypeOK'
  <2>1. cached' \in [Configs -> [version : 0 .. MaxVersion, at : 0 .. MaxClock]]
      BY <1>q, ConfigAssumption DEF NoCache
  <2>2. engine' \in [Engines -> [config : Configs, version : 0 .. MaxVersion,
                                 from : 0 .. MaxClock]]
      BY <1>q, <1>b, ConfigAssumption DEF NoEngine
  <2> QED BY <1>q, <2>1, <2>2 DEF ConfigInv, ConfigTypeOK
<1>2. RowInv' BY <1>q DEF ConfigInv, RowInv, RowOK
<1>3. CacheInv' BY <1>q, <1>c DEF CacheInv, NoCache, NoEngine
<1>4. StalenessBounded' BY <1>q DEF StalenessBounded, NoEngine
<1>5. JobHasStoredInterval' BY <1>q DEF JobHasStoredInterval
<1> QED BY <1>1, <1>2, <1>3, <1>4, <1>5 DEF ConfigInv

LEMMA ConfigStepInv == ConfigInv /\ [ConfigNext]_configVars => ConfigInv'
<1> SUFFICES ASSUME ConfigInv, [ConfigNext]_configVars PROVE ConfigInv' OBVIOUS
<1>1. CASE UNCHANGED configVars
    BY <1>1 DEF configVars, ConfigInv, ConfigTypeOK, RowInv, RowOK, CacheInv, StalenessBounded,
                JobHasStoredInterval
<1>2. ASSUME NEW e \in Engines, NEW c \in Configs, RunByRequest(e, c) \/ RunByWebhook(e, c)
      PROVE  ConfigInv'
    BY <1>2, EnsureInv DEF RunByRequest, RunByWebhook
<1> QED
    BY <1>1, <1>2, InsertInv, DeleteInv, UpdateInv, EndInv, TickInv, RestartInv DEF ConfigNext

LEMMA ConfigSpecInv == ConfigSpec => []ConfigInv
BY ConfigInitInv, ConfigStepInv, PTL DEF ConfigSpec

-----------------------------------------------------------------------------
(* What follows.                                                           *)

\* A run starts with a version of its configuration that was the stored one less
\* than the cache's time ago.
THEOREM StalenessCorrect == ConfigSpec => []StalenessBounded
<1>1. ConfigInv => StalenessBounded BY DEF ConfigInv
<1> QED BY <1>1, ConfigSpecInv, PTL

\* The last job kept for an active configuration has the stored interval.
THEOREM JobsCorrect == ConfigSpec => []JobHasStoredInterval
<1>1. ConfigInv => JobHasStoredInterval BY DEF ConfigInv
<1> QED BY <1>1, ConfigSpecInv, PTL
=============================================================================
