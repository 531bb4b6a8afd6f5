--------------------------- MODULE Configurations ---------------------------
(***************************************************************************)
(* Sync configurations: their rows (services/database_service.py), the     *)
(* routes that change them (routers/config_router.py), the module-wide     *)
(* cache through which the engines read them (services/sync_engine.py),    *)
(* and the table of scheduled jobs (scheduler/sync_scheduler.py).          *)
(*                                                                         *)
(* The content of a row is the number of its version: each update that     *)
(* changes the row makes a new one.                                        *)
(***************************************************************************)
EXTENDS Naturals, Sequences, FiniteSets

CONSTANTS
    Configs,        \* configuration ids
    Engines,        \* engine objects that may be at work at the same time
    Intervals,      \* values of poll_interval
    Ttl,            \* CONFIG_CACHE_TTL, in clock ticks
    MaxClock,       \* bound on the clock
    MaxVersion,     \* bound on the versions of a row
    MaxRestarts     \* bound on restarts of the process

ASSUME ConfigAssumption ==
    /\ IsFiniteSet(Configs) /\ IsFiniteSet(Engines)
    /\ Configs # {}
    /\ Intervals \subseteq Nat \ {0} /\ Intervals # {}
    /\ Ttl \in Nat \ {0}
    /\ {MaxClock, MaxVersion, MaxRestarts} \subseteq Nat

\* What a request says of is_active, and an interval it leaves out.
Flags == {"unset", "on", "off"}
NoInterval == 0

VARIABLES
    row,        \* row[c]: the row of configuration c; version 0: no such row
    cached,     \* cached[c]: _config_cache and _config_cache_time; version 0: none
    engine,     \* engine[e]: the configuration an engine at work holds
    pending,    \* pending[c]: the jobs added for c, by interval, oldest first
    listed,     \* keys of SyncScheduler._jobs
    clock,
    missed,     \* history: configurations whose job did not follow their last update
    retired,    \* history: retired[c][v], when version v stopped being the active row
    restarts

configVars == <<row, cached, engine, pending, listed, clock, missed,
              retired, restarts>>

Never == MaxClock + 1

Versions == 1 .. MaxVersion

RowOf == [version : 0 .. MaxVersion, active : BOOLEAN, interval : Intervals]

ConfigTypeOK ==
    /\ row \in [Configs -> RowOf]
    /\ cached \in [Configs -> [version : 0 .. MaxVersion, at : 0 .. MaxClock]]
    /\ engine \in [Engines -> [config : Configs, version : 0 .. MaxVersion,
                               from : 0 .. MaxClock]]
    /\ pending \in [Configs -> Seq(Intervals)]
    /\ {listed, missed} \subseteq SUBSET Configs
    /\ clock \in 0 .. MaxClock
    /\ retired \in [Configs -> [Versions -> 0 .. Never]]
    /\ restarts \in 0 .. MaxRestarts

NoCache == [c \in Configs |-> [version |-> 0, at |-> 0]]
NoEngine == [e \in Engines |->
                [config |-> CHOOSE c \in Configs : TRUE, version |-> 0, from |-> 0]]

ConfigInit ==
    /\ row = [c \in Configs |->
                [version |-> 0, active |-> FALSE,
                 interval |-> CHOOSE i \in Intervals : TRUE]]
    /\ cached = NoCache
    /\ engine = NoEngine
    /\ pending = [c \in Configs |-> <<>>]
    /\ listed = {} /\ missed = {}
    /\ clock = 0
    /\ retired = [c \in Configs |-> [v \in Versions |-> Never]]
    /\ restarts = 0

-----------------------------------------------------------------------------
(* Rows.                                                                   *)

\* The row gets its next version; one that was active is retired.
StoreRow(c, active, interval) ==
    /\ row[c].version < MaxVersion
    /\ row' = [row EXCEPT ![c] = [version |-> row[c].version + 1,
                                  active |-> active, interval |-> interval]]
    /\ retired' = IF row[c].active
                  THEN [retired EXCEPT ![c][row[c].version] = clock] ELSE retired

\* Rows come from scripts and SQL: POST /api/configs calls a method,
\* create_sync_config, that no service has, and answers an error.
InsertRow(c) ==
    /\ row[c].version = 0
    /\ \E i \in Intervals : StoreRow(c, TRUE, i)
    /\ UNCHANGED <<cached, engine, pending, listed, clock, missed, restarts>>

\* remove_sync_job looks the job up under "sync_<id>" in a table whose keys are
\* integers, finds none, and does nothing; so do pause_job and resume_job.
RemoveJob(c) == UNCHANGED <<pending, listed>>

\* Mutant of AddJob: a job that exists is left as it is.
AddJobOnce(c, i) ==
    /\ pending' = IF pending[c] = <<>> THEN [pending EXCEPT ![c] = <<i>>] ELSE pending
    /\ listed' = listed \cup {c}

\* add_sync_job: the scheduler is not running, since init could not load the
\* configurations, so the job joins those that wait for its start.
AddJob(c, i) ==
    /\ pending' = [pending EXCEPT ![c] = Append(@, i)]
    /\ listed' = listed \cup {c}

\* PUT /api/configs/{id} and update_sync_config.  The UPDATE does not ask whether
\* the row is active, and reports the rows it changed: an update that changes
\* nothing ends with a 404 before the job is looked at.  The interval of the job is
\* read back; the route passes over an error there, and the job stays as it was.
UpdateConfig(c, active, interval, edited) ==
    LET next == [active |-> active = "on" \/ (active = "unset" /\ row[c].active),
                 interval |-> IF interval = NoInterval THEN row[c].interval ELSE interval]
    IN  /\ row[c].version > 0
        /\ \/ edited
           \/ next # [active |-> row[c].active, interval |-> row[c].interval]
        /\ StoreRow(c, next.active, next.interval)
        /\ \/ active = "off" /\ RemoveJob(c) /\ UNCHANGED missed
           \/ active # "off" /\ AddJob(c, next.interval) /\ missed' = missed \ {c}
           \/ active # "off" /\ UNCHANGED <<pending, listed>> /\ missed' = missed \cup {c}
        /\ UNCHANGED <<cached, engine, clock, restarts>>

\* DELETE /api/configs/{id}: the row is made inactive, and keeps its job.
DeleteConfig(c) ==
    /\ row[c].active
    /\ StoreRow(c, FALSE, row[c].interval)
    /\ RemoveJob(c)
    /\ UNCHANGED <<cached, engine, clock, missed, restarts>>

-----------------------------------------------------------------------------
(* Reading a configuration.                                                *)

Fresh(c) == cached[c].version > 0 /\ clock - cached[c].at < Ttl

\* Mutant of EnsureConfig: a hit renews the entry.
EnsureConfigRenewed(e, c) ==
    \/ /\ Fresh(c)
       /\ engine' = [engine EXCEPT ![e] = [config |-> c, version |-> cached[c].version,
                                           from |-> clock]]
       /\ cached' = [cached EXCEPT ![c].at = clock]
    \/ /\ ~Fresh(c)
       /\ row[c].active
       /\ engine' = [engine EXCEPT ![e] = [config |-> c, version |-> row[c].version,
                                           from |-> clock]]
       /\ cached' = [cached EXCEPT ![c] = [version |-> row[c].version, at |-> clock]]

\* _ensure_config of a new engine: the cache for Ttl seconds, else the active
\* row, else an error.  Nothing takes an entry out of the cache.
EnsureConfig(e, c) ==
    \/ /\ Fresh(c)
       /\ engine' = [engine EXCEPT ![e] = [config |-> c, version |-> cached[c].version,
                                           from |-> clock]]
       /\ UNCHANGED cached
    \/ /\ ~Fresh(c)
       /\ row[c].active
       /\ engine' = [engine EXCEPT ![e] = [config |-> c, version |-> row[c].version,
                                           from |-> clock]]
       /\ cached' = [cached EXCEPT ![c] = [version |-> row[c].version, at |-> clock]]

\* A route loads the active row first, and then builds an engine that does not
\* use what was loaded.
RunByRequest(e, c) ==
    /\ engine[e].version = 0
    /\ row[c].active
    /\ EnsureConfig(e, c)
    /\ UNCHANGED <<row, pending, listed, clock, missed, retired, restarts>>

\* The background task of a webhook knows the id from a lookup made before the
\* response; the row may have been changed since.
RunByWebhook(e, c) ==
    /\ engine[e].version = 0
    /\ EnsureConfig(e, c)
    /\ UNCHANGED <<row, pending, listed, clock, missed, retired, restarts>>

EndEngine(e) ==
    /\ engine[e].version > 0
    /\ engine' = [engine EXCEPT ![e].version = 0]
    /\ UNCHANGED <<row, cached, pending, listed, clock, missed, retired, restarts>>

-----------------------------------------------------------------------------
Tick ==
    /\ clock < MaxClock
    /\ clock' = clock + 1
    /\ UNCHANGED <<row, cached, engine, pending, listed, missed, retired, restarts>>

\* SyncScheduler.init asks the service for get_all_sync_configs, which it does
\* not have, and returns: no job is loaded and the scheduler is not started.
Restart ==
    /\ restarts < MaxRestarts
    /\ restarts' = restarts + 1
    /\ cached' = NoCache
    /\ engine' = NoEngine
    /\ pending' = [c \in Configs |-> <<>>]
    /\ listed' = {} /\ missed' = {}
    /\ UNCHANGED <<row, clock, retired>>

ConfigNext ==
    \/ \E c \in Configs :
          \/ InsertRow(c) \/ DeleteConfig(c)
          \/ \E active \in Flags, interval \in {NoInterval} \cup Intervals,
                edited \in BOOLEAN : UpdateConfig(c, active, interval, edited)
          \/ \E e \in Engines : RunByRequest(e, c) \/ RunByWebhook(e, c)
    \/ \E e \in Engines : EndEngine(e)
    \/ Tick
    \/ Restart

ConfigSpec == ConfigInit /\ [][ConfigNext]_configVars

-----------------------------------------------------------------------------
(* What holds of configurations.                                           *)

\* A run may start with a configuration that has been edited or deleted, but
\* only within the cache's time from the moment that version was replaced,
\* however often the entry is hit in between.
StalenessBounded ==
    \A e \in Engines :
        LET use == engine[e]
        IN  use.version > 0 =>
                \/ retired[use.config][use.version] = Never
                \/ use.from < retired[use.config][use.version] + Ttl

\* Of the jobs kept for an active configuration the last one, which replaces
\* the others when the scheduler starts, has the stored interval, also after
\* the configuration was made inactive, given another interval and made active
\* again without its job ever being removed.  (An update whose interval could not be
\* read back is the exception, until the next one.)
JobHasStoredInterval ==
    \A c \in Configs \ missed :
        row[c].active /\ pending[c] # <<>> =>
            pending[c][Len(pending[c])] = row[c].interval
=============================================================================
