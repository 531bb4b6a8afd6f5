------------------------------ MODULE Telemetry ------------------------------
(***************************************************************************)
(* What the process remembers of its synchronisations: the counters of     *)
(* services/metrics_collector.py, each a list of points that is cut on its *)
(* own, and the audit log of services/audit_logger.py, as the scheduled    *)
(* jobs and the routes of routers/enhanced_router.py fill them.            *)
(***************************************************************************)
EXTENDS Naturals, Sequences, FiniteSets, Selection

CONSTANTS
    MaxPoints,      \* _max_points_per_metric
    MaxEvents,      \* _max_events of the audit log
    Window,         \* the hour the statistics are about, in clock ticks
    MaxTime,        \* bound on the clock
    MaxSyncs        \* bound on the synchronisations of a life of the process

ASSUME TelemetryAssumption ==
    /\ {MaxPoints, MaxEvents, Window} \subseteq Nat \ {0}
    /\ {MaxTime, MaxSyncs} \subseteq Nat

VARIABLES
    points,     \* points[m]: the times of the points of counter m, oldest first
    events,     \* the audit log: number and time of each event
    logged,     \* events logged so far
    syncs,      \* synchronisations so far
    running,    \* how many a route has begun and not ended
    time

telemetryVars == <<points, events, logged, syncs, running, time>>

Counters == {"sync_total", "sync_success_total", "sync_failure_total"}

Event == [number : 1 .. 2 * MaxSyncs, at : 0 .. MaxTime]

TelemetryTypeOK ==
    /\ points \in [Counters -> Seq(0 .. MaxTime)]
    /\ \A m \in Counters : Len(points[m]) <= MaxPoints
    /\ events \in Seq(Event) /\ Len(events) <= MaxEvents
    /\ logged \in 0 .. 2 * MaxSyncs /\ {syncs, running} \subseteq 0 .. MaxSyncs
    /\ time \in 0 .. MaxTime

TelemetryInit ==
    /\ points = [m \in Counters |-> <<>>]
    /\ events = <<>>
    /\ logged = 0
    /\ syncs = 0
    /\ running = 0
    /\ time = 0

-----------------------------------------------------------------------------
(* What is recorded.                                                       *)

\* Mutant of Latest: the slice keeps the oldest.
LatestFirst(s, n) == IF Len(s) > n THEN SubSeq(s, 1, n) ELSE s

\* Mutant of Latest: the cut comes one entry late.
LatestLate(s, n) == IF Len(s) > n + 1 THEN SubSeq(s, Len(s) - n + 1, Len(s)) ELSE s

\* s[-n:] where s is longer than n.
Latest(s, n) == IF Len(s) > n THEN SubSeq(s, Len(s) - n + 1, Len(s)) ELSE s

\* record_sync_duration, and increment_counter for two of the three counters, each of
\* which reads the clock for itself: it may have gone on in between.
RecordSync(success, counted) ==
    LET outcome == IF success THEN "sync_success_total" ELSE "sync_failure_total"
    IN  points' = [points EXCEPT
            !["sync_total"] = Latest(Append(@, time), MaxPoints),
            ![outcome] = Latest(Append(@, counted), MaxPoints)]

\* log_event.
LogEvent(at) ==
    /\ logged' = logged + 1
    /\ events' = Latest(Append(events, [number |-> logged', at |-> at]), MaxEvents)

\* One direction of _run_sync, a scheduled job: counted, and logged at its end.  No other
\* coroutine runs between the three readings of the clock.
RunScheduled(success) ==
    /\ syncs < MaxSyncs
    /\ syncs' = syncs + 1
    /\ \E counted \in time .. MaxTime : \E over \in counted .. MaxTime :
          /\ RecordSync(success, counted)
          /\ LogEvent(over)
          /\ time' = over
    /\ UNCHANGED running

\* A route of enhanced_router logs that it begins and, unless a database error ends
\* it, its end.  It counts nothing.  (main.py mounts sync_router before it, which
\* answers the same paths.)
BeginRequested ==
    /\ syncs < MaxSyncs
    /\ syncs' = syncs + 1
    /\ running' = running + 1
    /\ LogEvent(time)
    /\ UNCHANGED <<points, time>>

EndRequested ==
    /\ running > 0
    /\ running' = running - 1
    /\ \/ LogEvent(time)
       \/ UNCHANGED <<events, logged>>
    /\ UNCHANGED <<points, syncs, time>>

Pass ==
    /\ time < MaxTime
    /\ time' = time + 1
    /\ UNCHANGED <<points, events, logged, syncs, running>>

\* reset_metrics leaves the audit log as it is.
ResetMetrics ==
    /\ points' = [m \in Counters |-> <<>>]
    /\ UNCHANGED <<events, logged, syncs, running, time>>

\* clear_old_events.
ClearOldEvents(before) ==
    /\ events' = Those(events, {e \in Event : e.at >= before})
    /\ UNCHANGED <<points, logged, syncs, running, time>>

-----------------------------------------------------------------------------
(* What is reported.                                                       *)

\* get_counter_value of the last hour.
CounterValue(m) ==
    Cardinality({n \in DOMAIN points[m] : points[m][n] + Window >= time})

-----------------------------------------------------------------------------
TelemetryNext ==
    \/ \E success \in BOOLEAN : RunScheduled(success)
    \/ BeginRequested \/ EndRequested
    \/ Pass \/ ResetMetrics
    \/ \E before \in 0 .. MaxTime : ClearOldEvents(before)

TelemetrySpec == TelemetryInit /\ [][TelemetryNext]_telemetryVars

-----------------------------------------------------------------------------
(* What holds of the reports.                                              *)

\* One kind of outcome is counted at most as often as all synchronisations, or once more
\* and then alone.
NoMoreThan(total, one, other) ==
    one <= total \/ (one = total + 1 /\ other = 0)

\* Although the three counters are stamped one after the other and cut at their limits at
\* different times, a rate of the last hour is above 100 percent in one case: the hour
\* begins between the two stamps of a synchronisation, and all since have its outcome.
\* None is counted without an outcome.  (Both kinds together may be more than all, once
\* the counter of all has been cut.)
RatesBounded ==
    LET total == CounterValue("sync_total")
        success == CounterValue("sync_success_total")
        failed == CounterValue("sync_failure_total")
    IN  /\ total <= success + failed
        /\ NoMoreThan(total, success, failed) /\ NoMoreThan(total, failed, success)

\* What the audit log still has, cut at its limit and cleared by time, is an unbroken
\* end of what it was given.
EventsAreNewest ==
    \A n \in DOMAIN events : events[n].number = logged - (Len(events) - n)
=============================================================================
