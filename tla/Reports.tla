------------------------------- MODULE Reports -------------------------------
(***************************************************************************)
(* What the monitoring routes compute of counts they find                  *)
(* (routers/monitoring_router.py, services/metrics_collector.py): the      *)
(* health of the system and the percentiles of a histogram.                *)
(***************************************************************************)
EXTENDS Naturals, Sequences

CONSTANTS
    Samples,        \* sizes of histograms
    Criticals,      \* counts of critical errors in the history of errors
    Undelivered,    \* counts of items in the dead-letter queue
    Recents         \* counts of errors in the last five minutes

ASSUME ReportsAssumption ==
    /\ Samples \subseteq Nat \ {0}
    /\ Criticals \cup Undelivered \cup Recents \subseteq Nat

VARIABLE
    answer          \* the last answer of a route

ReportsTypeOK == answer.of \in {"nothing", "histogram", "health"}

ReportsInit == answer = [of |-> "nothing"]

Told(a) == answer' = a

-----------------------------------------------------------------------------
\* Mutant of Percentile: the place is rounded up.
PercentileUp(count, percent, from) ==
    IF count >= from THEN (count * percent) \div 100 + 2 ELSE count

\* get_histogram_stats: the place of a percentile among the sorted values, the last
\* one where there are fewer than it takes.
Percentile(count, percent, from) ==
    IF count >= from THEN (count * percent) \div 100 + 1 ELSE count

GetHistogramStats ==
    \E count \in Samples :
        Told([of |-> "histogram", count |-> count,
              place |-> <<Percentile(count, 50, 0), Percentile(count, 90, 10),
                          Percentile(count, 95, 20), Percentile(count, 99, 100)>>])

Least(m, n) == IF m < n THEN m ELSE n

\* Mutant of HealthScore: the deductions are not limited.
HealthScoreUnlimited(critical, letters, recent) ==
    LET off == (IF critical > 0 THEN 20 * critical ELSE 0)
                 + (IF letters > 100 THEN letters - 100 ELSE 0)
                 + (IF recent > 10 THEN 4 * (recent - 10) ELSE 0)
    IN  IF off > 200 THEN 0 ELSE 200 - off

\* The score of get_health_status, in halves.
HealthScore(critical, letters, recent) ==
    200 - Least(20 * critical, 60)
        - (IF letters > 100 THEN Least(letters - 100, 40) ELSE 0)
        - (IF recent > 10 THEN Least(4 * (recent - 10), 40) ELSE 0)

GetHealthStatus ==
    \E critical \in Criticals, letters \in Undelivered, recent \in Recents :
        LET score == HealthScore(critical, letters, recent)
        IN  Told([of |-> "health",
                  status |-> CASE score >= 180 -> "healthy"
                               [] score >= 140 /\ score < 180 -> "degraded"
                               [] score >= 100 /\ score < 140 -> "unhealthy"
                               [] OTHER -> "critical",
                  warnings |-> (IF critical = 0 THEN {} ELSE {"critical_errors"})
                                 \cup (IF letters < 100 THEN {} ELSE {"dead_letter_queue"})
                                 \cup (IF recent < 10 THEN {} ELSE {"recent_errors"})])

-----------------------------------------------------------------------------
ReportsNext == GetHistogramStats \/ GetHealthStatus

ReportsSpec == ReportsInit /\ [][ReportsNext]_answer

-----------------------------------------------------------------------------
(* What holds of the reports.                                              *)

\* The percentiles of a histogram of any size are values of it, in their order.
PercentilesOrdered ==
    answer.of = "histogram" =>
        /\ answer.place[4] <= answer.count
        /\ \A n \in 1 .. 3 : answer.place[n] <= answer.place[n + 1]

\* The status is healthy when no check warns, and critical only when all three do: no
\* one or two of them are enough, however high their counts.
HealthFitsChecks ==
    answer.of = "health" =>
        /\ answer.warnings = {} => answer.status = "healthy"
        /\ answer.status = "critical" =>
              answer.warnings = {"critical_errors", "dead_letter_queue", "recent_errors"}
=============================================================================
