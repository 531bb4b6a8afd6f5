--------------------------- MODULE Services_proofs ---------------------------
(***************************************************************************)
(* Theorems about what the process remembers and reports of its work       *)
(* (Telemetry, Reports), and about all the components around the engine as *)
(* they are composed in MCServices: the composition implements each of     *)
(* them, and so what is proved of each holds of all.                       *)
(***************************************************************************)
EXTENDS MCServices, TencentClient_proofs, ConnectionPool_proofs, Configurations_proofs,
        ConnectionConfigs_proofs, Tables_proofs

-----------------------------------------------------------------------------
(* Reports.                                                                *)

LEMMA PlaceIs ==
    ASSUME NEW count \in Nat, count # 0
    PROVE  /\ Percentile(count, 50, 0) <= Percentile(count, 90, 10)
           /\ Percentile(count, 90, 10) <= Percentile(count, 95, 20)
           /\ Percentile(count, 95, 20) <= Percentile(count, 99, 100)
           /\ Percentile(count, 99, 100) <= count
<1>1. PICK a, b, c, d \in Nat :
         /\ a = (count * 50) \div 100 /\ 2 * a <= count
         /\ b = (count * 90) \div 100 /\ 10 * b <= 9 * count /\ 9 * count < 10 * b + 10
         /\ c = (count * 95) \div 100 /\ 20 * c <= 19 * count /\ 19 * count < 20 * c + 20
         /\ d = (count * 99) \div 100 /\ 100 * d <= 99 * count /\ 99 * count < 100 * d + 100
  OBVIOUS
<1>2. /\ Percentile(count, 50, 0) = a + 1
      /\ Percentile(count, 90, 10) = IF count >= 10 THEN b + 1 ELSE count
      /\ Percentile(count, 95, 20) = IF count >= 20 THEN c + 1 ELSE count
      /\ Percentile(count, 99, 100) = IF count >= 100 THEN d + 1 ELSE count
  BY <1>1 DEF Percentile
<1> QED
  BY <1>1, <1>2

\* Every answer a route gives is as the properties say.
ReportsOK == ReportsTypeOK /\ PercentilesOrdered /\ HealthFitsChecks

LEMMA HistogramStep == GetHistogramStats => ReportsOK'
<1> SUFFICES ASSUME GetHistogramStats PROVE ReportsOK'
  OBVIOUS
<1>1. PICK count \in Samples :
         answer' = [of |-> "histogram", count |-> count,
                    place |-> <<Percentile(count, 50, 0), Percentile(count, 90, 10),
                                Percentile(count, 95, 20), Percentile(count, 99, 100)>>]
  BY DEF GetHistogramStats, Told
<1>2. count \in Nat /\ count # 0
  BY ReportsAssumption
<1>3. /\ answer'.of = "histogram" /\ answer'.count = count
      /\ answer'.place[1] = Percentile(count, 50, 0)
      /\ answer'.place[2] = Percentile(count, 90, 10)
      /\ answer'.place[3] = Percentile(count, 95, 20)
      /\ answer'.place[4] = Percentile(count, 99, 100)
  BY <1>1
<1>4. /\ answer'.place[4] <= answer'.count
      /\ answer'.place[1] <= answer'.place[1 + 1]
      /\ answer'.place[2] <= answer'.place[2 + 1]
      /\ answer'.place[3] <= answer'.place[3 + 1]
  BY <1>2, <1>3, PlaceIs
<1>5. \A n \in 1 .. 3 : answer'.place[n] <= answer'.place[n + 1]
  <2> SUFFICES ASSUME NEW n \in 1 .. 3 PROVE answer'.place[n] <= answer'.place[n + 1]
    OBVIOUS
  <2>1. n = 1 \/ n = 2 \/ n = 3
    OBVIOUS
  <2> QED
    BY <1>4, <2>1
<1> QED
  BY <1>3, <1>4, <1>5 DEF ReportsOK, ReportsTypeOK, PercentilesOrdered, HealthFitsChecks

LEMMA ScoreIs ==
    ASSUME NEW critical \in Nat, NEW letters \in Nat, NEW recent \in Nat
    PROVE  /\ HealthScore(critical, letters, recent) \in Nat
           /\ critical = 0 /\ letters < 100 /\ recent < 10 =>
                 HealthScore(critical, letters, recent) = 200
           /\ critical = 0 \/ letters < 100 \/ recent < 10 =>
                 HealthScore(critical, letters, recent) >= 100
<1>1. PICK a \in 0 .. 60 : a = Least(20 * critical, 60) /\ (critical = 0 => a = 0)
  BY DEF Least
<1>2. PICK b \in 0 .. 40 : /\ b = IF letters > 100 THEN Least(letters - 100, 40) ELSE 0
                           /\ letters < 100 => b = 0
  BY DEF Least
<1>3. PICK c \in 0 .. 40 : /\ c = IF recent > 10 THEN Least(4 * (recent - 10), 40) ELSE 0
                           /\ recent < 10 => c = 0
  BY DEF Least
<1>4. HealthScore(critical, letters, recent) = 200 - a - b - c
  BY <1>1, <1>2, <1>3 DEF HealthScore
<1> QED
  BY <1>1, <1>2, <1>3, <1>4

LEMMA HealthStep == GetHealthStatus => ReportsOK'
<1> SUFFICES ASSUME GetHealthStatus PROVE ReportsOK'
  OBVIOUS
<1>1. PICK critical \in Criticals, letters \in Undelivered, recent \in Recents :
        LET score == HealthScore(critical, letters, recent)
        IN  Told([of |-> "health",
                  status |-> CASE score >= 180 -> "healthy"
                               [] score >= 140 /\ score < 180 -> "degraded"
                               [] score >= 100 /\ score < 140 -> "unhealthy"
                               [] OTHER -> "critical",
                  warnings |-> (IF critical = 0 THEN {} ELSE {"critical_errors"})
                                 \cup (IF letters < 100 THEN {} ELSE {"dead_letter_queue"})
                                 \cup (IF recent < 10 THEN {} ELSE {"recent_errors"})])
  BY DEF GetHealthStatus
<1> DEFINE score == HealthScore(critical, letters, recent)
           status == CASE score >= 180 -> "healthy"
                       [] score >= 140 /\ score < 180 -> "degraded"
                       [] score >= 100 /\ score < 140 -> "unhealthy"
                       [] OTHER -> "critical"
           warnings == (IF critical = 0 THEN {} ELSE {"critical_errors"})
                         \cup (IF letters < 100 THEN {} ELSE {"dead_letter_queue"})
                         \cup (IF recent < 10 THEN {} ELSE {"recent_errors"})
<1>2. answer' = [of |-> "health", status |-> status, warnings |-> warnings]
  BY <1>1 DEF Told
<1>3. critical \in Nat /\ letters \in Nat /\ recent \in Nat
  BY ReportsAssumption
<1>4. /\ score \in Nat
      /\ critical = 0 /\ letters < 100 /\ recent < 10 => score = 200
      /\ critical = 0 \/ letters < 100 \/ recent < 10 => score >= 100
  BY <1>3, ScoreIs
<1> HIDE DEF score
<1>5. score = 200 => status = "healthy"
  BY <1>4
<1>6. score >= 100 => status # "critical"
  BY <1>4
<1>7. /\ warnings = {} => critical = 0 /\ letters < 100 /\ recent < 10
      /\ ~ (critical = 0) /\ ~ (letters < 100) /\ ~ (recent < 10) =>
            warnings = {"critical_errors", "dead_letter_queue", "recent_errors"}
  OBVIOUS
<1> HIDE DEF status, warnings
<1>8. /\ answer'.of = "health" /\ answer'.status = status /\ answer'.warnings = warnings
  BY <1>2
<1> QED
  BY <1>4, <1>5, <1>6, <1>7, <1>8
  DEF ReportsOK, ReportsTypeOK, PercentilesOrdered, HealthFitsChecks

\* The routes answer nothing that is not as it should be.
THEOREM ReportsInvariant == ReportsSpec => []ReportsOK
<1>1. ReportsInit => ReportsOK
  BY DEF ReportsInit, ReportsOK, ReportsTypeOK, PercentilesOrdered, HealthFitsChecks
<1>2. ReportsOK /\ [ReportsNext]_answer => ReportsOK'
  <2>1. ReportsOK /\ UNCHANGED answer => ReportsOK'
    BY DEF ReportsOK, ReportsTypeOK, PercentilesOrdered, HealthFitsChecks
  <2> QED
    BY <2>1, HistogramStep, HealthStep DEF ReportsNext
<1> QED
  BY <1>1, <1>2, PTL DEF ReportsSpec

\* For histograms of any size, each percentile is one of its values, and no lower
\* percentile comes after a higher one.
THEOREM PercentilesInOrder == ReportsSpec => []PercentilesOrdered
<1>1. ReportsOK => PercentilesOrdered
  BY DEF ReportsOK
<1> QED
  BY <1>1, ReportsInvariant, PTL

\* However many errors and undelivered items there are, the status fits the checks.
THEOREM HealthFits == ReportsSpec => []HealthFitsChecks
<1>1. ReportsOK => HealthFitsChecks
  BY DEF ReportsOK
<1> QED
  BY <1>1, ReportsInvariant, PTL

-----------------------------------------------------------------------------
(* Ends of lists.                                                          *)

\* r is s without some of its first elements.
IsEnd(r, s) ==
    /\ Len(r) <= Len(s)
    /\ \A i \in 1 .. Len(r) : r[i] = s[Len(s) - Len(r) + i]

LEMMA LatestIs ==
    ASSUME NEW T, NEW s \in Seq(T), NEW n \in Nat, n # 0
    PROVE  /\ Latest(s, n) \in Seq(T)
           /\ Len(Latest(s, n)) = IF Len(s) > n THEN n ELSE Len(s)
           /\ IsEnd(Latest(s, n), s)
<1> DEFINE l == Len(s)
           r == Latest(s, n)
<1>1. l \in Nat
  OBVIOUS
<1>2. CASE l > n
  <2>1. r = SubSeq(s, l - n + 1, l)
    BY <1>2 DEF Latest
  <2>2. PICK b \in 1 .. l : b = l - n + 1
    BY <1>1, <1>2
  <2>3. r \in Seq(T) /\ Len(r) = n /\ \A i \in 1 .. n : r[i] = s[b + i - 1]
    BY <1>1, <1>2, <2>1, <2>2
  <2>4. \A i \in 1 .. n : r[i] = s[l - n + i]
    <3> SUFFICES ASSUME NEW i \in 1 .. n PROVE r[i] = s[l - n + i]
      OBVIOUS
    <3>1. r[i] = s[b + i - 1]
      BY <2>3
    <3>2. b + i - 1 = l - n + i
      BY <1>1, <2>2
    <3> QED
      BY <3>1, <3>2
  <2> HIDE DEF r, l
  <2>5. \A i \in 1 .. Len(r) : r[i] = s[l - Len(r) + i]
    BY <2>3, <2>4
  <2>6. IsEnd(r, s)
    BY <1>1, <1>2, <2>3, <2>5 DEF IsEnd, l
  <2> QED
    BY <1>2, <2>3, <2>6 DEF r, l
<1>3. CASE ~ (l > n)
  <2>1. r = s
    BY <1>3 DEF Latest
  <2>2. \A i \in 1 .. l : l - l + i = i
    BY <1>1
  <2> QED
    BY <1>1, <1>3, <2>1, <2>2 DEF IsEnd
<1> QED
  BY <1>2, <1>3

-----------------------------------------------------------------------------
(* Counters.                                                               *)

\* The points at x or later are the last c ones.
IsCount(s, x, c) ==
    /\ c \in 0 .. Len(s)
    /\ \A n \in 1 .. Len(s) : s[n] >= x <=> n > Len(s) - c

LEMMA CountIsCardinality ==
    ASSUME NEW s \in Seq(Nat), NEW x \in Nat, NEW c, IsCount(s, x, c)
    PROVE  Cardinality({n \in DOMAIN s : s[n] >= x}) = c
<1> DEFINE l == Len(s)
<1>1. l \in Nat /\ c \in 0 .. l /\ DOMAIN s = 1 .. l
  BY DEF IsCount
<1>2. {n \in DOMAIN s : s[n] >= x} = l - c + 1 .. l
  BY <1>1 DEF IsCount
<1>3. l - c + 1 \in Int /\ l \in Int
  BY <1>1
<1>4. Cardinality(l - c + 1 .. l) = IF l - c + 1 > l THEN 0 ELSE l - (l - c + 1) + 1
  BY <1>3, FS_Interval
<1>5. (IF l - c + 1 > l THEN 0 ELSE l - (l - c + 1) + 1) = c
  BY <1>1
<1> QED
  BY <1>2, <1>4, <1>5

\* One point more, and the cut.
LEMMA CountAppend ==
    ASSUME NEW s \in Seq(Nat), NEW t \in Nat, NEW x \in Nat, x <= t, NEW c,
           IsCount(s, x, c), NEW max \in Nat, max # 0, Len(s) <= max
    PROVE  IsCount(Latest(Append(s, t), max), x, IF c + 1 > max THEN max ELSE c + 1)
<1> DEFINE l == Len(s)
           a == Append(s, t)
           r == Latest(a, max)
           d == IF c + 1 > max THEN max ELSE c + 1
<1>1. l \in Nat /\ c \in 0 .. l /\ \A n \in 1 .. l : s[n] >= x <=> n > l - c
  BY DEF IsCount
<1>2. a \in Seq(Nat) /\ Len(a) = l + 1 /\ a[l + 1] = t /\ \A n \in 1 .. l : a[n] = s[n]
  OBVIOUS
<1> HIDE DEF a
<1>3. /\ r \in Seq(Nat) /\ Len(r) = IF l + 1 > max THEN max ELSE l + 1
      /\ IsEnd(r, a)
  BY <1>2, LatestIs
<1> HIDE DEF r
<1>4. \A n \in 1 .. l + 1 : a[n] >= x <=> n > l - c
  <2> SUFFICES ASSUME NEW n \in 1 .. l + 1 PROVE a[n] >= x <=> n > l - c
    OBVIOUS
  <2>1. CASE n \in 1 .. l
    BY <1>1, <1>2, <2>1
  <2>2. CASE n = l + 1
    BY <1>1, <1>2, <2>2
  <2> QED
    BY <1>1, <2>1, <2>2
<1>5. d \in 0 .. Len(r)
  BY <1>1, <1>3
<1>6. ASSUME NEW n \in 1 .. Len(r) PROVE r[n] >= x <=> n > Len(r) - d
  <2>1. PICK h \in Nat : h = Len(r) /\ h = (IF l + 1 > max THEN max ELSE l + 1)
    BY <1>1, <1>3
  <2>2. PICK k \in 1 .. l + 1 : k = l + 1 - h + n
    <3>1. n \in 1 .. h /\ h <= l + 1
      BY <1>1, <2>1
    <3>2. l + 1 - h + n \in 1 .. l + 1
      BY <1>1, <2>1, <3>1
    <3> QED
      BY <3>2
  <2>3. r[n] = a[k]
    <3>1. r[n] = a[Len(a) - Len(r) + n]
      BY <1>3 DEF IsEnd
    <3>2. Len(a) - Len(r) + n = k
      BY <1>2, <2>1, <2>2
    <3> QED
      BY <3>1, <3>2
  <2>4. r[n] >= x <=> k > l - c
    BY <1>4, <2>2, <2>3
  <2>5. k > l - c <=> n > h - d
    <3>1. CASE l + 1 > max
      <4>1. l = max /\ h = max /\ k = n + 1
        <5>1. l = max
          BY <1>1, <3>1
        <5>2. h = max
          BY <2>1, <3>1
        <5> QED
          BY <1>1, <2>2, <5>1, <5>2
      <4>2. CASE c + 1 > max
        BY <1>1, <4>1, <4>2
      <4>3. CASE ~ (c + 1 > max)
        BY <1>1, <4>1, <4>3
      <4> QED
        BY <4>2, <4>3
    <3>2. CASE ~ (l + 1 > max)
      <4>1. h = l + 1 /\ k = n /\ d = c + 1
        BY <1>1, <2>1, <2>2, <3>2
      <4> QED
        BY <1>1, <4>1
    <3> QED
      BY <3>1, <3>2
  <2> QED
    BY <2>1, <2>4, <2>5
<1> QED
  BY <1>5, <1>6 DEF IsCount, d, r, a

LEMMA CountNone ==
    ASSUME NEW s \in Seq(Nat), NEW x \in Nat, \A n \in 1 .. Len(s) : s[n] < x
    PROVE  IsCount(s, x, 0)
<1>1. Len(s) \in Nat /\ \A n \in 1 .. Len(s) : s[n] \in Nat
  OBVIOUS
<1> QED
  BY <1>1 DEF IsCount

\* Whatever the hour began with, the counts bound each other.
Balanced(p, x) ==
    \E total, success, failed \in Nat :
        /\ IsCount(p["sync_total"], x, total)
        /\ IsCount(p["sync_success_total"], x, success)
        /\ IsCount(p["sync_failure_total"], x, failed)
        /\ total <= success + failed
        /\ NoMoreThan(total, success, failed) /\ NoMoreThan(total, failed, success)

\* What is known of the audit log alone, at time t with l events logged.
IsLog(e, l, t) ==
    /\ e \in Seq(Event) /\ Len(e) <= MaxEvents
    /\ \A n \in 1 .. Len(e) : e[n].at <= t
    /\ \A m, n \in 1 .. Len(e) : m < n => e[m].at <= e[n].at
    /\ \A n \in 1 .. Len(e) : e[n].number = l - (Len(e) - n)

\* What is known of the points of the counters.
IsPoints(p, t) ==
    /\ p \in [Counters -> Seq(0 .. MaxTime)]
    /\ \A m \in Counters : Len(p[m]) <= MaxPoints
    /\ \A m \in Counters : \A n \in 1 .. Len(p[m]) : p[m][n] <= t
    /\ \A x \in Nat : Balanced(p, x)

\* Points and events are not of the future, and a route that runs has one event left to
\* log, which is why the numbers of the log stay within those of the synchronisations.
TelemetryInv ==
    /\ IsPoints(points, time) /\ IsLog(events, logged, time)
    /\ logged + running <= 2 * syncs /\ running <= syncs
    /\ logged \in 0 .. 2 * MaxSyncs /\ {syncs, running} \subseteq 0 .. MaxSyncs
    /\ time \in 0 .. MaxTime

\* It is the type invariant, the order of the events, and what the counts need.
LEMMA TelemetryParts == TelemetryInv => TelemetryTypeOK /\ EventsAreNewest
<1>1. events \in Seq(Event) => DOMAIN events = 1 .. Len(events)
  OBVIOUS
<1> QED
  BY <1>1 DEF TelemetryInv, TelemetryTypeOK, IsPoints, IsLog, EventsAreNewest

LEMMA TelemetryConstants ==
    /\ MaxPoints \in Nat /\ MaxPoints # 0 /\ MaxEvents \in Nat /\ MaxEvents # 0
    /\ MaxTime \in Nat /\ MaxSyncs \in Nat /\ Window \in Nat
BY TelemetryAssumption

LEMMA EmptyPoints == ASSUME NEW t \in Nat PROVE IsPoints([m \in Counters |-> <<>>], t)
<1> DEFINE p == [m \in Counters |-> <<>>]
<1>1. p \in [Counters -> Seq(0 .. MaxTime)] /\ \A m \in Counters : p[m] = <<>>
  OBVIOUS
<1>2. \A x \in Nat : IsCount(<<>>, x, 0)
  BY DEF IsCount
<1>3. \A x \in Nat : Balanced(p, x)
  <2>1. 0 <= 0 + 0 /\ NoMoreThan(0, 0, 0)
    BY DEF NoMoreThan
  <2> QED
    BY <1>1, <1>2, <2>1 DEF Balanced, Counters
<1> HIDE DEF p
<1> QED
  BY <1>1, <1>3, TelemetryConstants DEF IsPoints, p

LEMMA EmptyLog == ASSUME NEW t, NEW l PROVE IsLog(<<>>, l, t)
BY TelemetryConstants DEF IsLog

-----------------------------------------------------------------------------
(* Telemetry, step by step.                                                *)

LEMMA LogEventStep ==
    ASSUME NEW t \in 0 .. MaxTime, IsLog(events, logged, t), LogEvent(t),
           logged \in Nat, logged < 2 * MaxSyncs
    PROVE  IsLog(events', logged', t) /\ logged' = logged + 1
<1> DEFINE e == [number |-> logged', at |-> t]
           a == Append(events, e)
           l == Len(events)
           r == events'
<1>1. logged' = logged + 1 /\ r = Latest(a, MaxEvents)
  BY DEF LogEvent
<1>2. e \in Event /\ e.at = t /\ e.number = logged + 1
  BY <1>1, TelemetryConstants DEF Event
<1>3. /\ events \in Seq(Event) /\ l \in Nat /\ l <= MaxEvents
      /\ \A n \in 1 .. l : events[n].at <= t
      /\ \A m, n \in 1 .. l : m < n => events[m].at <= events[n].at
      /\ \A n \in 1 .. l : events[n].number = logged - (l - n)
  <2>1. /\ events \in Seq(Event) /\ l <= MaxEvents
        /\ \A n \in 1 .. l : events[n].at <= t
        /\ \A m, n \in 1 .. l : m < n => events[m].at <= events[n].at
        /\ \A n \in 1 .. l : events[n].number = logged - (l - n)
    BY Zenon DEF IsLog
  <2>2. l \in Nat
    BY <2>1
  <2> QED
    BY <2>1, <2>2
<1> HIDE DEF e
<1>4. a \in Seq(Event) /\ Len(a) = l + 1 /\ a[l + 1] = e /\ \A n \in 1 .. l : a[n] = events[n]
  BY <1>2, <1>3
<1> HIDE DEF a, l
<1>5. \A n \in 1 .. l + 1 : n \in 1 .. l \/ n = l + 1
  BY <1>3
<1>6. \A n \in 1 .. l + 1 : a[n].at <= t
  BY <1>2, <1>3, <1>4, <1>5, TelemetryConstants
<1>7. \A m, n \in 1 .. l + 1 : m < n => a[m].at <= a[n].at
  <2> SUFFICES ASSUME NEW m \in 1 .. l + 1, NEW n \in 1 .. l + 1, m < n
               PROVE  a[m].at <= a[n].at
    OBVIOUS
  <2>1. m \in 1 .. l /\ a[m] = events[m]
    BY <1>3, <1>4
  <2>2. CASE n \in 1 .. l
    <3>1. events[m].at <= events[n].at /\ a[n] = events[n]
      BY <1>3, <1>4, <2>1, <2>2
    <3> QED
      BY <2>1, <3>1
  <2>3. CASE n = l + 1
    <3>1. events[m].at <= t
      BY <1>3, <2>1
    <3>2. a[n].at = t
      BY <1>2, <1>4, <2>3
    <3> QED
      BY <2>1, <3>1, <3>2
  <2> QED
    BY <1>5, <2>2, <2>3
<1>8. \A n \in 1 .. l + 1 : a[n].number = logged + 1 - (l + 1 - n)
  <2> SUFFICES ASSUME NEW n \in 1 .. l + 1
               PROVE  a[n].number = logged + 1 - (l + 1 - n)
    OBVIOUS
  <2>1. CASE n \in 1 .. l
    <3>1. a[n].number = logged - (l - n)
      BY <1>3, <1>4, <2>1
    <3> QED
      BY <1>3, <3>1
  <2>2. CASE n = l + 1
    <3>1. a[n].number = logged + 1
      BY <1>2, <1>4, <2>2
    <3> QED
      BY <1>3, <2>2, <3>1
  <2> QED
    BY <1>5, <2>1, <2>2
<1>9. r \in Seq(Event) /\ Len(r) <= MaxEvents /\ IsEnd(r, a)
  <2>1. /\ r \in Seq(Event) /\ Len(r) = (IF l + 1 > MaxEvents THEN MaxEvents ELSE l + 1)
        /\ IsEnd(r, a)
    BY <1>1, <1>4, TelemetryConstants, LatestIs
  <2> QED
    BY <1>3, <2>1, TelemetryConstants
<1> HIDE DEF r
<1>10. \A n \in 1 .. Len(r) :
          /\ l + 1 - Len(r) + n \in 1 .. l + 1 /\ r[n] = a[l + 1 - Len(r) + n]
  BY <1>3, <1>4, <1>9 DEF IsEnd
<1>11. \A n \in 1 .. Len(r) : r[n].at <= t
  BY <1>6, <1>10
<1>12. \A m, n \in 1 .. Len(r) : m < n => r[m].at <= r[n].at
  <2> SUFFICES ASSUME NEW m \in 1 .. Len(r), NEW n \in 1 .. Len(r), m < n
               PROVE  r[m].at <= r[n].at
    OBVIOUS
  <2>1. PICK j \in 1 .. l + 1 : j = l + 1 - Len(r) + m /\ r[m] = a[j]
    BY <1>10
  <2>2. PICK k \in 1 .. l + 1 : k = l + 1 - Len(r) + n /\ r[n] = a[k]
    BY <1>10
  <2>3. j < k
    BY <1>3, <1>9, <2>1, <2>2
  <2>4. a[j].at <= a[k].at
    BY <1>7, <2>3
  <2> QED
    BY <2>1, <2>2, <2>4
<1>13. \A n \in 1 .. Len(r) : r[n].number = logged + 1 - (Len(r) - n)
  <2> SUFFICES ASSUME NEW n \in 1 .. Len(r) PROVE r[n].number = logged + 1 - (Len(r) - n)
    OBVIOUS
  <2>1. PICK k \in 1 .. l + 1 : k = l + 1 - Len(r) + n /\ r[n] = a[k]
    BY <1>10
  <2>2. a[k].number = logged + 1 - (l + 1 - k)
    BY <1>8
  <2>3. Len(r) \in Nat /\ l + 1 - k = Len(r) - n
    BY <1>3, <1>9, <2>1
  <2> QED
    BY <2>1, <2>2, <2>3
<1> QED
  BY <1>1, <1>9, <1>11, <1>12, <1>13 DEF IsLog, r

LEMMA ClearStep ==
    ASSUME IsLog(events, logged, time), logged \in Nat, NEW before \in Nat
    PROVE  IsLog(Those(events, {e \in Event : e.at >= before}), logged, time)
<1> DEFINE S == {e \in Event : e.at >= before}
           r == Those(events, S)
           l == Len(events)
<1>1. /\ events \in Seq(Event) /\ l \in Nat /\ l <= MaxEvents
      /\ \A n \in 1 .. l : events[n].at <= time
      /\ \A m, n \in 1 .. l : m < n => events[m].at <= events[n].at
      /\ \A n \in 1 .. l : events[n].number = logged - (l - n)
  BY DEF IsLog
<1>2. \A n \in 1 .. l : events[n] \in Event /\ events[n].at \in Nat
  <2> SUFFICES ASSUME NEW n \in 1 .. l PROVE events[n] \in Event /\ events[n].at \in Nat
    OBVIOUS
  <2>1. events[n] \in Event
    BY <1>1
  <2>2. events[n].at \in 0 .. MaxTime
    BY <2>1 DEF Event
  <2> QED
    BY <2>1, <2>2, TelemetryConstants
<1>3. \A m, n \in 1 .. l : m < n /\ events[m] \in S => events[n] \in S
  <2> SUFFICES ASSUME NEW m \in 1 .. l, NEW n \in 1 .. l, m < n, events[m] \in S
               PROVE  events[n] \in S
    OBVIOUS
  <2>1. events[m].at >= before /\ events[m].at <= events[n].at
    BY <1>1
  <2>2. events[n] \in Event /\ events[m].at \in Nat /\ events[n].at \in Nat
    BY <1>2
  <2> QED
    BY <2>1, <2>2
<1> HIDE DEF S
<1>4. Len(r) <= l /\ \A i \in 1 .. Len(r) : r[i] = events[l - Len(r) + i]
  BY <1>1, <1>3, ThoseSuffix
<1>5. r \in Seq(Event)
  BY <1>1, ThoseType
<1> HIDE DEF r, l
<1>6. Len(r) \in Nat
  BY <1>5
<1>7. \A n \in 1 .. Len(r) :
         l - Len(r) + n \in 1 .. l /\ r[n] = events[l - Len(r) + n]
  BY <1>1, <1>4, <1>6
<1>8. \A n \in 1 .. Len(r) : r[n].at <= time
  BY <1>1, <1>7
<1>9. \A m, n \in 1 .. Len(r) : m < n => r[m].at <= r[n].at
  <2> SUFFICES ASSUME NEW m \in 1 .. Len(r), NEW n \in 1 .. Len(r), m < n
               PROVE  r[m].at <= r[n].at
    OBVIOUS
  <2>1. PICK j \in 1 .. l : j = l - Len(r) + m /\ r[m] = events[j]
    BY <1>7
  <2>2. PICK k \in 1 .. l : k = l - Len(r) + n /\ r[n] = events[k]
    BY <1>7
  <2>3. j < k
    BY <1>1, <1>6, <2>1, <2>2
  <2>4. events[j].at <= events[k].at
    BY <1>1, <2>3
  <2> QED
    BY <2>1, <2>2, <2>4
<1>10. \A n \in 1 .. Len(r) : r[n].number = logged - (Len(r) - n)
  <2> SUFFICES ASSUME NEW n \in 1 .. Len(r) PROVE r[n].number = logged - (Len(r) - n)
    OBVIOUS
  <2>1. PICK k \in 1 .. l : k = l - Len(r) + n /\ r[n] = events[k]
    BY <1>7
  <2>2. events[k].number = logged - (l - k)
    BY <1>1
  <2>3. l - k = Len(r) - n
    BY <1>1, <1>6, <2>1
  <2> QED
    BY <2>1, <2>2, <2>3
<1>11. Len(r) <= MaxEvents
  BY <1>1, <1>4, <1>6, TelemetryConstants
<1> QED
  BY <1>5, <1>8, <1>9, <1>10, <1>11 DEF IsLog, r, S

\* One point more in a counter, and the cut.
LEMMA CounterGrows ==
    ASSUME NEW s \in Seq(0 .. MaxTime), Len(s) <= MaxPoints, NEW t \in 0 .. MaxTime,
           \A n \in 1 .. Len(s) : s[n] <= t
    PROVE  /\ Latest(Append(s, t), MaxPoints) \in Seq(0 .. MaxTime)
           /\ Len(Latest(Append(s, t), MaxPoints)) <= MaxPoints
           /\ \A n \in 1 .. Len(Latest(Append(s, t), MaxPoints)) :
                 Latest(Append(s, t), MaxPoints)[n] <= t
<1> DEFINE a == Append(s, t)
           r == Latest(a, MaxPoints)
           l == Len(s)
<1>1. a \in Seq(0 .. MaxTime) /\ l \in Nat /\ Len(a) = l + 1 /\ a[l + 1] = t
      /\ \A n \in 1 .. l : a[n] = s[n]
  OBVIOUS
<1> HIDE DEF a, l
<1>2. \A n \in 1 .. l + 1 : a[n] <= t
  <2> SUFFICES ASSUME NEW n \in 1 .. l + 1 PROVE a[n] <= t
    OBVIOUS
  <2>1. n \in 1 .. l \/ n = l + 1
    BY <1>1
  <2>2. t <= t /\ \A i \in 1 .. l : s[i] <= t
    BY TelemetryConstants DEF l
  <2> QED
    BY <1>1, <2>1, <2>2
<1>3. /\ r \in Seq(0 .. MaxTime)
      /\ Len(r) = (IF l + 1 > MaxPoints THEN MaxPoints ELSE l + 1)
      /\ IsEnd(r, a)
  BY <1>1, TelemetryConstants, LatestIs
<1> HIDE DEF r
<1>4. ASSUME NEW n \in 1 .. Len(r) PROVE r[n] <= t
  <2>1. PICK h \in Nat : h = Len(r) /\ h <= l + 1
    BY <1>1, <1>3, TelemetryConstants
  <2>2. r[n] = a[Len(a) - Len(r) + n]
    BY <1>3 DEF IsEnd
  <2>3. Len(a) - Len(r) + n \in 1 .. l + 1
    BY <1>1, <2>1
  <2> QED
    BY <1>2, <2>2, <2>3
<1>5. Len(r) <= MaxPoints
  BY <1>1, <1>3, TelemetryConstants
<1> QED
  BY <1>3, <1>4, <1>5 DEF r, a

LEMMA SeqOver ==
    ASSUME NEW T, NEW U, T \subseteq U, NEW s \in Seq(T)
    PROVE  s \in Seq(U) /\ Len(s) \in Nat /\ \A n \in 1 .. Len(s) : s[n] \in T
OBVIOUS

LEMMA Seqs ==
    ASSUME NEW s \in Seq(0 .. MaxTime)
    PROVE  s \in Seq(Nat) /\ Len(s) \in Nat /\ \A n \in 1 .. Len(s) : s[n] \in 0 .. MaxTime
<1> DEFINE T == 0 .. MaxTime
<1>1. T \subseteq Nat /\ s \in Seq(T)
  BY TelemetryConstants
<1> HIDE DEF T
<1>2. s \in Seq(Nat) /\ Len(s) \in Nat /\ \A n \in 1 .. Len(s) : s[n] \in T
  BY <1>1, SeqOver
<1> QED
  BY <1>2 DEF T

\* A synchronisation is counted as one and as one of its outcome.
LEMMA BalanceGrows ==
    ASSUME NEW max \in Nat, max # 0,
           NEW total \in 0 .. max, NEW one \in 0 .. max, NEW other \in 0 .. max,
           total <= one + other, NoMoreThan(total, one, other), NoMoreThan(total, other, one)
    PROVE  \E t, o \in Nat :
              /\ t = (IF total + 1 > max THEN max ELSE total + 1)
              /\ o = (IF one + 1 > max THEN max ELSE one + 1)
              /\ t <= o + other /\ NoMoreThan(t, o, other) /\ NoMoreThan(t, other, o)
BY DEF NoMoreThan

\* What is not of the future stays so.
LEMMA PointsLater ==
    ASSUME NEW p, NEW t \in 0 .. MaxTime, NEW u \in 0 .. MaxTime, t <= u, IsPoints(p, t)
    PROVE  IsPoints(p, u)
<1>1. ASSUME NEW m \in Counters, NEW n \in 1 .. Len(p[m]) PROVE p[m][n] <= u
  <2>1. p[m] \in Seq(0 .. MaxTime) /\ p[m][n] <= t
    BY DEF IsPoints
  <2>2. p[m][n] \in 0 .. MaxTime
    BY <2>1, Seqs
  <2> QED
    BY <2>1, <2>2, TelemetryConstants
<1> QED
  BY <1>1 DEF IsPoints

LEMMA LogLater ==
    ASSUME NEW t \in 0 .. MaxTime, NEW u \in 0 .. MaxTime, t <= u, IsLog(events, logged, t)
    PROVE  IsLog(events, logged, u)
<1>1. ASSUME NEW n \in 1 .. Len(events) PROVE events[n].at <= u
  <2>1. events[n] \in Event /\ events[n].at <= t
    BY DEF IsLog
  <2>2. events[n].at \in 0 .. MaxTime
    BY <2>1 DEF Event
  <2> QED
    BY <2>1, <2>2, TelemetryConstants
<1> QED
  BY <1>1 DEF IsLog

\* Points of which none is as late as x.
LEMMA NoneCounted ==
    ASSUME NEW s \in Seq(0 .. MaxTime), NEW t \in 0 .. MaxTime, NEW x \in Nat, ~ (x <= t),
           \A n \in 1 .. Len(s) : s[n] <= t
    PROVE  IsCount(s, x, 0)
<1>1. s \in Seq(Nat) /\ \A n \in 1 .. Len(s) : s[n] \in 0 .. MaxTime
  BY Seqs
<1>2. \A n \in 1 .. Len(s) : s[n] < x
  BY <1>1, TelemetryConstants
<1> QED
  BY <1>1, <1>2, CountNone

\* An hour that begins before both points counts both, one that begins after them none,
\* and one that begins in between counts the outcome alone, and nothing before it.
LEMMA RecordStep ==
    ASSUME IsPoints(points, time), time \in 0 .. MaxTime, NEW success \in BOOLEAN,
           NEW counted \in time .. MaxTime, RecordSync(success, counted)
    PROVE  IsPoints(points', counted)
<1> DEFINE one == IF success THEN "sync_success_total" ELSE "sync_failure_total"
           other == IF success THEN "sync_failure_total" ELSE "sync_success_total"
           Grown(s, t) == Latest(Append(s, t), MaxPoints)
<1>0. counted \in 0 .. MaxTime /\ time <= counted
  BY TelemetryConstants
<1>1. Counters = {"sync_total", one, other} /\ one # other /\ "sync_total" \notin {one, other}
  BY DEF Counters
<1>2. /\ points' \in [Counters -> {points'[m] : m \in Counters}]
      /\ points'["sync_total"] = Grown(points["sync_total"], time)
      /\ points'[one] = Grown(points[one], counted)
      /\ points'[other] = points[other]
  <2>1. points' = [points EXCEPT !["sync_total"] = Grown(points["sync_total"], time),
                                 ![one] = Grown(points[one], counted)]
    BY DEF RecordSync
  <2>2. points \in [Counters -> Seq(0 .. MaxTime)]
    BY DEF IsPoints
  <2> HIDE DEF one, other, Grown
  <2> QED
    BY <1>1, <2>1, <2>2
<1>3. \A m \in Counters :
        /\ points[m] \in Seq(0 .. MaxTime) /\ Len(points[m]) <= MaxPoints
        /\ \A n \in 1 .. Len(points[m]) : points[m][n] <= time
        /\ \A n \in 1 .. Len(points[m]) : points[m][n] <= counted
  BY <1>0, PointsLater DEF IsPoints
<1>4. ASSUME NEW m \in Counters, NEW t \in {time, counted}
      PROVE  /\ Grown(points[m], t) \in Seq(0 .. MaxTime)
             /\ Len(Grown(points[m], t)) <= MaxPoints
             /\ \A n \in 1 .. Len(Grown(points[m], t)) : Grown(points[m], t)[n] <= t
  <2>1. t \in 0 .. MaxTime /\ \A n \in 1 .. Len(points[m]) : points[m][n] <= t
    BY <1>0, <1>3
  <2> QED
    BY <1>3, <2>1, CounterGrows
<1>5. \A m \in Counters :
        /\ points'[m] \in Seq(0 .. MaxTime) /\ Len(points'[m]) <= MaxPoints
        /\ \A n \in 1 .. Len(points'[m]) : points'[m][n] <= counted
  <2>1. /\ points'["sync_total"] \in Seq(0 .. MaxTime)
        /\ Len(points'["sync_total"]) <= MaxPoints
        /\ \A n \in 1 .. Len(points'["sync_total"]) : points'["sync_total"][n] <= counted
    <3> DEFINE s == points'["sync_total"]
    <3>1. /\ s \in Seq(0 .. MaxTime) /\ Len(s) <= MaxPoints
          /\ \A n \in 1 .. Len(s) : s[n] <= time
      BY <1>1, <1>2, <1>4
    <3> HIDE DEF s
    <3>2. \A n \in 1 .. Len(s) : s[n] \in 0 .. MaxTime
      BY <3>1, Seqs
    <3>3. \A n \in 1 .. Len(s) : s[n] <= counted
      BY <1>0, <3>1, <3>2, TelemetryConstants
    <3> QED
      BY <3>1, <3>3 DEF s
  <2>2. /\ points'[one] \in Seq(0 .. MaxTime) /\ Len(points'[one]) <= MaxPoints
        /\ \A n \in 1 .. Len(points'[one]) : points'[one][n] <= counted
    <3> HIDE DEF one, other, Grown
    <3> QED
      BY <1>1, <1>2, <1>4
  <2> HIDE DEF one, other, Grown
  <2> QED
    BY <1>1, <1>2, <1>3, <2>1, <2>2
<1>6. points' \in [Counters -> Seq(0 .. MaxTime)]
  BY <1>2, <1>5
<1>7. ASSUME NEW x \in Nat PROVE Balanced(points', x)
  <2>1. CASE x <= time
    <3>1. PICK t, s, f \in Nat :
             /\ IsCount(points["sync_total"], x, t)
             /\ IsCount(points["sync_success_total"], x, s)
             /\ IsCount(points["sync_failure_total"], x, f)
             /\ t <= s + f /\ NoMoreThan(t, s, f) /\ NoMoreThan(t, f, s)
      BY DEF IsPoints, Balanced
    <3> DEFINE o == IF success THEN s ELSE f
               w == IF success THEN f ELSE s
    <3>2. /\ IsCount(points[one], x, o) /\ IsCount(points[other], x, w)
          /\ o \in Nat /\ w \in Nat
          /\ t <= o + w /\ NoMoreThan(t, o, w) /\ NoMoreThan(t, w, o)
      BY <3>1
    <3> HIDE DEF o, w
    <3>3. \A m \in Counters : points[m] \in Seq(Nat) /\ Len(points[m]) \in 0 .. MaxPoints
      BY <1>3, Seqs, TelemetryConstants
    <3>4. \A m \in Counters, c \in Nat : IsCount(points[m], x, c) => c \in 0 .. MaxPoints
      BY <3>3, TelemetryConstants DEF IsCount
    <3>5. "sync_total" \in Counters /\ one \in Counters /\ other \in Counters
      BY <1>1
    <3>6. time \in Nat /\ counted \in Nat /\ x <= counted
      BY <1>0, <2>1, TelemetryConstants
    <3> DEFINE Up(c) == IF c + 1 > MaxPoints THEN MaxPoints ELSE c + 1
    <3>7. IsCount(Grown(points["sync_total"], time), x, Up(t))
      BY <2>1, <3>1, <3>3, <3>5, <3>6, CountAppend, TelemetryConstants
    <3>8. IsCount(Grown(points[one], counted), x, Up(o))
      BY <3>2, <3>3, <3>5, <3>6, CountAppend, TelemetryConstants
    <3> HIDE DEF one, other, Grown
    <3>9. t \in 0 .. MaxPoints /\ o \in 0 .. MaxPoints /\ w \in 0 .. MaxPoints
      BY <3>1, <3>2, <3>4, <3>5
    <3>10. PICK u, v \in Nat :
             /\ u = Up(t) /\ v = Up(o)
             /\ u <= v + w /\ NoMoreThan(u, v, w) /\ NoMoreThan(u, w, v)
      BY <3>2, <3>9, BalanceGrows, TelemetryConstants
    <3> HIDE DEF Up
    <3>11. /\ IsCount(points'["sync_total"], x, u) /\ IsCount(points'[one], x, v)
           /\ IsCount(points'[other], x, w)
      BY <1>2, <3>2, <3>7, <3>8, <3>10
    <3>12. CASE success
      <4>1. one = "sync_success_total" /\ other = "sync_failure_total"
        BY <3>12 DEF one, other
      <4> QED
        BY <3>2, <3>10, <3>11, <4>1 DEF Balanced
    <3>13. CASE ~ success
      <4>1. one = "sync_failure_total" /\ other = "sync_success_total"
        BY <3>13 DEF one, other
      <4>2. u <= w + v
        BY <3>2, <3>10
      <4> QED
        BY <3>2, <3>10, <3>11, <4>1, <4>2 DEF Balanced
    <3> QED
      BY <3>12, <3>13
  <2>2. CASE ~ (x <= time) /\ x <= counted
    <3>1. \A m \in Counters : IsCount(points[m], x, 0)
      BY <1>3, <2>2, NoneCounted
    <3>2. IsCount(points'["sync_total"], x, 0)
      <4> DEFINE s == points'["sync_total"]
      <4>1. s \in Seq(0 .. MaxTime) /\ \A n \in 1 .. Len(s) : s[n] <= time
        BY <1>1, <1>2, <1>4
      <4> HIDE DEF s
      <4>2. IsCount(s, x, 0)
        BY <2>2, <4>1, NoneCounted
      <4> QED
        BY <4>2 DEF s
    <3>3. IsCount(points'[one], x, 1)
      <4>1. points[one] \in Seq(Nat) /\ Len(points[one]) <= MaxPoints /\ IsCount(points[one], x, 0)
        BY <1>1, <1>3, <3>1, Seqs
      <4>2. counted \in Nat /\ x <= counted
        BY <1>0, <2>2, TelemetryConstants
      <4>3. IsCount(Grown(points[one], counted), x, IF 0 + 1 > MaxPoints THEN MaxPoints ELSE 0 + 1)
        BY <4>1, <4>2, CountAppend, TelemetryConstants
      <4>4. (IF 0 + 1 > MaxPoints THEN MaxPoints ELSE 0 + 1) = 1
        BY TelemetryConstants
      <4> HIDE DEF one, Grown
      <4> QED
        BY <1>2, <4>3, <4>4
    <3>4. IsCount(points'[other], x, 0)
      BY <1>1, <1>2, <3>1
    <3>5. /\ 0 <= 1 + 0 /\ 0 <= 0 + 1
          /\ NoMoreThan(0, 1, 0) /\ NoMoreThan(0, 0, 1)
      BY DEF NoMoreThan
    <3>6. CASE success
      <4>1. /\ IsCount(points'["sync_success_total"], x, 1)
            /\ IsCount(points'["sync_failure_total"], x, 0)
        BY <3>3, <3>4, <3>6
      <4> QED
        BY <3>2, <3>5, <4>1 DEF Balanced
    <3>7. CASE ~ success
      <4>1. /\ IsCount(points'["sync_success_total"], x, 0)
            /\ IsCount(points'["sync_failure_total"], x, 1)
        BY <3>3, <3>4, <3>7
      <4> QED
        BY <3>2, <3>5, <4>1 DEF Balanced
    <3> QED
      BY <3>6, <3>7
  <2>3. CASE ~ (x <= counted)
    <3>1. \A m \in Counters : IsCount(points'[m], x, 0)
      BY <1>0, <1>5, <2>3, NoneCounted
    <3>2. 0 <= 0 + 0 /\ NoMoreThan(0, 0, 0)
      BY DEF NoMoreThan
    <3> QED
      BY <3>1, <3>2 DEF Balanced, Counters
  <2> QED
    BY <2>1, <2>2, <2>3
<1> QED
  BY <1>5, <1>6, <1>7 DEF IsPoints

LEMMA PassStep == TelemetryInv /\ Pass => TelemetryInv'
<1> SUFFICES ASSUME TelemetryInv, Pass PROVE TelemetryInv'
  OBVIOUS
<1>1. /\ IsPoints(points, time) /\ IsLog(events, logged, time)
      /\ logged + running <= 2 * syncs /\ running <= syncs
      /\ logged \in 0 .. 2 * MaxSyncs /\ {syncs, running} \subseteq 0 .. MaxSyncs
      /\ time \in 0 .. MaxTime
  BY DEF TelemetryInv
<1>2. time' = time + 1 /\ time' \in 0 .. MaxTime /\ time <= time'
      /\ UNCHANGED <<points, events, logged, syncs, running>>
  BY <1>1, TelemetryConstants DEF Pass
<1>3. IsPoints(points, time') /\ IsLog(events, logged, time')
  BY <1>1, <1>2, PointsLater, LogLater
<1>4. /\ IsPoints(points', time') /\ IsLog(events', logged', time')
      /\ logged' + running' <= 2 * syncs' /\ running' <= syncs'
      /\ logged' \in 0 .. 2 * MaxSyncs /\ {syncs', running'} \subseteq 0 .. MaxSyncs
      /\ time' \in 0 .. MaxTime
  BY <1>1, <1>2, <1>3
<1> QED
  BY <1>4 DEF TelemetryInv

\* The other actions, but the scheduled job's, leave the clock alone.
LEMMA TelemetryStep == TelemetryInv /\ [TelemetryNext]_telemetryVars => TelemetryInv'
<1> SUFFICES ASSUME TelemetryInv, [TelemetryNext]_telemetryVars PROVE TelemetryInv'
  OBVIOUS
<1>1. /\ IsPoints(points, time) /\ IsLog(events, logged, time)
      /\ logged + running <= 2 * syncs /\ running <= syncs
      /\ logged \in 0 .. 2 * MaxSyncs /\ syncs \in 0 .. MaxSyncs /\ running \in 0 .. MaxSyncs
      /\ time \in 0 .. MaxTime
  BY DEF TelemetryInv
<1> DEFINE Numbers ==
              /\ logged' + running' <= 2 * syncs' /\ running' <= syncs'
              /\ logged' \in 0 .. 2 * MaxSyncs
              /\ syncs' \in 0 .. MaxSyncs /\ running' \in 0 .. MaxSyncs
<1>2. ASSUME IsPoints(points', time'), IsLog(events', logged', time'), Numbers,
             time' \in 0 .. MaxTime
      PROVE  TelemetryInv'
  BY <1>2 DEF TelemetryInv
<1>3. ASSUME NEW success \in BOOLEAN, RunScheduled(success) PROVE TelemetryInv'
  <2>1. syncs < MaxSyncs /\ syncs' = syncs + 1 /\ running' = running
    BY <1>3 DEF RunScheduled
  <2>2. PICK counted \in time .. MaxTime : \E over \in counted .. MaxTime :
           RecordSync(success, counted) /\ LogEvent(over) /\ time' = over
    BY <1>3 DEF RunScheduled
  <2>3. PICK over \in counted .. MaxTime :
           RecordSync(success, counted) /\ LogEvent(over) /\ time' = over
    BY <2>2
  <2>4. /\ counted \in 0 .. MaxTime /\ over \in 0 .. MaxTime
        /\ time <= over /\ counted <= over
    BY <1>1, TelemetryConstants
  <2>5. logged \in Nat /\ logged < 2 * MaxSyncs
    BY <1>1, <2>1, TelemetryConstants
  <2>6. IsPoints(points', over)
    <3>1. IsPoints(points', counted)
      BY <1>1, <2>3, RecordStep
    <3> QED
      BY <2>4, <3>1, PointsLater
  <2>7. IsLog(events', logged', over) /\ logged' = logged + 1
    <3>1. IsLog(events, logged, over)
      BY <1>1, <2>4, LogLater
    <3> QED
      BY <2>3, <2>4, <2>5, <3>1, LogEventStep
  <2>8. Numbers
    BY <1>1, <2>1, <2>7, TelemetryConstants
  <2> QED
    BY <1>2, <2>3, <2>4, <2>6, <2>7, <2>8
<1>4. CASE BeginRequested
  <2>1. /\ syncs < MaxSyncs /\ syncs' = syncs + 1 /\ running' = running + 1 /\ LogEvent(time)
        /\ UNCHANGED <<points, time>>
    BY <1>4 DEF BeginRequested
  <2>2. logged \in Nat /\ logged < 2 * MaxSyncs
    BY <1>1, <2>1, TelemetryConstants
  <2>3. IsLog(events', logged', time) /\ logged' = logged + 1
    BY <1>1, <2>1, <2>2, LogEventStep
  <2>4. Numbers
    BY <1>1, <2>1, <2>3, TelemetryConstants
  <2> QED
    BY <1>1, <1>2, <2>1, <2>3, <2>4
<1>5. CASE EndRequested
  <2>1. /\ running > 0 /\ running' = running - 1 /\ UNCHANGED <<points, syncs, time>>
        /\ LogEvent(time) \/ UNCHANGED <<events, logged>>
    BY <1>5 DEF EndRequested
  <2>2. CASE LogEvent(time)
    <3>1. logged \in Nat /\ logged < 2 * MaxSyncs
      BY <1>1, <2>1, TelemetryConstants
    <3>2. IsLog(events', logged', time) /\ logged' = logged + 1
      BY <1>1, <2>2, <3>1, LogEventStep
    <3>3. Numbers
      BY <1>1, <2>1, <3>2, TelemetryConstants
    <3> QED
      BY <1>1, <1>2, <2>1, <3>2, <3>3
  <2>3. CASE UNCHANGED <<events, logged>>
    <3>1. Numbers
      BY <1>1, <2>1, <2>3, TelemetryConstants
    <3> QED
      BY <1>1, <1>2, <2>1, <2>3, <3>1
  <2> QED
    BY <2>1, <2>2, <2>3
<1>6. CASE Pass
  BY <1>6, PassStep
<1>7. CASE ResetMetrics
  <2>1. IsPoints(points', time) /\ UNCHANGED <<events, logged, syncs, running, time>>
    BY <1>1, <1>7, EmptyPoints, TelemetryConstants DEF ResetMetrics
  <2> QED
    BY <1>1, <1>2, <2>1
<1>8. ASSUME NEW before \in 0 .. MaxTime, ClearOldEvents(before) PROVE TelemetryInv'
  <2>1. /\ events' = Those(events, {e \in Event : e.at >= before})
        /\ UNCHANGED <<points, logged, syncs, running, time>>
    BY <1>8 DEF ClearOldEvents
  <2>2. before \in Nat /\ logged \in Nat
    BY <1>1, TelemetryConstants
  <2>3. IsLog(events', logged', time)
    BY <1>1, <2>1, <2>2, ClearStep
  <2> QED
    BY <1>1, <1>2, <2>1, <2>3
<1>9. CASE UNCHANGED telemetryVars
  BY <1>1, <1>2, <1>9 DEF telemetryVars
<1> QED
  BY <1>3, <1>4, <1>5, <1>6, <1>7, <1>8, <1>9 DEF TelemetryNext

\* Counters, audit log and clock keep to the invariant over every cut, reset and clearing.
THEOREM TelemetryInvariant == TelemetrySpec => []TelemetryInv
<1>1. TelemetryInit => TelemetryInv
  <2> SUFFICES ASSUME TelemetryInit PROVE TelemetryInv
    OBVIOUS
  <2>1. /\ points = [m \in Counters |-> <<>>] /\ events = <<>>
        /\ logged = 0 /\ syncs = 0 /\ running = 0 /\ time = 0
    BY DEF TelemetryInit
  <2>2. IsPoints(points, time) /\ IsLog(events, logged, time)
    BY <2>1, EmptyPoints, EmptyLog
  <2>3. /\ logged + running <= 2 * syncs /\ running <= syncs
        /\ logged \in 0 .. 2 * MaxSyncs /\ {syncs, running} \subseteq 0 .. MaxSyncs
        /\ time \in 0 .. MaxTime
    BY <2>1, TelemetryConstants
  <2> QED
    BY <2>2, <2>3 DEF TelemetryInv
<1> QED
  BY <1>1, TelemetryStep, PTL DEF TelemetrySpec

\* Counters and audit log stay within their limits, and the log's numbers within those of
\* the synchronisations.
THEOREM TelemetryTypeCorrect == TelemetrySpec => []TelemetryTypeOK
<1>1. TelemetryInv => TelemetryTypeOK
  BY TelemetryParts
<1> QED
  BY <1>1, TelemetryInvariant, PTL

\* However many events are logged, cut and cleared, the audit log is the end of what it
\* was given.
THEOREM LogIsNewest == TelemetrySpec => []EventsAreNewest
<1>1. TelemetryInv => EventsAreNewest
  BY TelemetryParts
<1> QED
  BY <1>1, TelemetryInvariant, PTL

LEMMA HourCount ==
    ASSUME IsPoints(points, time), time \in 0 .. MaxTime, NEW m \in Counters, NEW c,
           IsCount(points[m], IF time >= Window THEN time - Window ELSE 0, c)
    PROVE  CounterValue(m) = c
<1>1. PICK x \in Nat : x = IF time >= Window THEN time - Window ELSE 0
  BY TelemetryConstants
<1>2. points[m] \in Seq(Nat) /\ \A n \in 1 .. Len(points[m]) : points[m][n] \in 0 .. MaxTime
  BY Seqs DEF IsPoints
<1>3. DOMAIN points[m] = 1 .. Len(points[m])
  BY <1>2
<1>4. \A n \in DOMAIN points[m] : points[m][n] + Window >= time <=> points[m][n] >= x
  <2> SUFFICES ASSUME NEW n \in DOMAIN points[m]
               PROVE  points[m][n] + Window >= time <=> points[m][n] >= x
    OBVIOUS
  <2>1. PICK k \in Nat : k = points[m][n]
    BY <1>2, <1>3, TelemetryConstants
  <2>2. time \in Nat /\ Window \in Nat
    BY TelemetryConstants
  <2>3. k + Window >= time <=> k >= x
    BY <1>1, <2>2
  <2> QED
    BY <2>1, <2>3
<1>5. Cardinality({n \in DOMAIN points[m] : points[m][n] >= x}) = c
  BY <1>1, <1>2, CountIsCardinality
<1> QED
  BY <1>4, <1>5 DEF CounterValue

\* However often the counters are cut at their limit or reset, and wherever the hour
\* begins, a rate is above 100 percent by one synchronisation at most, whose total is
\* before the hour, and none is counted without an outcome.
THEOREM RatesAreBounded == TelemetrySpec => []RatesBounded
<1>1. TelemetryInv => RatesBounded
  <2> SUFFICES ASSUME TelemetryInv PROVE RatesBounded
    OBVIOUS
  <2>1. IsPoints(points, time) /\ time \in 0 .. MaxTime
    BY DEF TelemetryInv
  <2>2. PICK x \in Nat : x = IF time >= Window THEN time - Window ELSE 0
    <3>1. time \in Nat /\ Window \in Nat
      BY <2>1, TelemetryConstants
    <3>2. (IF time >= Window THEN time - Window ELSE 0) \in Nat
      BY <3>1
    <3> QED
      BY <3>2
  <2>3. Balanced(points, x)
    BY <2>1 DEF IsPoints
  <2>4. PICK t, s, f \in Nat :
           /\ IsCount(points["sync_total"], x, t)
           /\ IsCount(points["sync_success_total"], x, s)
           /\ IsCount(points["sync_failure_total"], x, f)
           /\ t <= s + f /\ NoMoreThan(t, s, f) /\ NoMoreThan(t, f, s)
    BY <2>3 DEF Balanced
  <2>5. /\ CounterValue("sync_total") = t
        /\ CounterValue("sync_success_total") = s
        /\ CounterValue("sync_failure_total") = f
    BY <2>1, <2>2, <2>4, HourCount DEF Counters
  <2> QED
    BY <2>4, <2>5 DEF RatesBounded
<1> QED
  BY <1>1, TelemetryInvariant, PTL

-----------------------------------------------------------------------------
(* All together.                                                           *)

LEMMA OthersAtRest ==
    OthersRest =>
        /\ part = "client" \/ UNCHANGED clientVars
        /\ part = "pool" \/ UNCHANGED poolVars
        /\ part = "configs" \/ UNCHANGED configVars
        /\ part = "saved" \/ UNCHANGED savedVars
        /\ part = "mapping" \/ UNCHANGED mappingVars
        /\ part = "validation" \/ UNCHANGED validationVars
        /\ part = "batches" \/ UNCHANGED batchVars
        /\ part = "telemetry" \/ UNCHANGED telemetryVars
        /\ part = "reports" \/ UNCHANGED answer
BY DEF OthersRest, Rest

\* A step of the whole is a step of each component, or leaves it alone.
LEMMA PartsStep ==
    [Next]_servicesVars =>
        /\ [ClientNext]_clientVars
        /\ [PoolNext]_poolVars
        /\ [ConfigNext]_configVars
        /\ [SavedNext]_savedVars
        /\ [MappingNext]_mappingVars
        /\ [ValidationNext]_validationVars
        /\ [BatchNext]_batchVars
        /\ [TelemetryNext]_telemetryVars
        /\ [ReportsNext]_answer
<1>1. CASE UNCHANGED servicesVars
  BY <1>1 DEF servicesVars
<1>2. CASE Next
  BY <1>2, OthersAtRest DEF Next
<1> QED
  BY <1>1, <1>2

\* What the components' specifications allow is all that the composition does.
THEOREM PartsImplemented ==
    Spec => /\ ClientSpec /\ PoolSpec /\ ConfigSpec /\ SavedSpec /\ MappingSpec
            /\ ValidationSpec /\ BatchSpec /\ TelemetrySpec /\ ReportsSpec
<1>1. Init => /\ ClientInit /\ PoolInit /\ ConfigInit /\ SavedInit /\ MappingInit
              /\ ValidationInit /\ BatchInit /\ TelemetryInit /\ ReportsInit
  BY DEF Init
<1> QED
  BY <1>1, PartsStep, PTL
  DEF Spec, ClientSpec, PoolSpec, ConfigSpec, SavedSpec, MappingSpec, ValidationSpec,
      BatchSpec, TelemetrySpec, ReportsSpec

\* Every variable of every component keeps its type, for any constants.
THEOREM ServicesTypeCorrect == Spec => []ServicesTypeOK
<1>1. ConfigInv => ConfigTypeOK
  BY DEF ConfigInv
<1>2. ReportsOK => ReportsTypeOK
  BY DEF ReportsOK
<1>3. (/\ ClientTypeOK /\ PoolTypeOK /\ ConfigTypeOK /\ SavedTypeOK /\ MappingTypeOK
       /\ ValidationTypeOK /\ BatchTypeOK /\ TelemetryTypeOK /\ ReportsTypeOK)
        => ServicesTypeOK
  BY DEF ServicesTypeOK
<1> QED
  BY <1>1, <1>2, <1>3, PartsImplemented, ClientTypeCorrect, PoolTypeCorrect, ConfigSpecInv,
     TypeCorrect, MappingTypeCorrect, ValidationTypeCorrect, BatchTypeCorrect,
     TelemetryTypeCorrect, ReportsInvariant, PTL
=============================================================================
