------------------------------ MODULE Reporting ------------------------------
(***************************************************************************)
(* The pages that draw results over time (src/web/src/pages:               *)
(* StatisticsPage, ComparisonPage, DashboardPage) and the aggregation they *)
(* ask the server for (src/internal/statistics/service.go).  A page turns  *)
(* its inputs and the settings into the parameters of one query; the cache *)
(* keeps an answer for each parameters; the page draws the answer for the  *)
(* parameters of the moment.  The average of a metric is represented by    *)
(* the results it is taken over; the other aggregates, which are taken     *)
(* over the same ones, are left out.  The filters of the statistics page   *)
(* other than the interface, and weeks, months and years, are like the     *)
(* ones modelled.                                                          *)
(***************************************************************************)
EXTENDS ReportingCalendar, Sequences, Functions

CONSTANTS
  Runs,          \* results [id, at, wan, task, status, version, values, low] that may be
                 \* measured: values, the metrics with one that is not negative;
                 \* low, those of them that are below 100 000 bit/s
  Offered,       \* metrics that the statistics page offers
  Instants,      \* readings of the clock, in hours
  Dates,         \* dates the inputs offer
  Ranges,        \* lengths of a period, in days
  WanList,       \* the interfaces, in the order they are listed
  DefaultPaths,  \* how many are compared unless chosen
  SettingsRows,  \* settings [zone, days] the server may hold
  Fallback,      \* the ones used until they have been fetched
  MaxInputs, MaxTroubles,
  None

\* What the proofs assume of the constants.
ConstantsTyped ==
  /\ Instants \subseteq Int /\ Dates \subseteq Int /\ Ranges \subseteq Int
  /\ \A r \in Runs : r.at \in Int /\ r.id \in Int
  /\ \A r, s \in Runs : r.id = s.id => r = s
  /\ SettingsRows \cup {Fallback} \subseteq [zone : TimeZones, days : Int]

VARIABLES
  \* the server
  stored,
  \* the page
  kind,                    \* which page it is
  now, asOf,
  settings,                \* in the query cache
  days, dates,             \* choices that override the settings, or None
  selected, dimension, granularity, metric,
  crashed,                 \* rendering threw: the page is blank
  \* the query cache
  cache,     \* answers [key, basis]: basis is the results it was computed from
  fetches,   \* keys that are being fetched
  failed,    \* keys in error
  unseen,    \* an event of a result is on its way
  \* history
  inputs, troubles

choices == <<days, dates, selected, dimension, granularity, metric>>
queries == <<cache, fetches, failed>>
vars == <<stored, kind, now, asOf, settings, choices, crashed, queries, unseen, inputs, troubles>>

-----------------------------------------------------------------------------
(* The parameters of the query *)

Wans == Range(WanList)

\* The statistics page takes its default dates from the UTC calendar.
datesForRange(instant, n) ==
  [from |-> (instant - n * Hours) \div Hours, to |-> instant \div Hours]

shownDates == IF dates # None THEN dates ELSE datesForRange(asOf, settings.days)
shownDays == IF days # None THEN days ELSE settings.days
firstPaths == Range(SubSeq(WanList, 1, DefaultPaths))
selectedWan == IF selected # {} THEN selected ELSE firstPaths

shownWans ==
  CASE kind = "statistics" -> selected
    [] kind = "comparison" -> selectedWan
    [] kind = "dashboard" -> {}

groupedBy ==
  CASE kind = "statistics" -> dimension
    [] kind = "comparison" -> "interface"
    [] kind = "dashboard" -> "task"

shownGranularity ==
  CASE kind = "statistics" -> granularity
    [] kind = "comparison" -> "day"
    [] kind = "dashboard" -> "raw"

rollingRange == [from |-> asOf - shownDays * Hours, to |-> asOf]

statsParams ==
  LET range == IF kind = "statistics"
               THEN reportingDateRange(shownDates.from, shownDates.to, settings.zone)
               ELSE rollingRange
  IN  [from |-> range.from, to |-> range.to, zone |-> settings.zone, wans |-> shownWans,
       groupBy |-> groupedBy, granularity |-> shownGranularity, metric |-> metric]

-----------------------------------------------------------------------------
(* The server *)

comparisonGroup(r, by) ==
  CASE by = "none" -> "all" [] by = "interface" -> r.wan [] by = "task" -> r.task

\* With raw granularity every result is a bucket of its own.
describeBucket(r, q) ==
  IF q.granularity = "raw"
  THEN [start |-> r.at, result |-> r.id]
  ELSE [start |-> startOfDay(LocalDate(r.at, q.zone), q.zone), result |-> 0]

\* normalizeQuery: an empty range is an error.
Rejected(q) == q.to <= q.from

\* The results of every group and bucket.
Query(q, results) ==
  LET counted == {r \in results : /\ q.from <= r.at /\ r.at < q.to
                                  /\ q.wans = {} \/ r.wan \in q.wans}
      group(g) == {r \in counted : comparisonGroup(r, q.groupBy) = g}
  IN  [g \in {comparisonGroup(r, q.groupBy) : r \in counted} |->
         [b \in {describeBucket(r, q) : r \in group(g)} |->
            {r \in group(g) : describeBucket(r, q) = b}]]

\* Throughput of versions with another unit or method is not averaged.
throughputMetricCompatible(r, m) ==
  /\ ~(r.version = "cloudflare-v1" /\ m = "upload")
  /\ ~(r.version = "librespeed-v1" /\ m \in r.low)

\* The metrics a result counts for.  A test that failed took its time, too.
add(r, m) ==
  CASE m = "duration" -> m \in r.values /\ r.status \in {"succeeded", "failed", "cancelled"}
    [] m = "successRate" -> r.status \in {"succeeded", "failed"}
    [] m \in {"download", "upload"} ->
         r.status = "succeeded" /\ throughputMetricCompatible(r, m) /\ m \in r.values
    [] OTHER -> r.status = "succeeded" /\ m \in r.values

-----------------------------------------------------------------------------
(* What the page draws *)

\* The results an average is over; of none it is null.  Where no test was
\* completed the rate is taken over all, and is zero.
average(bucket, m) ==
  LET counted == {r \in bucket : add(r, m)}
  IN  IF m = "successRate" /\ counted = {} THEN bucket ELSE counted

\* comparisonOption, and statisticsOption with groups: all lines share the axis
\* of all buckets; where a line has none, it has a gap.  A map from the starts
\* keeps the last of the buckets of a line that have the same one.
aligned(series, m) ==
  LET axis == UNION {{b.start : b \in DOMAIN series[g]} : g \in DOMAIN series}
      byTimestamp(g, at) == {b \in DOMAIN series[g] : b.start = at}
      last(bs) == CHOOSE b \in bs : \A c \in bs : c.result <= b.result
      data(g, at) == IF byTimestamp(g, at) = {} THEN {}
                     ELSE average(series[g][last(byTimestamp(g, at))], m)
  IN  UNION {{[line |-> g, metric |-> m, at |-> at, of |-> data(g, at)] : at \in axis} :
               g \in DOMAIN series}

\* throughputOption, and statisticsOption without groups: every bucket is a
\* point of its own.
metricPoints(series, m) ==
  UNION {{[line |-> g, metric |-> m, at |-> b.start, of |-> average(series[g][b], m)] :
            b \in DOMAIN series[g]} : g \in DOMAIN series}

drawnMetrics ==
  CASE kind = "statistics" -> {metric}
    [] kind = "comparison" -> {"download", "upload", "latency"}
    [] kind = "dashboard" -> {"download", "upload"}

sharesAxis == kind = "comparison" \/ (kind = "statistics" /\ dimension # "none")

chartOption(series) ==
  UNION {{p \in (IF sharesAxis THEN aligned(series, m) ELSE metricPoints(series, m)) :
            p.of # {}} : m \in drawnMetrics}

-----------------------------------------------------------------------------
(* The query cache *)

Cached(key) == {e \in cache : e.key = key}

\* A page is opened; the tests that were started before have completed.
Init ==
  /\ kind \in {"statistics", "comparison", "dashboard"}
  /\ now \in Instants /\ asOf = now
  /\ stored = {r \in Runs : r.at < now}
  /\ settings = Fallback
  /\ days = None /\ dates = None
  /\ selected = {} /\ dimension = "none" /\ granularity = "day" /\ metric = "download"
  /\ crashed = FALSE
  /\ cache = {} /\ failed = {}
  /\ fetches = {statsParams}
  /\ unseen = FALSE
  /\ inputs = 0 /\ troubles = 0

\* Other parameters are another query: it is fetched unless its answer is in
\* the cache and young enough.  A fetch of the previous one goes on.
Observe ==
  LET key == statsParams'
      last == statsParams
  IN  \/ /\ key # last
         /\ fetches' = fetches \cup {key}
      \/ /\ key = last \/ Cached(key) # {}
         /\ UNCHANGED fetches

Refetch == fetches' = fetches \cup {statsParams}

\* What the server answers; nothing when it refuses the parameters.
GetStatistics(key) == IF Rejected(key) THEN {} ELSE {[key |-> key, basis |-> stored]}

\* An answer that is older when it arrives differs only in its basis.
Answered(key) ==
  /\ fetches' = fetches \ {key}
  /\ IF GetStatistics(key) = {}
     THEN failed' = failed \cup {key} /\ UNCHANGED cache
     ELSE /\ failed' = failed \ {key}
          /\ cache' = (cache \ Cached(key)) \cup GetStatistics(key)
  /\ UNCHANGED <<stored, kind, now, asOf, settings, choices, crashed, unseen, inputs, troubles>>

Fails(key) ==
  /\ troubles < MaxTroubles /\ troubles' = troubles + 1
  /\ fetches' = fetches \ {key} /\ failed' = failed \cup {key}
  /\ UNCHANGED <<stored, kind, now, asOf, settings, choices, crashed, cache, unseen, inputs>>

\* Refresh, and Try again.
Retry ==
  /\ ~crashed
  /\ \/ kind = "statistics" /\ statsParams \notin fetches
     \/ statsParams \in failed
  /\ Refetch
  /\ UNCHANGED <<stored, kind, now, asOf, settings, choices, crashed, cache, failed, unseen,
                 inputs, troubles>>

EventArrives ==
  /\ unseen /\ ~crashed
  /\ unseen' = FALSE
  /\ Refetch
  /\ UNCHANGED <<stored, kind, now, asOf, settings, choices, crashed, cache, failed, inputs,
                 troubles>>

-----------------------------------------------------------------------------
(* The world *)

Tick ==
  /\ now' \in Instants /\ now' > now
  /\ UNCHANGED <<stored, kind, asOf, settings, choices, crashed, queries, unseen, inputs,
                 troubles>>

\* A test that started at r.at completes.
Complete(r) ==
  /\ r \notin stored /\ r.at <= now
  /\ stored' = stored \cup {r}
  /\ unseen' = TRUE
  /\ UNCHANGED <<kind, now, asOf, settings, choices, crashed, queries, inputs, troubles>>

-----------------------------------------------------------------------------
(* The inputs *)

\* A choice that is made again changes nothing and is left out.
Input == ~crashed /\ inputs < MaxInputs /\ inputs' = inputs + 1
Elsewhere == UNCHANGED <<stored, kind, now, crashed, cache, failed, unseen, troubles>>

\* The settings are fetched, the first time or after somebody changed them.
SettingsArrive(s) ==
  /\ Input
  /\ s # settings /\ settings' = s
  /\ UNCHANGED <<asOf, choices>> /\ Elsewhere
  /\ Observe

PickDates(from, to) ==
  /\ kind = "statistics" /\ Input
  /\ from = shownDates.from \/ to = shownDates.to
  /\ dates' = [from |-> from, to |-> to]
  /\ UNCHANGED <<asOf, settings, days, selected, dimension, granularity, metric>> /\ Elsewhere
  /\ Observe

\* An emptied date cannot be read; the exception ends the page.
ClearDate ==
  /\ kind = "statistics" /\ Input
  /\ crashed' = TRUE
  /\ UNCHANGED <<stored, kind, now, asOf, settings, choices, queries, unseen, troubles>>

\* A period ends at the moment it is chosen.
PickPeriod(n) ==
  /\ kind # "statistics" /\ Input
  /\ days' = n /\ asOf' = now
  /\ UNCHANGED <<settings, dates, selected, dimension, granularity, metric>> /\ Elsewhere
  /\ Observe

ToggleWan(w) ==
  LET base == IF kind = "comparison" THEN selectedWan ELSE selected
  IN  /\ kind # "dashboard" /\ Input
      /\ selected' = IF w \in base THEN base \ {w} ELSE base \cup {w}
      /\ UNCHANGED <<asOf, settings, days, dates, dimension, granularity, metric>> /\ Elsewhere
      /\ Observe

PickDimension(by) ==
  /\ kind = "statistics" /\ Input
  /\ by # dimension /\ dimension' = by
  /\ UNCHANGED <<asOf, settings, days, dates, selected, granularity, metric>> /\ Elsewhere
  /\ Observe

PickGranularity(unit) ==
  /\ kind = "statistics" /\ Input
  /\ unit # granularity /\ granularity' = unit
  /\ UNCHANGED <<asOf, settings, days, dates, selected, dimension, metric>> /\ Elsewhere
  /\ Observe

\* The server is asked again, although it does not read the metric.
PickMetric(m) ==
  /\ kind = "statistics" /\ Input
  /\ m # metric /\ metric' = m
  /\ UNCHANGED <<asOf, settings, days, dates, selected, dimension, granularity>> /\ Elsewhere
  /\ Observe

clearDimensions ==
  /\ kind = "statistics" /\ Input
  /\ selected # {} \/ dimension # "none"
  /\ selected' = {} /\ dimension' = "none"
  /\ UNCHANGED <<asOf, settings, days, dates, granularity, metric>> /\ Elsewhere
  /\ Observe

Next ==
  \/ \E key \in fetches : Answered(key) \/ Fails(key)
  \/ Retry \/ EventArrives
  \/ Tick
  \/ \E r \in Runs : Complete(r)
  \/ \E s \in SettingsRows : SettingsArrive(s)
  \/ \E from, to \in Dates : PickDates(from, to)
  \/ ClearDate
  \/ \E n \in Ranges : PickPeriod(n)
  \/ \E w \in Wans : ToggleWan(w)
  \/ \E by \in {"none", "interface", "task"} : PickDimension(by)
  \/ \E unit \in {"raw", "day"} : PickGranularity(unit)
  \/ \E m \in Offered : PickMetric(m)
  \/ clearDimensions

Spec == Init /\ [][Next]_vars

-----------------------------------------------------------------------------
(* Properties *)

Displayed == ~crashed /\ statsParams \notin failed /\ Cached(statsParams) # {}
basis == LET key == statsParams IN (CHOOSE e \in cache : e.key = key).basis
chart == chartOption(Query(statsParams, basis))
hasChartData == DOMAIN Query(statsParams, basis) # {}

\* The date, or with raw granularity the instant, a point stands for.
Column(t) == IF shownGranularity = "raw" THEN t ELSE LocalDate(t, settings.zone)

\* What the reader of the page takes the chart to be about.
Asked(r) ==
  /\ IF kind = "statistics"
     THEN LocalDate(r.at, settings.zone) \in shownDates.from..shownDates.to
     ELSE asOf - shownDays * Hours <= r.at /\ r.at < asOf
  /\ shownWans = {} \/ r.wan \in shownWans

\* The clocks are changed at midnight neither of a date in the report nor of one
\* at which its range begins or ends.
MidnightsComeOnce ==
  /\ kind = "statistics" => \A d \in {shownDates.from, shownDates.to + 1} :
                              SingleMidnight(d, settings.zone)
  /\ \A r \in basis : Asked(r) => SingleMidnight(LocalDate(r.at, settings.zone), settings.zone)

line(r) == comparisonGroup(r, groupedBy)

\* No two results that share a line and an axis began at the same instant.
InstantsDiffer ==
  sharesAxis /\ shownGranularity = "raw" =>
    \A q, r \in basis : Asked(q) /\ Asked(r) /\ line(q) = line(r) /\ q.at = r.at => q = r

\* What the reader takes a metric to be about: measurements that are right, the
\* time a test took, whatever came of it, and the tests that were completed.
Meaningful(r, m) ==
  /\ r.status \in (CASE m = "duration" -> {"succeeded", "failed", "cancelled"}
                     [] m = "successRate" -> {"succeeded", "failed"}
                     [] OTHER -> {"succeeded"})
  /\ m = "successRate" \/ m \in r.values
  /\ r.version = "cloudflare-v1" => m # "upload"
  /\ r.version = "librespeed-v1" /\ m \in {"download", "upload"} => m \notin r.low

\* Results that are drawn as one point.
Together(q, r) ==
  /\ line(q) = line(r)
  /\ IF shownGranularity = "raw" THEN q = r ELSE Column(q.at) = Column(r.at)

\* Where a rate is drawn, some test was completed.
RatesHaveTests ==
  "successRate" \in drawnMetrics =>
    LET asked == {r \in basis : Asked(r)}
    IN  \A r \in asked : \E q \in asked : Together(q, r) /\ Meaningful(q, "successRate")

\* The chart on the screen is about the inputs and the timezone on the screen:
\* of the results that were stored when the answer was computed and that the
\* dates, the period and the interfaces ask for, it shows every one that means
\* something for a metric it draws, in its line, at its date or on its own, and no
\* other; whichever inputs were changed while older answers were on their way.
\* Three cases in which it does not hold are excepted: dates of a result or at an
\* end of the range at whose midnight the clocks are changed, two results of one
\* instant and line on a common axis, and rates where no test was completed.
ReportIsExact ==
  (Displayed /\ MidnightsComeOnce /\ InstantsDiffer /\ RatesHaveTests) =>
    LET asked == {r \in basis : Asked(r)}
        points == chart
        point(r, m) == [line |-> line(r), metric |-> m, column |-> Column(r.at),
                        of |-> {q \in asked : Together(q, r) /\ Meaningful(q, m)}]
    IN  /\ {[line |-> p.line, metric |-> p.metric, column |-> Column(p.at), of |-> p.of] :
              p \in points}
             = {p \in {point(r, m) : r \in asked, m \in drawnMetrics} : p.of # {}}
        /\ \A p, q \in points : p.metric = q.metric /\ p.of \cap q.of # {} => p = q

\* "Successful tests will appear here as soon as a task completes": while the
\* dashboard says so in the place of its timeline and nothing is under way, no
\* test of the chosen period has succeeded.
TestsAppear ==
  (kind = "dashboard" /\ Displayed /\ ~hasChartData /\ fetches = {} /\ ~unseen)
    => ~\E r \in stored : r.status = "succeeded" /\ now - shownDays * Hours <= r.at
=============================================================================
