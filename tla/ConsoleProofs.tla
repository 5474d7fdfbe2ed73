----------------------------- MODULE ConsoleProofs -----------------------------
(***************************************************************************)
(* Proofs about the pages of the web console other than the task editor:   *)
(* the charts (Reporting) and the days they are drawn by                   *)
(* (ReportingCalendar), the settings page (SettingsConsole), the list of   *)
(* results (ResultList), the network page (NetworkConsole) and the list of *)
(* tasks (TaskList).  A page keeps its state to itself: each has an        *)
(* invariant of its own, which holds while the page is mounted.            *)
(***************************************************************************)
EXTENDS WebConsole, FiniteSetTheorems, TLAPS

-----------------------------------------------------------------------------
(* The days of a timezone *)

LEMMA OffsetType ==
  ASSUME NEW z \in Charts!TimeZones, NEW t \in Int
  PROVE  /\ z.before \in Int /\ z.after \in Int /\ z.at \in Int
         /\ Charts!Offset(t, z) \in {z.before, z.after}
         /\ Charts!Local(t, z) \in Int
  BY DEF Charts!TimeZones, Charts!Offset, Charts!Local

\* The four corrections of zonedMidnight give what the two lookups of Go's
\* time.Date give: the boundaries the browser asks for are the ones the server
\* sorts results by, also on days on which the clocks are changed at midnight.
THEOREM MidnightsAgree ==
  ASSUME NEW date \in Int, NEW z \in Charts!TimeZones
  PROVE  Charts!zonedMidnight(date, z) = Charts!startOfDay(date, z)
<1> DEFINE d == date * Charts!Hours
           adjusted(guess) == d - Charts!Offset(guess, z)
<1>1. d \in Int /\ z.before \in Int /\ z.after \in Int /\ z.at \in Int
  BY DEF Charts!TimeZones, Charts!Hours
<1>2. \A g \in Int : adjusted(g) = IF g < z.at THEN d - z.before ELSE d - z.after
  BY DEF Charts!Offset
<1>3. \A g \in Int : adjusted(g) \in Int
  BY <1>1, <1>2
<1>4. adjusted(adjusted(adjusted(adjusted(d)))) = adjusted(adjusted(d))
  <2> DEFINE b == d - z.before
             a == d - z.after
  <2>1. b \in Int /\ a \in Int
    BY <1>1
  <2>2. adjusted(d) \in {a, b}
    BY <1>1, <1>2
  <2>3. adjusted(a) \in {a, b} /\ adjusted(b) \in {a, b}
    BY <1>2, <2>1
  <2> HIDE DEF adjusted, a, b
  <2> QED
    BY <2>2, <2>3
<1>5. Charts!zonedMidnight(date, z) = adjusted(adjusted(adjusted(adjusted(d))))
  BY DEF Charts!zonedMidnight
<1>6. Charts!startOfDay(date, z) = adjusted(adjusted(d))
  BY DEF Charts!startOfDay
<1> QED
  BY <1>4, <1>5, <1>6

\* Where midnight comes exactly once, it is what zonedMidnight returns.
LEMMA MidnightFound ==
  ASSUME NEW date \in Int, NEW z \in Charts!TimeZones, Charts!SingleMidnight(date, z)
  PROVE  /\ Charts!zonedMidnight(date, z) \in Int
         /\ Charts!Midnights(date, z) = {Charts!zonedMidnight(date, z)}
<1> DEFINE d == date * Charts!Hours
<1>1. d \in Int /\ z.before \in Int /\ z.after \in Int /\ z.at \in Int
  BY DEF Charts!TimeZones, Charts!Hours
<1>2. PICK m \in {d - z.before, d - z.after} : Charts!Midnights(date, z) = {m}
  BY DEF Charts!SingleMidnight, Charts!Midnights
<1>3. m \in Int /\ m + Charts!Offset(m, z) = d
  BY <1>1, <1>2 DEF Charts!Midnights, Charts!Local
<1>4. \A n \in {d - z.before, d - z.after} : n + Charts!Offset(n, z) = d => n = m
  BY <1>2 DEF Charts!Midnights, Charts!Local
<1>5. Charts!startOfDay(date, z) = m
  BY <1>1, <1>2, <1>3, <1>4 DEF Charts!startOfDay, Charts!Offset
<1> QED
  BY <1>2, <1>3, <1>5, MidnightsAgree

\* The instants from a single midnight on are those whose local time is the
\* date's or later.
LEMMA MidnightDivides ==
  ASSUME NEW date \in Int, NEW z \in Charts!TimeZones, Charts!SingleMidnight(date, z), NEW t \in Int
  PROVE  Charts!zonedMidnight(date, z) <= t <=> date <= Charts!LocalDate(t, z)
<1> DEFINE d == date * Charts!Hours
           m == Charts!zonedMidnight(date, z)
<1>1. d \in Int /\ z.before \in Int /\ z.after \in Int /\ z.at \in Int
  BY DEF Charts!TimeZones, Charts!Hours
<1>2. m \in Int /\ m + Charts!Offset(m, z) = d
  BY MidnightFound DEF Charts!Midnights, Charts!Local
<1>3. \A n \in {d - z.before, d - z.after} : n + Charts!Offset(n, z) = d => n = m
  BY MidnightFound DEF Charts!Midnights, Charts!Local
<1> HIDE DEF m
<1>4. m <= t <=> d <= Charts!Local(t, z)
  BY <1>1, <1>2, <1>3 DEF Charts!Local, Charts!Offset
<1>5. Charts!Local(t, z) \in Int
  BY OffsetType
<1>6. d <= Charts!Local(t, z) <=> date <= Charts!LocalDate(t, z)
  BY <1>5 DEF Charts!LocalDate, Charts!Hours
<1> QED
  BY <1>4, <1>6 DEF m

\* The range a statistics report asks for holds exactly the instants whose
\* local date is one of the dates of the page, unless the clocks are changed at
\* the midnight of the first date or of the one after the last.
THEOREM RangeIsExact ==
  ASSUME NEW from \in Int, NEW to \in Int, NEW z \in Charts!TimeZones, NEW t \in Int,
         Charts!SingleMidnight(from, z), Charts!SingleMidnight(to + 1, z)
  PROVE  LET range == Charts!reportingDateRange(from, to, z)
         IN  (range.from <= t /\ t < range.to) <=> Charts!LocalDate(t, z) \in from .. to
<1>1. Charts!zonedMidnight(from, z) <= t <=> from <= Charts!LocalDate(t, z)
  BY MidnightDivides
<1>2. Charts!zonedMidnight(to + 1, z) <= t <=> to + 1 <= Charts!LocalDate(t, z)
  BY MidnightDivides
<1>3. Charts!zonedMidnight(to + 1, z) \in Int
  BY MidnightFound
<1>4. Charts!LocalDate(t, z) \in Int
  <2>1. Charts!Local(t, z) \in Int
    BY OffsetType
  <2> QED
    BY <2>1 DEF Charts!LocalDate, Charts!Hours
<1> QED
  BY <1>1, <1>2, <1>3, <1>4 DEF Charts!reportingDateRange

-----------------------------------------------------------------------------
(* The charts *)

ReportTyped ==
  /\ kind \in {"statistics", "comparison", "dashboard"}
  /\ now \in Int /\ asOf \in Int
  /\ settings \in [zone : Charts!TimeZones, days : Int]
  /\ days \in Ranges \cup {None}
  /\ dates \in [from : Int, to : Int] \cup {None}
  /\ storedRows \subseteq Runs
  /\ \A e \in queryCache : e.basis \subseteq Runs

LEMMA ReportInit ==
  ASSUME Charts!ConstantsTyped, Charts!Init
  PROVE  ReportTyped
  BY DEF Charts!ConstantsTyped, Charts!Init, ReportTyped

\* No step leaves the types; an answer is computed from results that were run.
LEMMA ReportStep ==
  ASSUME Charts!ConstantsTyped, ReportTyped, Charts!Next
  PROVE  ReportTyped'
<1> USE DEF ReportTyped
<1>1. ASSUME NEW key \in fetches, Charts!Answered(key)
      PROVE  ReportTyped'
  <2>1. \A e \in Charts!GetStatistics(key) : e.basis \subseteq Runs
    BY DEF Charts!GetStatistics
  <2>2. queryCache' \subseteq queryCache \cup Charts!GetStatistics(key)
    BY <1>1 DEF Charts!Answered
  <2> QED
    BY <1>1, <2>1, <2>2 DEF Charts!Answered, Charts!choices
<1>2. ASSUME NEW key \in fetches, Charts!Fails(key)
      PROVE  ReportTyped'
  BY <1>2 DEF Charts!Fails, Charts!choices
<1>3. CASE Charts!Retry \/ Charts!EventArrives
  BY <1>3 DEF Charts!Retry, Charts!EventArrives, Charts!choices
<1>4. CASE Charts!Tick
  BY <1>4 DEF Charts!Tick, Charts!choices, Charts!queries, Charts!ConstantsTyped
<1>5. ASSUME NEW r \in Runs, Charts!Complete(r)
      PROVE  ReportTyped'
  BY <1>5 DEF Charts!Complete, Charts!choices, Charts!queries
<1>6. ASSUME NEW s \in SettingsRows, Charts!SettingsArrive(s)
      PROVE  ReportTyped'
  BY <1>6 DEF Charts!SettingsArrive, Charts!Elsewhere, Charts!choices, Charts!ConstantsTyped
<1>7. ASSUME NEW from \in Dates, NEW to \in Dates, Charts!PickDates(from, to)
      PROVE  ReportTyped'
  BY <1>7 DEF Charts!PickDates, Charts!Elsewhere, Charts!ConstantsTyped
<1>8. CASE Charts!ClearDate
  BY <1>8 DEF Charts!ClearDate, Charts!choices, Charts!queries
<1>9. ASSUME NEW n \in Ranges, Charts!PickPeriod(n)
      PROVE  ReportTyped'
  BY <1>9 DEF Charts!PickPeriod, Charts!Elsewhere
<1>10. ASSUME NEW w \in Charts!Wans, Charts!ToggleWan(w)
       PROVE  ReportTyped'
  BY <1>10 DEF Charts!ToggleWan, Charts!Elsewhere
<1>11. ASSUME NEW by, Charts!PickDimension(by)
       PROVE  ReportTyped'
  BY <1>11 DEF Charts!PickDimension, Charts!Elsewhere
<1>12. ASSUME NEW unit, Charts!PickGranularity(unit)
       PROVE  ReportTyped'
  BY <1>12 DEF Charts!PickGranularity, Charts!Elsewhere
<1>13. CASE Charts!clearDimensions
  BY <1>13 DEF Charts!clearDimensions, Charts!Elsewhere
<1>14. ASSUME NEW m \in Offered, Charts!PickMetric(m)
       PROVE  ReportTyped'
  BY <1>14 DEF Charts!PickMetric, Charts!Elsewhere
<1> QED
  BY <1>1, <1>2, <1>3, <1>4, <1>5, <1>6, <1>7, <1>8, <1>9, <1>10, <1>11, <1>12, <1>13, <1>14
  DEF Charts!Next

\* The results an answer counts.
Counted(q, results) ==
  {r \in results : q.from <= r.at /\ r.at < q.to /\ (q.wans = {} \/ r.wan \in q.wans)}

\* Those of them that share a line and a bucket with r.
BucketOf(r, q, results) ==
  {s \in Counted(q, results) : /\ Charts!comparisonGroup(s, q.groupBy)
                                      = Charts!comparisonGroup(r, q.groupBy)
                               /\ Charts!describeBucket(s, q) = Charts!describeBucket(r, q)}

PointOf(r, m, q, results) ==
  [line |-> Charts!comparisonGroup(r, q.groupBy), metric |-> m,
   at |-> Charts!describeBucket(r, q).start, of |-> Charts!average(BucketOf(r, q, results), m)]

\* What a query answers.
LEMMA QueryAnswer ==
  ASSUME NEW q, NEW results
  PROVE  LET series == Charts!Query(q, results)
             line(r) == Charts!comparisonGroup(r, q.groupBy)
             C == Counted(q, results)
         IN  /\ DOMAIN series = {line(r) : r \in C}
             /\ \A g \in DOMAIN series :
                  DOMAIN series[g]
                    = {Charts!describeBucket(r, q) : r \in {s \in C : line(s) = g}}
             /\ \A r \in C : series[line(r)][Charts!describeBucket(r, q)] = BucketOf(r, q, results)
<1> DEFINE series == Charts!Query(q, results)
           line(r) == Charts!comparisonGroup(r, q.groupBy)
           bucket(r) == Charts!describeBucket(r, q)
           C == Counted(q, results)
<1>1. DOMAIN series = {line(r) : r \in C}
  BY DEF Charts!Query, Counted
<1>2. \A g \in DOMAIN series :
        /\ DOMAIN series[g] = {bucket(r) : r \in {s \in C : line(s) = g}}
        /\ \A b \in DOMAIN series[g] : series[g][b] = {s \in C : line(s) = g /\ bucket(s) = b}
  BY DEF Charts!Query, Counted
<1>3. \A r \in C : BucketOf(r, q, results) = {s \in C : line(s) = line(r) /\ bucket(s) = bucket(r)}
  BY DEF BucketOf
<1> HIDE DEF series, line, bucket, C
<1>4. \A r \in C : line(r) \in DOMAIN series /\ bucket(r) \in DOMAIN series[line(r)]
  BY <1>1, <1>2
<1> QED
  BY <1>1, <1>2, <1>3, <1>4 DEF series, line, bucket, C

\* Drawn one by one, every bucket is the point of the results in it.
LEMMA ChartPoints ==
  ASSUME NEW q, NEW results, NEW m
  PROVE  Charts!metricPoints(Charts!Query(q, results), m) =
           {PointOf(r, m, q, results) : r \in Counted(q, results)}
<1> DEFINE series == Charts!Query(q, results)
           line(r) == Charts!comparisonGroup(r, q.groupBy)
           bucket(r) == Charts!describeBucket(r, q)
           C == Counted(q, results)
<1>1. /\ DOMAIN series = {line(r) : r \in C}
      /\ \A g \in DOMAIN series : DOMAIN series[g] = {bucket(r) : r \in {s \in C : line(s) = g}}
      /\ \A r \in C : series[line(r)][bucket(r)] = BucketOf(r, q, results)
  BY QueryAnswer, Zenon
<1>2. \A r : PointOf(r, m, q, results)
               = [line |-> line(r), metric |-> m, at |-> bucket(r).start,
                  of |-> Charts!average(BucketOf(r, q, results), m)]
  BY DEF PointOf
<1> HIDE DEF series, line, bucket, C
<1>3. ASSUME NEW p \in Charts!metricPoints(series, m)
      PROVE  \E r \in C : p = PointOf(r, m, q, results)
  <2>1. PICK g, b :
          /\ g \in DOMAIN series /\ b \in DOMAIN series[g]
          /\ p = [line |-> g, metric |-> m, at |-> b.start,
                  of |-> Charts!average(series[g][b], m)]
    BY DEF Charts!metricPoints
  <2>2. PICK r \in C : line(r) = g /\ bucket(r) = b
    BY <1>1, <2>1
  <2> QED
    BY <1>1, <1>2, <2>1, <2>2
<1>4. ASSUME NEW r \in C
      PROVE  PointOf(r, m, q, results) \in Charts!metricPoints(series, m)
  <2>1. line(r) \in DOMAIN series /\ bucket(r) \in DOMAIN series[line(r)]
    BY <1>1
  <2>2. PointOf(r, m, q, results)
          = [line |-> line(r), metric |-> m, at |-> bucket(r).start,
             of |-> Charts!average(series[line(r)][bucket(r)], m)]
    BY <1>1, <1>2
  <2> QED
    BY <2>1, <2>2 DEF Charts!metricPoints
<1> QED
  BY <1>3, <1>4 DEF series, C

\* On a common axis the same points are drawn, if no two buckets of a line begin
\* at the same instant.
LEMMA AlignedPoints ==
  ASSUME NEW series, NEW m,
         \A g \in DOMAIN series : \A b \in DOMAIN series[g] : b.result \in Int,
         \A g \in DOMAIN series : \A b, c \in DOMAIN series[g] : b.start = c.start => b = c
  PROVE  {p \in Charts!aligned(series, m) : p.of # {}}
           = {p \in Charts!metricPoints(series, m) : p.of # {}}
<1> DEFINE axis == UNION {{b.start : b \in DOMAIN series[g]} : g \in DOMAIN series}
           byTimestamp(g, at) == {b \in DOMAIN series[g] : b.start = at}
           last(bs) == CHOOSE b \in bs : \A c \in bs : c.result <= b.result
           data(g, at) == IF byTimestamp(g, at) = {} THEN {}
                          ELSE Charts!average(series[g][last(byTimestamp(g, at))], m)
<1>1. Charts!aligned(series, m)
        = UNION {{[line |-> g, metric |-> m, at |-> at, of |-> data(g, at)] : at \in axis} :
                   g \in DOMAIN series}
  BY DEF Charts!aligned
<1>2. ASSUME NEW g \in DOMAIN series, NEW b \in DOMAIN series[g]
      PROVE  b.start \in axis /\ data(g, b.start) = Charts!average(series[g][b], m)
  <2>1. byTimestamp(g, b.start) = {b}
    OBVIOUS
  <2>2. last({b}) = b
    <3>1. b.result <= b.result
      OBVIOUS
    <3> QED
      BY <3>1
  <2>3. data(g, b.start) = Charts!average(series[g][last({b})], m)
    BY <2>1
  <2> QED
    BY <2>2, <2>3
<1>3. \A g \in DOMAIN series : \A at \in axis :
        data(g, at) # {} => \E b \in DOMAIN series[g] : b.start = at
  OBVIOUS
<1> HIDE DEF axis, data
<1>4. ASSUME NEW p \in Charts!aligned(series, m), p.of # {}
      PROVE  p \in Charts!metricPoints(series, m)
  <2>1. PICK g \in DOMAIN series, at \in axis :
          p = [line |-> g, metric |-> m, at |-> at, of |-> data(g, at)]
    BY <1>1
  <2>2. PICK b \in DOMAIN series[g] : b.start = at
    BY <1>3, <1>4, <2>1
  <2> QED
    BY <1>2, <2>1, <2>2 DEF Charts!metricPoints
<1>5. ASSUME NEW p \in Charts!metricPoints(series, m)
      PROVE  p \in Charts!aligned(series, m)
  <2>1. PICK g, b :
          /\ g \in DOMAIN series /\ b \in DOMAIN series[g]
          /\ p = [line |-> g, metric |-> m, at |-> b.start,
                  of |-> Charts!average(series[g][b], m)]
    BY DEF Charts!metricPoints
  <2> QED
    BY <1>1, <1>2, <2>1
<1> QED
  BY <1>4, <1>5

\* What bucketAccumulator counts is what the metric is about.
LEMMA AddedIsMeaningful ==
  ASSUME NEW r, NEW m
  PROVE  Charts!add(r, m) <=> Charts!Meaningful(r, m)
<1>1. CASE m \in {"duration", "successRate"}
  BY <1>1 DEF Charts!add, Charts!Meaningful
<1>2. CASE m \in {"download", "upload"}
  BY <1>2 DEF Charts!add, Charts!Meaningful, Charts!throughputMetricCompatible
<1>3. CASE m \notin {"duration", "successRate", "download", "upload"}
  BY <1>3 DEF Charts!add, Charts!Meaningful
<1> QED
  BY <1>1, <1>2, <1>3

\* Where midnight comes once, the start of its bucket stands for a date, and
\* for no other.
LEMMA BucketsAreDates ==
  ASSUME NEW z \in Charts!TimeZones, NEW date \in Int, Charts!SingleMidnight(date, z)
  PROVE  Charts!LocalDate(Charts!startOfDay(date, z), z) = date
<1> DEFINE m == Charts!zonedMidnight(date, z)
<1>1. m \in Int /\ Charts!Local(m, z) = date * Charts!Hours
  BY MidnightFound DEF Charts!Midnights
<1>2. Charts!startOfDay(date, z) = m
  BY MidnightsAgree
<1> HIDE DEF m
<1>3. (date * Charts!Hours) \div Charts!Hours = date
  BY DEF Charts!Hours
<1> QED
  BY <1>1, <1>2, <1>3 DEF Charts!LocalDate

\* What is drawn are results that were run.
LEMMA BasisIsRun ==
  ASSUME ReportTyped, Charts!Displayed
  PROVE  Charts!basis \subseteq Runs
<1> DEFINE e == CHOOSE e \in queryCache : e.key = Charts!statsParams
<1>1. e \in queryCache
  BY DEF Charts!Displayed, Charts!Cached
<1> QED
  BY <1>1 DEF Charts!basis, ReportTyped

LEMMA ReportTypes ==
  ASSUME Charts!ConstantsTyped, ReportTyped
  PROVE  /\ settings.zone \in Charts!TimeZones
         /\ Charts!shownDates.from \in Int /\ Charts!shownDates.to \in Int
         /\ Charts!shownDays \in Int
         /\ Charts!Displayed => \A r \in Charts!basis : r.at \in Int
<1>1. settings.zone \in Charts!TimeZones /\ settings.days \in Int /\ asOf \in Int
  BY DEF ReportTyped
<1>2. Charts!shownDates.from \in Int /\ Charts!shownDates.to \in Int
  <2>1. CASE dates # None
    BY <2>1 DEF ReportTyped, Charts!shownDates
  <2>2. CASE dates = None
    BY <1>1, <2>2 DEF Charts!shownDates, Charts!datesForRange, Charts!Hours
  <2> QED
    BY <2>1, <2>2
<1>3. Charts!shownDays \in Int
  BY <1>1 DEF ReportTyped, Charts!ConstantsTyped, Charts!shownDays
<1>4. ASSUME Charts!Displayed
      PROVE  \A r \in Charts!basis : r.at \in Int
  BY <1>4, BasisIsRun DEF Charts!ConstantsTyped
<1> QED
  BY <1>1, <1>2, <1>3, <1>4

\* The fields of the parameters that do not depend on the page's range.
LEMMA ParamsShown ==
  /\ Charts!statsParams.zone = settings.zone
  /\ Charts!statsParams.wans = Charts!shownWans
  /\ Charts!statsParams.groupBy = Charts!groupedBy
  /\ Charts!statsParams.granularity = Charts!shownGranularity
  BY DEF Charts!statsParams

\* The parameters ask for what the page says.
LEMMA CountedIsAsked ==
  ASSUME Charts!ConstantsTyped, ReportTyped, Charts!Displayed, Charts!MidnightsComeOnce
  PROVE  Counted(Charts!statsParams, Charts!basis) = {r \in Charts!basis : Charts!Asked(r)}
<1>1. SUFFICES ASSUME NEW r \in Charts!basis
               PROVE  (Charts!statsParams.from <= r.at /\ r.at < Charts!statsParams.to) <=>
                        IF kind = "statistics"
                        THEN Charts!LocalDate(r.at, settings.zone)
                                    \in Charts!shownDates.from..Charts!shownDates.to
                        ELSE asOf - Charts!shownDays * Charts!Hours <= r.at /\ r.at < asOf
  BY ParamsShown DEF Counted, Charts!Asked
<1>2. r.at \in Int
  BY ReportTypes
<1>3. CASE kind = "statistics"
  <2> DEFINE range == Charts!reportingDateRange(Charts!shownDates.from, Charts!shownDates.to,
                                                settings.zone)
  <2>1. Charts!statsParams.from = range.from /\ Charts!statsParams.to = range.to
    BY <1>3 DEF Charts!statsParams
  <2>2. Charts!SingleMidnight(Charts!shownDates.from, settings.zone)
        /\ Charts!SingleMidnight(Charts!shownDates.to + 1, settings.zone)
    BY <1>3 DEF Charts!MidnightsComeOnce
  <2>3. (range.from <= r.at /\ r.at < range.to) <=>
          Charts!LocalDate(r.at, settings.zone) \in Charts!shownDates.from .. Charts!shownDates.to
    BY <1>2, <2>2, ReportTypes, RangeIsExact
  <2> QED
    BY <1>3, <2>1, <2>3
<1>4. CASE kind # "statistics"
  BY <1>4 DEF Charts!statsParams, Charts!rollingRange, ReportTyped
<1> QED
  BY <1>3, <1>4

\* Results share a line and a bucket when the page means them as one point, and a
\* bucket stands for their column.
LEMMA TogetherInBucket ==
  ASSUME Charts!ConstantsTyped, ReportTyped, Charts!Displayed, Charts!MidnightsComeOnce,
         NEW r \in Charts!basis, Charts!Asked(r), NEW s \in Charts!basis, Charts!Asked(s)
  PROVE  LET bucket(t) == Charts!describeBucket(t, Charts!statsParams)
         IN  /\ Charts!Column(bucket(r).start) = Charts!Column(r.at)
             /\ bucket(r).result \in Int
             /\ Charts!Together(s, r) <=> Charts!line(s) = Charts!line(r) /\ bucket(s) = bucket(r)
<1> DEFINE bucket(t) == Charts!describeBucket(t, Charts!statsParams)
           date(t) == Charts!LocalDate(t.at, settings.zone)
<1>1. r \in Runs /\ s \in Runs
  BY BasisIsRun
<1>2. CASE Charts!statsParams.granularity = "raw"
  <2>1. bucket(r) = [start |-> r.at, result |-> r.id] /\ bucket(s) = [start |-> s.at, result |-> s.id]
    BY <1>2 DEF Charts!describeBucket
  <2>2. bucket(s) = bucket(r) <=> s = r
    BY <1>1, <2>1 DEF Charts!ConstantsTyped
  <2> QED
    BY <1>1, <1>2, <2>1, <2>2, ParamsShown DEF Charts!Together, Charts!ConstantsTyped
<1>3. CASE Charts!statsParams.granularity # "raw"
  <2>1. Charts!statsParams.zone = settings.zone
    BY ParamsShown
  <2>2. \A t \in {r, s} : /\ Charts!Column(t.at) = date(t)
                          /\ bucket(t) = [start |-> Charts!startOfDay(date(t), settings.zone),
                                          result |-> 0]
    BY <1>3, <2>1, ParamsShown DEF Charts!describeBucket, Charts!Column
  <2>3. \A t \in {r, s} : Charts!LocalDate(Charts!startOfDay(date(t), settings.zone), settings.zone)
                            = date(t)
    <3> SUFFICES ASSUME NEW t \in {r, s}
                 PROVE  Charts!LocalDate(Charts!startOfDay(date(t), settings.zone), settings.zone)
                          = date(t)
      OBVIOUS
    <3>1. Charts!SingleMidnight(date(t), settings.zone)
      BY DEF Charts!MidnightsComeOnce
    <3>2. Charts!Local(t.at, settings.zone) \in Int
      BY OffsetType, ReportTypes
    <3>3. date(t) \in Int
      BY <3>2 DEF Charts!LocalDate, Charts!Hours
    <3> QED
      BY <3>1, <3>3, BucketsAreDates, ReportTypes
  <2> HIDE DEF bucket, date
  <2>4. bucket(s) = bucket(r) <=> date(s) = date(r)
    BY <2>2, <2>3
  <2>5. Charts!Column(bucket(r).start) = date(r)
    BY <1>3, <2>2, <2>3, ParamsShown DEF Charts!Column
  <2>6. Charts!Together(s, r) <=> Charts!line(s) = Charts!line(r) /\ date(s) = date(r)
    BY <1>3, <2>2, ParamsShown DEF Charts!Together
  <2> QED
    BY <2>2, <2>4, <2>5, <2>6 DEF bucket
<1> QED
  BY <1>2, <1>3

\* An answer for the parameters of the moment draws what the inputs ask for.
LEMMA ReportExact ==
  ASSUME Charts!ConstantsTyped, ReportTyped
  PROVE  Charts!ReportIsExact
<1> SUFFICES ASSUME Charts!Displayed, Charts!MidnightsComeOnce, Charts!InstantsDiffer,
                    Charts!RatesHaveTests
             PROVE  LET asked == {r \in Charts!basis : Charts!Asked(r)}
                        point(r, m) ==
                          [line |-> Charts!line(r), metric |-> m, column |-> Charts!Column(r.at),
                           of |-> {q \in asked : Charts!Together(q, r) /\ Charts!Meaningful(q, m)}]
                    IN  /\ {[line |-> p.line, metric |-> p.metric, column |-> Charts!Column(p.at),
                             of |-> p.of] : p \in Charts!chart}
                             = {p \in {point(r, m) : r \in asked, m \in Charts!drawnMetrics} :
                                  p.of # {}}
                        /\ \A p, q \in Charts!chart :
                             p.metric = q.metric /\ p.of \cap q.of # {} => p = q
  BY DEF Charts!ReportIsExact
<1> DEFINE asked == {r \in Charts!basis : Charts!Asked(r)}
           series == Charts!Query(Charts!statsParams, Charts!basis)
           bucket(r) == Charts!describeBucket(r, Charts!statsParams)
           of(r, m) == {q \in asked : Charts!Together(q, r) /\ Charts!Meaningful(q, m)}
           at(r, m) == [line |-> Charts!line(r), metric |-> m, at |-> bucket(r).start,
                        of |-> of(r, m)]
           point(r, m) == [line |-> Charts!line(r), metric |-> m, column |-> Charts!Column(r.at),
                           of |-> of(r, m)]
           drawn(p) == [line |-> p.line, metric |-> p.metric, column |-> Charts!Column(p.at),
                        of |-> p.of]
<1>1. Counted(Charts!statsParams, Charts!basis) = asked
  BY CountedIsAsked
<1>2. \A r \in asked : /\ Charts!Column(bucket(r).start) = Charts!Column(r.at)
                       /\ bucket(r).result \in Int
  BY TogetherInBucket
<1>3. \A r, s \in asked :
        Charts!Together(s, r) <=> Charts!line(s) = Charts!line(r) /\ bucket(s) = bucket(r)
  BY TogetherInBucket
<1>4. ASSUME NEW r \in asked, NEW m \in Charts!drawnMetrics
      PROVE  PointOf(r, m, Charts!statsParams, Charts!basis) = at(r, m)
  <2> DEFINE B == BucketOf(r, Charts!statsParams, Charts!basis)
  <2>1. B = {q \in asked : Charts!Together(q, r)}
    <3>1. B = {q \in asked : Charts!line(q) = Charts!line(r) /\ bucket(q) = bucket(r)}
      BY <1>1, ParamsShown DEF BucketOf, Charts!line
    <3> HIDE DEF B, asked, bucket
    <3> QED
      BY <1>3, <3>1
  <2>2. {q \in B : Charts!add(q, m)} = of(r, m)
    BY <2>1, AddedIsMeaningful
  <2>3. ASSUME m = "successRate"
        PROVE  of(r, m) # {}
    <3>1. PICK q \in Charts!basis :
            Charts!Asked(q) /\ Charts!Together(q, r) /\ Charts!Meaningful(q, "successRate")
      BY <1>4, <2>3 DEF Charts!RatesHaveTests
    <3> QED
      BY <2>3, <3>1
  <2>4. Charts!average(B, m) = of(r, m)
    <3> HIDE DEF B, of
    <3> QED
      BY <2>2, <2>3 DEF Charts!average
  <2> QED
    BY <2>4, ParamsShown DEF PointOf, Charts!line
<1>5. ASSUME NEW m \in Charts!drawnMetrics
      PROVE  Charts!metricPoints(series, m) = {at(r, m) : r \in asked}
  <2>1. Charts!metricPoints(series, m)
          = {PointOf(r, m, Charts!statsParams, Charts!basis) : r \in asked}
    <3>1. Charts!metricPoints(series, m)
            = {PointOf(r, m, Charts!statsParams, Charts!basis) :
                 r \in Counted(Charts!statsParams, Charts!basis)}
      BY ChartPoints, SMT
    <3> QED
      BY <1>1, <3>1, Zenon
  <2> HIDE DEF asked, at, series
  <2> QED
    BY <1>4, <2>1
<1>6. ASSUME NEW m \in Charts!drawnMetrics, Charts!sharesAxis
      PROVE  {p \in Charts!aligned(series, m) : p.of # {}}
               = {p \in Charts!metricPoints(series, m) : p.of # {}}
  <2>1. /\ DOMAIN series = {Charts!line(r) : r \in asked}
        /\ \A g \in DOMAIN series :
             DOMAIN series[g] = {bucket(r) : r \in {s \in asked : Charts!line(s) = g}}
    <3>1. LET C == Counted(Charts!statsParams, Charts!basis)
          IN  /\ DOMAIN series
                   = {Charts!comparisonGroup(r, Charts!statsParams.groupBy) : r \in C}
              /\ \A g \in DOMAIN series :
                   DOMAIN series[g]
                     = {bucket(r) :
                         r \in {s \in C :
                                 Charts!comparisonGroup(s, Charts!statsParams.groupBy) = g}}
      BY QueryAnswer, Zenon
    <3> HIDE DEF asked, series, bucket
    <3> QED
      BY <1>1, <3>1, ParamsShown DEF Charts!line
  <2>2. ASSUME NEW r \in asked, NEW s \in asked, Charts!line(r) = Charts!line(s),
               bucket(r).start = bucket(s).start
        PROVE  bucket(r) = bucket(s)
    <3>1. CASE Charts!statsParams.granularity = "raw"
      BY <1>6, <2>2, <3>1, ParamsShown DEF Charts!InstantsDiffer, Charts!describeBucket
    <3>2. CASE Charts!statsParams.granularity # "raw"
      BY <2>2, <3>2 DEF Charts!describeBucket
    <3> QED
      BY <3>1, <3>2
  <2> HIDE DEF asked, series, bucket
  <2>3. \A g \in DOMAIN series : \A b \in DOMAIN series[g] : b.result \in Int
    BY <1>2, <2>1
  <2>4. \A g \in DOMAIN series : \A b, c \in DOMAIN series[g] : b.start = c.start => b = c
    BY <2>1, <2>2
  <2> QED
    BY <2>3, <2>4, AlignedPoints
<1>7. Charts!chart = {p \in {at(r, m) : r \in asked, m \in Charts!drawnMetrics} : p.of # {}}
  <2>1. Charts!chart
          = UNION {{p \in (IF Charts!sharesAxis THEN Charts!aligned(series, m)
                           ELSE Charts!metricPoints(series, m)) : p.of # {}} :
                     m \in Charts!drawnMetrics}
    BY DEF Charts!chart, Charts!chartOption
  <2> HIDE DEF series, asked, at
  <2>2. \A m \in Charts!drawnMetrics :
          {p \in (IF Charts!sharesAxis THEN Charts!aligned(series, m)
                  ELSE Charts!metricPoints(series, m)) : p.of # {}}
            = {p \in {at(r, m) : r \in asked} : p.of # {}}
    BY <1>5, <1>6
  <2>3. Charts!chart
          = UNION {{p \in {at(r, m) : r \in asked} : p.of # {}} : m \in Charts!drawnMetrics}
    BY <2>1, <2>2
  <2> QED
    BY <2>3
<1>8. \A r \in asked : \A m : drawn(at(r, m)) = point(r, m) /\ at(r, m).of = point(r, m).of
  BY <1>2
<1>9. {drawn(p) : p \in Charts!chart}
        = {p \in {point(r, m) : r \in asked, m \in Charts!drawnMetrics} : p.of # {}}
  <2> HIDE DEF drawn, at, point, asked
  <2> QED
    BY <1>7, <1>8
<1>10. ASSUME NEW p \in Charts!chart, NEW q \in Charts!chart, p.metric = q.metric,
              p.of \cap q.of # {}
       PROVE  p = q
  <2>1. PICK r \in asked, m \in Charts!drawnMetrics : p = at(r, m)
    BY <1>7
  <2>2. PICK s \in asked, n \in Charts!drawnMetrics : q = at(s, n)
    BY <1>7
  <2>3. m = n
    BY <1>10, <2>1, <2>2
  <2>4. PICK x \in asked : Charts!Together(x, r) /\ Charts!Together(x, s)
    BY <1>10, <2>1, <2>2
  <2>5. Charts!line(r) = Charts!line(s) /\ bucket(r) = bucket(s)
    BY <1>3, <2>4
  <2>6. of(r, m) = of(s, m)
    <3> HIDE DEF bucket
    <3>1. \A t \in asked : Charts!Together(t, r) <=> Charts!Together(t, s)
      BY <1>3, <2>5
    <3> QED
      BY <3>1
  <2> QED
    BY <2>1, <2>2, <2>3, <2>5, <2>6
<1> HIDE DEF drawn
<1> QED
  BY <1>9, <1>10 DEF asked, of, point, drawn

\* Charts, for any results, clocks, dates and timezones: whichever inputs were
\* changed while answers were on their way, the statistics, comparison and
\* dashboard pages draw exactly the results that count for their metrics and that
\* their inputs ask for, each in its line and at its date; except where the clocks
\* are changed at midnight of one of the dates, where results of one line began at
\* one instant, and for the rate of a line and date without a completed test.
THEOREM ReportShowsWhatIsAsked ==
  WebSpec => []ReportIsExact
<1> DEFINE Inv == mountedPage = "charts" => ReportTyped
<1>1. WebInit => Inv
  BY ReportInit, PagesAssumption DEF WebInit
<1>2. Inv /\ [WebNext]_webVars => Inv'
  <2> SUFFICES ASSUME Inv, [WebNext]_webVars, mountedPage' = "charts"
               PROVE  ReportTyped'
    OBVIOUS
  <2>1. CASE WebNext
    <3>1. mountedPage = "charts" /\ Charts!Next
      BY <2>1 DEF WebNext
    <3> QED
      BY <3>1, ReportStep, PagesAssumption
  <2>2. CASE UNCHANGED webVars
    BY <2>2 DEF ReportTyped, webVars, chartsVars, sharedVars
  <2> QED
    BY <2>1, <2>2
<1>3. Inv => ReportIsExact
  BY ReportExact, PagesAssumption DEF ReportIsExact
<1> QED
  BY <1>1, <1>2, <1>3, PTL DEF WebSpec

-----------------------------------------------------------------------------
(* The settings page *)

Asks(k) == calls[k] # None /\ calls[k].phase = "asked"
Answers(k) == calls[k] # None /\ calls[k].phase = "answered"

CallsTyped ==
  /\ calls = [k \in Settings!Kinds |-> calls[k]]
  /\ \A k \in Settings!Kinds : /\ calls[k] \in Settings!Calls(k) \cup {None}
                               /\ Answers(k) => calls[k].answer \in Settings!Rows

SettingsTyped ==
  /\ row \in Settings!Rows
  /\ queryCache \in Settings!Rows \cup {None}
  /\ settingsForm \in Settings!Policies /\ settingsBase \in Settings!Policies
  /\ file \in Executables \cup {None}
  /\ pending \in {p \in Settings!Policies : Settings!Valid(p)} \cup {None}
  /\ CallsTyped

\* The box was ticked for the file that is chosen, for the one that is being
\* sent, and for the one on the server.
BoxVouches ==
  /\ confirmed /\ file # None => file \in vouched
  /\ calls["install"] # None => calls["install"].arg \in vouched
  /\ installed # None => installed \in vouched

\* What will show the row as it is: an answer that has it fetched or holds it,
\* a fetch that is not served yet or was served since the row changed last, the
\* cache itself, or the retry of a fetch that failed.
CacheFollows ==
  \/ unheard \/ overtaken
  \/ Answers("save") \/ Answers("import") \/ Answers("eula")
  \/ Asks("get")
  \/ Answers("get") /\ calls["get"].answer = row
  \/ calls["get"] = None /\ (failedFetches \/ queryCache = None \/ queryCache = row)

\* The form shows what is cached, or what is cached is old and every fetch will
\* say so, unless the row went back to what is cached.
FormFollows ==
  \/ reverted \/ queryCache = None
  \/ settingsBase = queryCache.policy
  \/ queryCache # row /\ (Answers("get") => calls["get"].answer # queryCache)

SettingsInv == SettingsTyped /\ BoxVouches /\ CacheFollows /\ FormFollows

LEMMA SettingsInit ==
  ASSUME Settings!ConstantsApart, Settings!Init
  PROVE  SettingsInv
<1>1. Settings!fallbackSettings \in Settings!Policies
  BY DEF Settings!fallbackSettings, Settings!Policies
<1>2. Settings!Asked(None) \in Settings!Calls("get") /\ Settings!Asked(None).phase = "asked"
  BY DEF Settings!Asked, Settings!Calls, Settings!Arguments
<1>3. row \in Settings!Rows /\ queryCache \in Settings!Rows \cup {None}
  BY DEF Settings!Init, Settings!ConstantsApart
<1>4. \A r \in Settings!Rows : r.policy \in Settings!Policies
  BY DEF Settings!Rows
<1>5. /\ settingsForm = settingsBase /\ settingsBase \in Settings!Policies
      /\ queryCache = None \/ settingsBase = queryCache.policy
  BY <1>1, <1>3, <1>4 DEF Settings!Init
<1>6. PICK get \in {Settings!Asked(None), None} :
        /\ calls = [k \in Settings!Kinds |-> IF k = "get" THEN get ELSE None]
        /\ queryCache = None => get = Settings!Asked(None)
  BY DEF Settings!Init
<1>7. /\ "get" \in Settings!Kinds
      /\ calls = [k \in Settings!Kinds |-> calls[k]]
      /\ calls["get"] = get
      /\ calls["install"] = None
      /\ \A k \in Settings!Kinds \ {"get"} : calls[k] = None
  BY <1>6 DEF Settings!Kinds
<1>8. SettingsTyped
  BY <1>2, <1>3, <1>5, <1>6, <1>7 DEF SettingsTyped, CallsTyped, Settings!Init, Answers
<1>9. BoxVouches
  BY <1>7 DEF BoxVouches, Settings!Init
<1>10. CASE get = Settings!Asked(None)
  BY <1>2, <1>5, <1>7, <1>8, <1>9, <1>10 DEF SettingsInv, CacheFollows, FormFollows, Asks,
     Settings!ConstantsApart
<1>11. CASE get = None
  BY <1>5, <1>6, <1>7, <1>8, <1>9, <1>11 DEF SettingsInv, CacheFollows, FormFollows, Settings!Init
<1> QED
  BY <1>6, <1>10, <1>11

LEMMA AskedCall ==
  ASSUME Settings!ConstantsApart, NEW k \in Settings!Kinds, NEW arg \in Settings!Arguments(k)
  PROVE  /\ Settings!Asked(arg) \in Settings!Calls(k) /\ Settings!Asked(arg) # None
         /\ Settings!Asked(arg).arg = arg /\ Settings!Asked(arg).phase = "asked"
  BY DEF Settings!Asked, Settings!Calls, Settings!ConstantsApart

\* A request is started, answered or ended; the others are left alone.
LEMMA CallPut ==
  ASSUME CallsTyped, NEW k \in Settings!Kinds, NEW v \in Settings!Calls(k) \cup {None},
         v # None /\ v.phase = "answered" => v.answer \in Settings!Rows,
         calls' = [calls EXCEPT ![k] = v]
  PROVE  /\ CallsTyped'
         /\ calls'[k] = v
         /\ \A j \in Settings!Kinds \ {k} : calls'[j] = calls[j]
  BY DEF CallsTyped, Answers

LEMMA CallStarted ==
  ASSUME Settings!ConstantsApart, CallsTyped,
         NEW k \in Settings!Mutations, NEW arg \in Settings!Arguments(k), Settings!Start(k, arg)
  PROVE  /\ CallsTyped'
         /\ calls[k] = None /\ calls'[k].arg = arg /\ Asks(k)'
         /\ \A j \in Settings!Kinds \ {k} : calls'[j] = calls[j]
<1>1. k \in Settings!Kinds
  BY DEF Settings!Mutations
<1>2. /\ Settings!Asked(arg) \in Settings!Calls(k) /\ Settings!Asked(arg) # None
      /\ Settings!Asked(arg).arg = arg /\ Settings!Asked(arg).phase = "asked"
  BY <1>1, AskedCall
<1>3. calls' = [calls EXCEPT ![k] = Settings!Asked(arg)] /\ calls[k] = None
  BY DEF Settings!Start, Settings!Idle
<1>4. /\ CallsTyped' /\ calls'[k] = Settings!Asked(arg)
      /\ \A j \in Settings!Kinds \ {k} : calls'[j] = calls[j]
  BY <1>1, <1>2, <1>3, CallPut
<1> QED
  BY <1>2, <1>3, <1>4 DEF Asks

LEMMA CallEnded ==
  ASSUME CallsTyped, NEW k \in Settings!Kinds, calls' = [calls EXCEPT ![k] = None]
  PROVE  /\ CallsTyped' /\ calls'[k] = None
         /\ \A j \in Settings!Kinds \ {k} : calls'[j] = calls[j]
  BY CallPut

LEMMA CallInvalidates ==
  ASSUME Settings!ConstantsApart, CallsTyped, NEW k \in Settings!Kinds,
         calls' = Settings!Invalidated(k)
  PROVE  /\ CallsTyped' /\ Asks("get")'
         /\ k # "get" => calls'[k] = None
         /\ \A j \in Settings!Kinds \ {k, "get"} : calls'[j] = calls[j]
<1>1. "get" \in Settings!Kinds /\ None \in Settings!Arguments("get")
  BY DEF Settings!Kinds, Settings!Arguments
<1>2. /\ Settings!Asked(None) \in Settings!Calls("get") /\ Settings!Asked(None) # None
      /\ Settings!Asked(None).phase = "asked"
  BY <1>1, AskedCall
<1> QED
  BY <1>1, <1>2 DEF Settings!Invalidated, CallsTyped, Answers, Asks

\* What the server makes of a request is a row.
LEMMA WrittenTyped ==
  ASSUME row \in Settings!Rows, NEW k \in Settings!Kinds, NEW arg \in Settings!Arguments(k)
  PROVE  Settings!Written(k, arg) \in Settings!Rows
  BY DEF Settings!Arguments, Settings!Written, Settings!UpdateSettings, Settings!Rows,
     Settings!ImportConfiguration, Settings!UpdateOoklaEulaAcceptance, Settings!Kinds

\* Every step of the page, of its requests and of the server keeps the invariant.
LEMMA SettingsStep ==
  ASSUME Settings!ConstantsApart, SettingsInv, Settings!Next
  PROVE  SettingsInv'
<1> USE DEF SettingsInv, SettingsTyped, BoxVouches, CacheFollows, FormFollows,
            Settings!rows, Settings!formVars, Settings!panel, Settings!dialogs, Settings!doubts
<1>0. /\ {"get", "save", "eula", "install", "import", "cleanup"} \subseteq Settings!Kinds
      /\ {"save", "eula", "install", "import", "cleanup"} \subseteq Settings!Mutations
  BY DEF Settings!Kinds, Settings!Mutations
<1>1. ASSUME NEW k \in Settings!Kinds, Settings!Serve(k)
      PROVE  SettingsInv'
  <2> DEFINE arg == calls[k].arg
             new == Settings!Written(k, arg)
             v == [calls[k] EXCEPT !.phase = "answered", !.answer = new]
  <2>1. /\ Asks(k) /\ row' = new
        /\ calls' = [calls EXCEPT ![k].phase = "answered", ![k].answer = new]
        /\ reverted' = (reverted \/ (new # row /\ new = queryCache /\ settingsBase # new.policy))
        /\ IF k = "install" THEN installed' = arg ELSE UNCHANGED installed
        /\ UNCHANGED <<queryCache, failedFetches, settingsForm, settingsBase,
                       file, confirmed, vouched, pending, unheard, overtaken>>
    BY <1>1 DEF Settings!Serve, Settings!Write, Settings!Idle, Settings!UploadOoklaBinary, Asks
  <2>2. calls[k] \in Settings!Calls(k)
    BY <2>1 DEF CallsTyped, Asks
  <2>3. new \in Settings!Rows
    BY <2>2, WrittenTyped DEF Settings!Calls
  <2>4. k \notin {"save", "import", "eula"} => new = row
    BY DEF Settings!Written
  <2> HIDE DEF new, arg
  <2>5. /\ v \in Settings!Calls(k) /\ v # None /\ v.phase = "answered" /\ v.answer = new
        /\ v.arg = arg
    BY <2>2, <2>3 DEF Settings!Calls, Settings!ConstantsApart, arg
  <2>6. calls' = [calls EXCEPT ![k] = v]
    BY <2>1, <2>2 DEF CallsTyped, Settings!Calls
  <2> HIDE DEF v
  <2>7. /\ CallsTyped' /\ calls'[k] = v
        /\ \A j \in Settings!Kinds \ {k} : calls'[j] = calls[j]
    BY <2>3, <2>5, <2>6, CallPut
  <2>8. SettingsTyped'
    BY <2>1, <2>3, <2>7
  <2>9. BoxVouches'
    <3>1. calls'["install"] = None \/ calls'["install"].arg = calls["install"].arg
      BY <1>0, <2>5, <2>7 DEF arg
    <3>2. calls'["install"] # None => calls["install"] # None
      BY <1>0, <2>1, <2>7 DEF Asks
    <3>3. installed' = installed \/ (k = "install" /\ installed' = calls["install"].arg)
      BY <2>1 DEF arg
    <3> QED
      BY <2>1, <3>1, <3>2, <3>3 DEF Asks
  <2>10. CacheFollows'
    BY <1>0, <2>1, <2>4, <2>5, <2>7 DEF Asks, Answers
  <2>11. FormFollows'
    BY <1>0, <2>1, <2>4, <2>5, <2>7 DEF Asks, Answers
  <2> QED
    BY <2>8, <2>9, <2>10, <2>11
<1>2. ASSUME NEW k \in Settings!Mutations, Settings!MutationFails(k)
      PROVE  SettingsInv'
  <2>1. k \in Settings!Kinds /\ k # "get"
    BY DEF Settings!Mutations
  <2>2. /\ CallsTyped' /\ calls'[k] = None
        /\ \A j \in Settings!Kinds \ {k} : calls'[j] = calls[j]
    BY <1>2, <2>1, CallEnded DEF Settings!MutationFails
  <2> QED
    <3>1. /\ unheard' = (unheard \/ (k \in {"save", "import", "eula"} /\ Answers(k)))
          /\ UNCHANGED <<row, installed, queryCache, failedFetches, settingsForm, settingsBase,
                         file, confirmed, vouched, pending, overtaken, reverted>>
      BY <1>2 DEF Settings!MutationFails, Settings!Writers, Settings!Idle, Answers
    <3>2. SettingsTyped' /\ BoxVouches'
      BY <1>0, <2>2, <3>1
    <3>3. calls'["get"] = calls["get"]
      BY <1>0, <2>1, <2>2
    <3>4. \A j \in Settings!Kinds : Answers(j) => Answers(j)' \/ j = k
      BY <2>2 DEF Answers
    <3>5. Asks("get")' = Asks("get") /\ Answers("get")' = Answers("get")
      BY <3>3 DEF Asks, Answers
    <3>6. CacheFollows' /\ FormFollows'
      BY <1>0, <3>1, <3>3, <3>4, <3>5
    <3> QED
      BY <3>2, <3>6
<1>3. CASE Settings!FetchArrives
  <2>1. Answers("get") /\ calls["get"].answer \in Settings!Rows
    BY <1>0, <1>3 DEF Settings!FetchArrives, Settings!Arrived, Settings!Idle, Answers, CallsTyped
  <2>2. /\ CallsTyped' /\ calls'["get"] = None
        /\ \A j \in Settings!Kinds \ {"get"} : calls'[j] = calls[j]
    BY <1>0, <1>3, CallEnded DEF Settings!FetchArrives
  <2>3. calls["get"].answer.policy \in Settings!Policies
    BY <2>1 DEF Settings!Rows
  <2> QED
    <3> DEFINE c == calls["get"].answer
    <3>1. /\ unheard' = (unheard /\ c # row) /\ overtaken' = (overtaken /\ c # row)
          /\ queryCache' = c /\ failedFetches' = FALSE
          /\ IF c = queryCache
             THEN UNCHANGED <<settingsForm, settingsBase, reverted>>
             ELSE settingsForm' = c.policy /\ settingsBase' = c.policy /\ reverted' = FALSE
          /\ UNCHANGED <<row, installed, vouched, pending>>
      BY <1>3 DEF Settings!FetchArrives, Settings!Cached
    <3>2. UNCHANGED <<file, confirmed>> \/ (file' = None /\ confirmed' = FALSE)
      BY <1>3 DEF Settings!FetchArrives, Settings!Cached, Settings!PanelFollows
    <3>3. \A j \in {"save", "import", "eula", "install"} : calls'[j] = calls[j]
      BY <1>0, <2>2
    <3> HIDE DEF c
    <3>4. SettingsTyped' /\ BoxVouches'
      BY <2>1, <2>2, <2>3, <3>1, <3>2, <3>3 DEF c
    <3>5. CacheFollows'
      BY <2>1, <2>2, <3>1, <3>3 DEF c, Asks, Answers
    <3>6. FormFollows'
      BY <2>1, <2>2, <3>1 DEF c, Answers, Settings!ConstantsApart
    <3> QED
      BY <3>4, <3>5, <3>6
<1>4. CASE Settings!FetchFails
  <2>1. /\ CallsTyped' /\ calls'["get"] = None
        /\ \A j \in Settings!Kinds \ {"get"} : calls'[j] = calls[j]
    BY <1>0, <1>4, CallEnded DEF Settings!FetchFails
  <2> QED
    BY <1>0, <1>4, <2>1 DEF Settings!FetchFails, Asks, Answers
<1>5. CASE Settings!Refetch
  <2>1. CASE calls' = calls
    BY <1>5, <2>1 DEF Settings!Refetch, CallsTyped, Asks, Answers
  <2>2. CASE calls' = Settings!Invalidated("get")
    <3>1. /\ CallsTyped' /\ Asks("get")'
          /\ \A j \in Settings!Kinds \ {"get"} : calls'[j] = calls[j]
      BY <1>0, <2>2, CallInvalidates
    <3> QED
      BY <1>0, <1>5, <3>1 DEF Settings!Refetch, Asks, Answers
  <2> QED
    BY <1>5, <2>1, <2>2 DEF Settings!Refetch
<1>6. ASSUME NEW p \in Settings!Policies, Settings!Edit(p)
      PROVE  SettingsInv'
  BY <1>6 DEF Settings!Edit, CallsTyped, Asks, Answers
<1>7. CASE Settings!Save
  <2>1. settingsForm \in Settings!Arguments("save") /\ Settings!Start("save", settingsForm)
    BY <1>7 DEF Settings!Save, Settings!Arguments
  <2>2. /\ CallsTyped' /\ calls["save"] = None
        /\ \A j \in Settings!Kinds \ {"save"} : calls'[j] = calls[j]
    BY <1>0, <2>1, CallStarted
  <2> QED
    BY <1>0, <1>7, <2>2 DEF Settings!Save, Asks, Answers
<1>8. CASE Settings!SaveArrives
  <2>1. Answers("save") /\ calls["save"].answer \in Settings!Rows
    BY <1>0, <1>8 DEF Settings!SaveArrives, Settings!Arrived, Settings!Idle, Answers, CallsTyped
  <2>2. /\ CallsTyped' /\ Asks("get")' /\ calls'["save"] = None
        /\ \A j \in Settings!Kinds \ {"save", "get"} : calls'[j] = calls[j]
    BY <1>0, <1>8, CallInvalidates DEF Settings!SaveArrives
  <2>3. calls["save"].answer.policy \in Settings!Policies
    BY <2>1 DEF Settings!Rows
  <2> QED
    BY <1>0, <1>8, <2>1, <2>2, <2>3 DEF Settings!SaveArrives, Asks, Answers
<1>9. ASSUME NEW b \in BOOLEAN, Settings!Agree(b)
      PROVE  SettingsInv'
  BY <1>9 DEF Settings!Agree, CallsTyped, Asks, Answers
<1>10. ASSUME NEW b \in BOOLEAN, Settings!AskRevocation(b)
      PROVE  SettingsInv'
  BY <1>10 DEF Settings!AskRevocation, CallsTyped, Asks, Answers
<1>11. ASSUME NEW b \in BOOLEAN, Settings!Confirm(b)
      PROVE  SettingsInv'
  BY <1>11 DEF Settings!Confirm, CallsTyped, Asks, Answers
<1>12. ASSUME NEW b \in BOOLEAN, Settings!AskCleanup(b)
      PROVE  SettingsInv'
  BY <1>12 DEF Settings!AskCleanup, CallsTyped, Asks, Answers
<1>13. CASE Settings!RecordAcknowledgement
  <2>1. "persisted" \in Settings!Arguments("eula")
    BY DEF Settings!Arguments
  <2>2. /\ CallsTyped' /\ calls["eula"] = None
        /\ \A j \in Settings!Kinds \ {"eula"} : calls'[j] = calls[j]
    BY <1>0, <1>13, <2>1, CallStarted DEF Settings!RecordAcknowledgement
  <2> QED
    BY <1>0, <1>13, <2>2 DEF Settings!RecordAcknowledgement, Asks, Answers
<1>14. CASE Settings!Revoke
  <2>1. "none" \in Settings!Arguments("eula")
    BY DEF Settings!Arguments
  <2>2. /\ CallsTyped' /\ calls["eula"] = None
        /\ \A j \in Settings!Kinds \ {"eula"} : calls'[j] = calls[j]
    BY <1>0, <1>14, <2>1, CallStarted DEF Settings!Revoke
  <2> QED
    BY <1>0, <1>14, <2>2 DEF Settings!Revoke, Asks, Answers
<1>15. CASE Settings!AcknowledgementArrives
  <2>1. Answers("eula") /\ calls["eula"].answer \in Settings!Rows
    BY <1>0, <1>15 DEF Settings!AcknowledgementArrives, Settings!AcknowledgementApplied,
       Settings!Arrived, Settings!Idle, Answers, CallsTyped
  <2>2. /\ CallsTyped' /\ calls'["eula"] = None
        /\ \A j \in Settings!Kinds \ {"eula"} : calls'[j] = calls[j]
    BY <1>0, <1>15, CallEnded DEF Settings!AcknowledgementArrives
  <2>3. calls["eula"].answer.policy \in Settings!Policies
    BY <2>1 DEF Settings!Rows
  <2> QED
    <3> DEFINE c == calls["eula"].answer
    <3>1. /\ overtaken' = (overtaken \/ Settings!CrossesFetch)
          /\ queryCache' = c /\ failedFetches' = FALSE
          /\ IF c = queryCache
             THEN UNCHANGED <<settingsForm, settingsBase, reverted>>
             ELSE settingsForm' = c.policy /\ settingsBase' = c.policy /\ reverted' = FALSE
          /\ UNCHANGED <<row, installed, vouched, pending, unheard>>
      BY <1>15 DEF Settings!AcknowledgementArrives, Settings!AcknowledgementApplied,
         Settings!Cached, Settings!Idle
    <3>2. UNCHANGED <<file, confirmed>> \/ (file' = None /\ confirmed' = FALSE)
      BY <1>15 DEF Settings!AcknowledgementArrives, Settings!AcknowledgementApplied,
         Settings!Cached, Settings!PanelFollows
    <3>3. \A j \in {"get", "install", "save", "import"} : calls'[j] = calls[j]
      BY <1>0, <2>2
    <3>4. \/ Settings!CrossesFetch
          \/ Answers("save") \/ Answers("import") \/ Asks("get")
          \/ Answers("get") /\ calls["get"].answer = row
          \/ calls["get"] = None /\ c = row
      <4>1. calls["get"] = None \/ Asks("get") \/ Answers("get")
        BY <1>0 DEF CallsTyped, Settings!Calls, Asks, Answers
      <4> QED
        BY <4>1 DEF Settings!CrossesFetch, Settings!Arrived, Settings!Idle, Asks, Answers
    <3> HIDE DEF c
    <3>5. SettingsTyped' /\ BoxVouches'
      BY <2>1, <2>2, <2>3, <3>1, <3>2, <3>3 DEF c
    <3>6. CacheFollows'
      BY <3>1, <3>3, <3>4 DEF Asks, Answers
    <3>7. FormFollows'
      BY <2>1, <3>1, <3>3 DEF c, Answers, Settings!ConstantsApart
    <3> QED
      BY <3>5, <3>6, <3>7
<1>16. ASSUME NEW f \in Executables \cup {None}, Settings!ChooseExecutable(f)
      PROVE  SettingsInv'
  BY <1>16 DEF Settings!ChooseExecutable, CallsTyped, Asks, Answers
<1>17. CASE Settings!Install
  <2>1. file \in Settings!Arguments("install") /\ file \in vouched
        /\ Settings!Start("install", file)
    BY <1>17 DEF Settings!Install, Settings!Arguments
  <2>2. /\ CallsTyped' /\ calls'["install"].arg = file
        /\ \A j \in Settings!Kinds \ {"install"} : calls'[j] = calls[j]
    BY <1>0, <2>1, CallStarted
  <2> QED
    BY <1>0, <1>17, <2>1, <2>2 DEF Settings!Install, Asks, Answers
<1>18. CASE Settings!InstallArrives
  <2>1. /\ CallsTyped' /\ calls'["install"] = None
        /\ \A j \in Settings!Kinds \ {"install"} : calls'[j] = calls[j]
    BY <1>0, <1>18, CallEnded DEF Settings!InstallArrives
  <2> QED
    BY <1>0, <1>18, <2>1 DEF Settings!InstallArrives, Asks, Answers
<1>19. ASSUME NEW d \in Documents, Settings!SelectConfiguration(d)
      PROVE  SettingsInv'
  BY <1>19 DEF Settings!SelectConfiguration, CallsTyped, Asks, Answers
<1>20. ASSUME NEW d \in Documents, Settings!FileRead(d)
      PROVE  SettingsInv'
  BY <1>20 DEF Settings!FileRead, Settings!ConstantsApart, CallsTyped, Asks, Answers
<1>21. CASE Settings!CloseImport
  BY <1>21 DEF Settings!CloseImport, CallsTyped, Asks, Answers
<1>22. CASE Settings!ConfirmImport
  <2>1. pending \in Settings!Arguments("import") /\ Settings!Start("import", pending)
    BY <1>22 DEF Settings!ConfirmImport, Settings!Arguments
  <2>2. /\ CallsTyped' /\ calls["import"] = None
        /\ \A j \in Settings!Kinds \ {"import"} : calls'[j] = calls[j]
    BY <1>0, <2>1, CallStarted
  <2> QED
    BY <1>0, <1>22, <2>2 DEF Settings!ConfirmImport, Asks, Answers
<1>23. CASE Settings!ImportArrives
  <2>1. /\ CallsTyped' /\ Asks("get")' /\ calls'["import"] = None
        /\ \A j \in Settings!Kinds \ {"import", "get"} : calls'[j] = calls[j]
    BY <1>0, <1>23, CallInvalidates DEF Settings!ImportArrives
  <2> QED
    BY <1>0, <1>23, <2>1 DEF Settings!ImportArrives, Asks, Answers
<1>24. CASE Settings!ConfirmCleanup
  <2>1. None \in Settings!Arguments("cleanup")
    BY DEF Settings!Arguments
  <2>2. /\ CallsTyped'
        /\ \A j \in Settings!Kinds \ {"cleanup"} : calls'[j] = calls[j]
    BY <1>0, <1>24, <2>1, CallStarted DEF Settings!ConfirmCleanup
  <2> QED
    BY <1>0, <1>24, <2>2 DEF Settings!ConfirmCleanup, Asks, Answers
<1>25. CASE Settings!CleanupArrives
  <2>1. /\ CallsTyped' /\ calls'["cleanup"] = None
        /\ \A j \in Settings!Kinds \ {"cleanup"} : calls'[j] = calls[j]
    BY <1>0, <1>25, CallEnded DEF Settings!CleanupArrives
  <2> QED
    BY <1>0, <1>25, <2>1 DEF Settings!CleanupArrives, Asks, Answers
<1>26. ASSUME NEW k \in Settings!Writers, NEW arg \in Settings!Arguments(k),
              Settings!WriteElsewhere(k, arg)
       PROVE  SettingsInv'
  <2> DEFINE new == Settings!Written(k, arg)
  <2>1. /\ row' = new /\ unheard' = TRUE
        /\ reverted' = (reverted \/ (new # row /\ new = queryCache /\ settingsBase # new.policy))
        /\ UNCHANGED <<installed, queryCache, failedFetches, calls, settingsForm, settingsBase,
                       file, confirmed, vouched, pending>>
    BY <1>26 DEF Settings!WriteElsewhere, Settings!Write
  <2>2. new \in Settings!Rows
    BY WrittenTyped DEF Settings!Writers, Settings!Kinds
  <2> HIDE DEF new
  <2>3. CallsTyped'
    BY <2>1 DEF CallsTyped, Answers
  <2> QED
    BY <2>1, <2>2, <2>3 DEF Answers
<1> QED
  BY <1>1, <1>2, <1>3, <1>4, <1>5, <1>6, <1>7, <1>8, <1>9, <1>10, <1>11, <1>12, <1>13, <1>14,
     <1>15, <1>16, <1>17, <1>18, <1>19, <1>20, <1>21, <1>22, <1>23, <1>24, <1>25, <1>26
  DEF Settings!Next

LEMMA SettingsInvariant ==
  WebSpec => [](mountedPage = "settings" => SettingsInv)
<1> DEFINE Inv == mountedPage = "settings" => SettingsInv
<1>1. WebInit => Inv
  BY SettingsInit, PagesAssumption DEF WebInit
<1>2. Inv /\ [WebNext]_webVars => Inv'
  <2> SUFFICES ASSUME Inv, [WebNext]_webVars, mountedPage' = "settings"
               PROVE  SettingsInv'
    OBVIOUS
  <2>1. CASE WebNext
    <3>1. mountedPage = "settings" /\ Settings!Next
      BY <2>1 DEF WebNext
    <3> QED
      BY <3>1, SettingsStep, PagesAssumption
  <2>2. CASE UNCHANGED webVars
    BY <2>2 DEF SettingsInv, SettingsTyped, CallsTyped, BoxVouches, CacheFollows, FormFollows,
       Asks, Answers, webVars, settingsVars, sharedVars
  <2> QED
    BY <2>1, <2>2
<1> QED
  BY <1>1, <1>2, PTL DEF WebSpec

\* Settings page, for any files, documents, policies and number of writes: once
\* its requests have been answered, the cached settings and the form's defaults
\* are the server's, also after an acknowledgement was answered while the row was
\* being fetched, saved or imported.  The exceptions end with the next fetch: a
\* write of another client or one whose answer was lost, and an acknowledgement
\* whose answer crossed a fetch that was served before or arrived before.
THEOREM SettingsSettle ==
  WebSpec => []SettlesOnServer
<1>1. SettingsInv => Settings!SettlesOnServer
  BY DEF SettingsInv, CacheFollows, FormFollows, Settings!SettlesOnServer, Settings!Shown,
     Settings!Idle, Settings!Kinds, Asks, Answers
<1>2. (mountedPage = "settings" => SettingsInv) => SettlesOnServer
  BY <1>1 DEF SettlesOnServer
<1> QED
  BY <1>2, SettingsInvariant, PTL

\* Settings page: the executable that is installed is one the box was ticked
\* for, whichever file was chosen while another was being sent.
THEOREM SettingsVouch ==
  WebSpec => []InstallVouched
<1>1. (mountedPage = "settings" => SettingsInv) => InstallVouched
  BY DEF SettingsInv, BoxVouches, InstallVouched, Settings!InstallVouched
<1> QED
  BY <1>1, SettingsInvariant, PTL

-----------------------------------------------------------------------------
(* The list of results *)

ResultsTyped ==
  /\ storedRows \in [Results!Results -> {"absent", "unfinished", "finished"}]
  /\ zone \in Zones /\ view \in Views /\ pageNumber \in 1 .. MaxResults
  /\ answers \in [Results!Keys -> Results!Answers \cup {None}]
  /\ fetches \in [Results!Keys -> Results!Answers \cup {Results!Unserved, None}]
  /\ placeholder \in Results!Answers \cup {None}

\* The page that is shown has an answer, is being fetched, or is in error.
KeyObserved == answers[Results!key] # None \/ fetches[Results!key] # None \/ Results!key \in broken

\* Every answer, also one on its way, was given when the server had no more
\* results in that view than now.
AnswersBounded ==
  ~receded => \A k \in Results!Keys :
                /\ answers[k] # None => answers[k].totalPages <= Results!TotalPages(k.view, k.zone)
                /\ fetches[k] # None => fetches[k].totalPages <= Results!TotalPages(k.view, k.zone)

ResultsInv == ResultsTyped /\ KeyObserved /\ AnswersBounded /\ Results!PageWithinResults

LEMMA SameCardinality ==
  ASSUME NEW S
  PROVE  Results!Cardinality(S) = Cardinality(S)
  BY DEF Results!Cardinality, Cardinality, Results!IsFiniteSet, IsFiniteSet

LEMMA PagesBounds ==
  ASSUME NEW n \in Nat, NEW size \in Nat \ {0}
  PROVE  Results!PagesOf(n, size) \in Nat /\ Results!PagesOf(n, size) <= n
  BY DEF Results!PagesOf

LEMMA PagesGrow ==
  ASSUME NEW m \in Nat, NEW n \in Nat, m <= n, NEW size \in Nat \ {0}
  PROVE  Results!PagesOf(m, size) <= Results!PagesOf(n, size)
  BY DEF Results!PagesOf

LEMMA MatchingFinite ==
  ASSUME MaxResults \in Nat, NEW v, NEW z
  PROVE  /\ IsFiniteSet(Results!Matching(v, z))
         /\ Cardinality(Results!Matching(v, z)) \in Nat
         /\ Cardinality(Results!Matching(v, z)) <= MaxResults
<1>1. IsFiniteSet(Results!Results) /\ Cardinality(Results!Results) = MaxResults
  BY FS_Interval DEF Results!Results
<1>2. Results!Matching(v, z) \subseteq Results!Results
  BY DEF Results!Matching
<1>3. /\ IsFiniteSet(Results!Matching(v, z))
      /\ Cardinality(Results!Matching(v, z)) <= Cardinality(Results!Results)
  BY <1>1, <1>2, FS_Subset
<1> QED
  BY <1>1, <1>3, FS_CardinalityType

LEMMA TotalPagesBounds ==
  ASSUME Results!ConstantsApart, NEW v \in Views, NEW z
  PROVE  Results!TotalPages(v, z) \in 0 .. MaxResults
<1> DEFINE n == Cardinality(Results!Matching(v, z))
<1>1. n \in Nat /\ n <= MaxResults
  BY MatchingFinite DEF Results!ConstantsApart
<1> HIDE DEF n
<1>2. Results!PagesOf(n, v.size) \in Nat /\ Results!PagesOf(n, v.size) <= n
  BY <1>1, PagesBounds DEF Results!ConstantsApart
<1> QED
  BY <1>1, <1>2, SameCardinality DEF Results!TotalPages, n, Results!ConstantsApart

LEMMA TotalPagesGrow ==
  ASSUME Results!ConstantsApart, NEW v \in Views, NEW z, NEW y,
         Results!Matching(v, z) \subseteq Results!Matching(v, y)
  PROVE  Results!TotalPages(v, z) <= Results!TotalPages(v, y)
<1>1. /\ IsFiniteSet(Results!Matching(v, y))
      /\ Cardinality(Results!Matching(v, z)) \in Nat /\ Cardinality(Results!Matching(v, y)) \in Nat
  BY MatchingFinite DEF Results!ConstantsApart
<1>2. Cardinality(Results!Matching(v, z)) <= Cardinality(Results!Matching(v, y))
  BY <1>1, FS_Subset
<1> QED
  BY <1>1, <1>2, PagesGrow, SameCardinality DEF Results!TotalPages, Results!ConstantsApart

\* The same from one state to the next.
LEMMA TotalPagesGrowOn ==
  ASSUME Results!ConstantsApart, NEW v \in Views, NEW z,
         Results!Matching(v, z) \subseteq Results!Matching(v, z)'
  PROVE  /\ Results!TotalPages(v, z)' \in 0 .. MaxResults
         /\ Results!TotalPages(v, z) <= Results!TotalPages(v, z)'
<1> DEFINE M == Results!Matching(v, z)'
<1>1. M \subseteq Results!Results
  BY DEF Results!Matching
<1>2. IsFiniteSet(Results!Results) /\ Cardinality(Results!Results) = MaxResults
  BY FS_Interval DEF Results!Results, Results!ConstantsApart
<1>3. IsFiniteSet(M) /\ Cardinality(M) <= MaxResults
  BY <1>1, <1>2, FS_Subset
<1>4. Cardinality(M) \in Nat /\ Cardinality(Results!Matching(v, z)) \in Nat
  BY <1>3, MatchingFinite, FS_CardinalityType DEF Results!ConstantsApart
<1>5. Cardinality(Results!Matching(v, z)) <= Cardinality(M)
  BY <1>3, FS_Subset
<1>6. Results!TotalPages(v, z)' = Results!PagesOf(Cardinality(M), v.size)
  BY SameCardinality DEF Results!TotalPages, Results!PagesOf
<1> HIDE DEF M
<1>7. v.size \in Nat \ {0} /\ MaxResults \in Nat
  BY DEF Results!ConstantsApart
<1>8. /\ Results!PagesOf(Cardinality(M), v.size) \in Nat
      /\ Results!PagesOf(Cardinality(M), v.size) <= Cardinality(M)
  BY <1>4, <1>7, PagesBounds
<1>9. Results!TotalPages(v, z) <= Results!PagesOf(Cardinality(M), v.size)
  BY <1>4, <1>5, <1>7, PagesGrow, SameCardinality DEF Results!TotalPages
<1> QED
  BY <1>3, <1>4, <1>6, <1>7, <1>8, <1>9

LEMMA AnswerTyped ==
  ASSUME Results!ConstantsApart, NEW k \in Results!Keys
  PROVE  /\ Results!Answer(k) \in Results!Answers
         /\ Results!Answer(k).totalPages = Results!TotalPages(k.view, k.zone)
<1>1. k.view \in Views
  BY DEF Results!Keys
<1>2. Results!TotalPages(k.view, k.zone) \in 0 .. MaxResults
  BY <1>1, TotalPagesBounds
<1>3. Results!Matching(k.view, k.zone) \subseteq Results!Results
  BY DEF Results!Matching
<1> QED
  BY <1>2, <1>3 DEF Results!Answer, Results!Answers

LEMMA KeyIsKey ==
  ASSUME NEW v \in Views, NEW z \in Zones, NEW p \in 1 .. MaxResults
  PROVE  /\ Results!Key(v, z, p) \in Results!Keys
         /\ Results!Key(v, z, p).view = v
         /\ Results!TotalPages(v, Results!Key(v, z, p).zone) = Results!TotalPages(v, z)
<1>1. /\ Results!Key(v, z, p) \in Results!Keys /\ Results!Key(v, z, p).view = v
      /\ Results!Key(v, z, p).zone = IF v.dated THEN z ELSE None
  BY DEF Results!Key, Results!Keys
<1>2. Results!Matching(v, IF v.dated THEN z ELSE None) = Results!Matching(v, z)
  BY DEF Results!Matching
<1> QED
  BY <1>1, <1>2 DEF Results!TotalPages

\* No view loses a result.
NoneLeaves == \A v \in Views, z \in Zones \cup {None} :
                Results!Matching(v, z) \subseteq Results!Matching(v, z)'

LEMMA NoneLeavesStored ==
  ASSUME UNCHANGED storedRows
  PROVE  NoneLeaves
  BY DEF NoneLeaves, Results!Matching

\* An answer that was bounded stays so while no view loses a result.
LEMMA BoundsKept ==
  ASSUME Results!ConstantsApart, ResultsTyped, AnswersBounded, ~receded' => ~receded /\ NoneLeaves,
         \A k \in Results!Keys : answers'[k] \in {answers[k], fetches[k]},
         \A k \in Results!Keys :
           fetches'[k] \in {None, Results!Unserved, fetches[k], Results!Answer(k)}
  PROVE  AnswersBounded'
<1> SUFFICES ASSUME ~receded', NEW k \in Results!Keys
             PROVE  /\ answers'[k] # None
                         => answers'[k].totalPages <= Results!TotalPages(k.view, k.zone)'
                    /\ fetches'[k] # None
                         => fetches'[k].totalPages <= Results!TotalPages(k.view, k.zone)'
  BY DEF AnswersBounded
<1>1. k.view \in Views /\ k.zone \in Zones \cup {None}
  BY DEF Results!Keys
<1>2. /\ Results!TotalPages(k.view, k.zone) \in Int
      /\ Results!TotalPages(k.view, k.zone)' \in Nat
      /\ Results!TotalPages(k.view, k.zone) <= Results!TotalPages(k.view, k.zone)'
  BY <1>1, TotalPagesGrowOn, TotalPagesBounds DEF NoneLeaves
<1>3. /\ answers[k] # None => /\ answers[k].totalPages \in Int
                              /\ answers[k].totalPages <= Results!TotalPages(k.view, k.zone)
      /\ fetches[k] # None => /\ fetches[k].totalPages \in Int
                              /\ fetches[k].totalPages <= Results!TotalPages(k.view, k.zone)
  BY DEF AnswersBounded, ResultsTyped, Results!Answers, Results!Unserved
<1>4. /\ Results!Unserved.totalPages = -1
      /\ Results!Answer(k).totalPages = Results!TotalPages(k.view, k.zone)
  BY AnswerTyped DEF Results!Unserved
<1> QED
  BY <1>2, <1>3, <1>4

LEMMA PageKept ==
  ASSUME Results!ConstantsApart, ResultsTyped, Results!PageWithinResults,
         ~receded' => ~receded /\ NoneLeaves, UNCHANGED <<view, zone, pageNumber>>
  PROVE  Results!PageWithinResults'
<1> SUFFICES ASSUME ~receded'
             PROVE  pageNumber <= Results!Most(1, Results!TotalPages(view, zone)')
  BY DEF Results!PageWithinResults, Results!TotalPages, Results!Matching
<1>1. PICK v \in Views, z \in Zones : v = view /\ z = zone
  BY DEF ResultsTyped
<1>2. /\ Results!TotalPages(v, z) \in Int /\ Results!TotalPages(v, z)' \in Int
      /\ Results!TotalPages(v, z) <= Results!TotalPages(v, z)'
  BY <1>1, TotalPagesGrowOn, TotalPagesBounds DEF NoneLeaves
<1>3. pageNumber \in Int /\ pageNumber <= Results!Most(1, Results!TotalPages(v, z))
  BY <1>1 DEF ResultsTyped, Results!PageWithinResults
<1>4. Results!TotalPages(view, zone)' = Results!TotalPages(v, z)'
  BY <1>1
<1> QED
  BY <1>2, <1>3, <1>4 DEF Results!Most

\* Steps that leave the results, the filters and the page number as they are.
LEMMA QueriesKeep ==
  ASSUME Results!ConstantsApart, ResultsInv, ~receded' => ~receded /\ NoneLeaves,
         storedRows' \in [Results!Results -> {"absent", "unfinished", "finished"}],
         UNCHANGED <<zone, view, pageNumber>>,
         answers' \in [Results!Keys -> Results!Answers \cup {None}],
         fetches' \in [Results!Keys -> Results!Answers \cup {Results!Unserved, None}],
         placeholder' = placeholder,
         \A k \in Results!Keys : answers'[k] \in {answers[k], fetches[k]},
         \A k \in Results!Keys :
           fetches'[k] \in {None, Results!Unserved, fetches[k], Results!Answer(k)},
         KeyObserved'
  PROVE  ResultsInv'
<1>1. ResultsTyped'
  BY DEF ResultsInv, ResultsTyped
<1>2. AnswersBounded'
  BY BoundsKept DEF ResultsInv
<1>3. Results!PageWithinResults'
  BY PageKept DEF ResultsInv
<1> QED
  BY <1>1, <1>2, <1>3 DEF ResultsInv

\* Steps that touch neither the key on the screen nor its query.
LEMMA OthersKeep ==
  ASSUME Results!ConstantsApart, ResultsInv, ~receded' => ~receded /\ NoneLeaves,
         storedRows' \in [Results!Results -> {"absent", "unfinished", "finished"}],
         UNCHANGED <<zone, view, pageNumber, answers, fetches, broken, placeholder>>
  PROVE  ResultsInv'
<1>1. KeyObserved'
  BY DEF ResultsInv, KeyObserved, Results!key, Results!Key
<1> QED
  BY <1>1, QueriesKeep DEF ResultsInv, ResultsTyped

LEMMA KeyOnScreen ==
  ASSUME ResultsTyped
  PROVE  /\ Results!key \in Results!Keys /\ Results!key.view = view
         /\ Results!TotalPages(view, Results!key.zone) = Results!TotalPages(view, zone)
  BY KeyIsKey DEF ResultsTyped, Results!key

LEMMA AskedKey ==
  ASSUME Results!ConstantsApart, ResultsTyped, NEW k \in Results!Keys, Results!Asked(k)
  PROVE  /\ fetches' \in [Results!Keys -> Results!Answers \cup {Results!Unserved, None}]
         /\ fetches'[k] = Results!Unserved /\ fetches'[k] # None
         /\ \A j \in Results!Keys \ {k} : fetches'[j] = fetches[j]
         /\ broken \subseteq broken' \cup {k}
  BY DEF Results!ConstantsApart, ResultsTyped, Results!Asked

LEMMA RefetchedKey ==
  ASSUME Results!ConstantsApart, ResultsInv, Results!Refetched, answers' = answers,
         UNCHANGED <<zone, view, pageNumber, placeholder, storedRows, receded>>
  PROVE  ResultsInv'
<1>1. Results!key \in Results!Keys
  BY KeyOnScreen DEF ResultsInv
<1>2. Results!key' = Results!key
  BY DEF Results!key, Results!Key
<1>3. CASE UNCHANGED <<fetches, broken>>
  BY <1>3, OthersKeep, NoneLeavesStored DEF ResultsInv, ResultsTyped
<1>4. CASE Results!Asked(Results!key)
  <2>1. /\ fetches' \in [Results!Keys -> Results!Answers \cup {Results!Unserved, None}]
        /\ fetches'[Results!key] # None
        /\ \A j \in Results!Keys : fetches'[j] \in {Results!Unserved, fetches[j]}
    BY <1>1, <1>4, AskedKey DEF ResultsInv
  <2>2. KeyObserved'
    BY <1>2, <2>1 DEF KeyObserved
  <2> QED
    BY <2>1, <2>2, QueriesKeep, NoneLeavesStored DEF ResultsInv, ResultsTyped
<1> QED
  BY <1>3, <1>4 DEF Results!Refetched

LEMMA TotalsStored ==
  ASSUME UNCHANGED storedRows, NEW v, NEW z
  PROVE  Results!TotalPages(v, z)' = Results!TotalPages(v, z)
<1>1. Results!Matching(v, z)' = Results!Matching(v, z)
  BY DEF Results!Matching
<1> QED
  BY <1>1 DEF Results!TotalPages

LEMMA ObservedKey ==
  ASSUME Results!ConstantsApart, ResultsTyped, NEW k \in Results!Keys, Results!Observed(k)
  PROVE  /\ answers' = answers
         /\ fetches' \in [Results!Keys -> Results!Answers \cup {Results!Unserved, None}]
         /\ \A j \in Results!Keys : fetches'[j] \in {Results!Unserved, fetches[j]}
         /\ placeholder' \in Results!Answers \cup {None}
         /\ answers'[k] # None \/ fetches'[k] # None
<1>1. Results!shown \in Results!Answers \cup {None}
  BY KeyOnScreen DEF Results!shown, ResultsTyped
<1>2. answers' = answers /\ placeholder' \in Results!Answers \cup {None}
  BY <1>1 DEF Results!Observed, ResultsTyped
<1>3. CASE Results!Asked(k)
  BY <1>2, <1>3, AskedKey
<1>4. CASE /\ fetches[k] # None \/ (answers[k] # None /\ k \notin old)
           /\ UNCHANGED <<fetches, broken>>
  BY <1>2, <1>4 DEF ResultsTyped
<1> QED
  BY <1>3, <1>4 DEF Results!Observed

\* Other filters or another page are asked for.
LEMMA ChoiceKeeps ==
  ASSUME Results!ConstantsApart, ResultsInv,
         NEW v \in Views, NEW z \in Zones, NEW p \in 1 .. MaxResults,
         view' = v, zone' = z, pageNumber' = p, UNCHANGED storedRows,
         Results!Observed(Results!Key(v, z, p)),
         ~receded' => ~receded /\ p <= Results!Most(1, Results!TotalPages(v, z))
  PROVE  ResultsInv'
<1> DEFINE k == Results!Key(v, z, p)
<1>1. k \in Results!Keys
  BY KeyIsKey
<1>2. Results!key' = k
  BY DEF Results!key, Results!Key
<1> HIDE DEF k
<1>3. /\ answers' = answers
      /\ fetches' \in [Results!Keys -> Results!Answers \cup {Results!Unserved, None}]
      /\ \A j \in Results!Keys : fetches'[j] \in {Results!Unserved, fetches[j]}
      /\ placeholder' \in Results!Answers \cup {None}
      /\ answers'[k] # None \/ fetches'[k] # None
  BY <1>1, ObservedKey DEF ResultsInv, k
<1>4. ResultsTyped'
  BY <1>3 DEF ResultsInv, ResultsTyped
<1>5. KeyObserved'
  BY <1>2, <1>3 DEF KeyObserved
<1>6. AnswersBounded'
  BY <1>3, BoundsKept, NoneLeavesStored DEF ResultsInv
<1>7. Results!PageWithinResults'
  BY TotalsStored DEF Results!PageWithinResults
<1> QED
  BY <1>4, <1>5, <1>6, <1>7 DEF ResultsInv

LEMMA ResultsInit ==
  ASSUME Results!ConstantsApart, Results!Init
  PROVE  ResultsInv
<1>1. ResultsTyped
  BY DEF Results!Init, ResultsTyped, Results!ConstantsApart
<1>2. Results!key \in Results!Keys
  BY <1>1, KeyOnScreen
<1>3. KeyObserved
  BY <1>2 DEF Results!Init, KeyObserved, Results!ConstantsApart
<1>4. AnswersBounded
  <2> SUFFICES ASSUME NEW k \in Results!Keys
               PROVE  /\ answers[k] = None
                      /\ fetches[k] # None
                           => fetches[k].totalPages <= Results!TotalPages(k.view, k.zone)
    BY DEF AnswersBounded
  <2>1. Results!TotalPages(k.view, k.zone) \in Nat
    BY TotalPagesBounds DEF Results!Keys
  <2> QED
    BY <2>1 DEF Results!Init, Results!Unserved
<1>5. Results!PageWithinResults
  <2>1. Results!TotalPages(view, zone) \in Nat
    BY <1>1, TotalPagesBounds DEF ResultsTyped
  <2> QED
    BY <2>1 DEF Results!Init, Results!PageWithinResults, Results!Most
<1> QED
  BY <1>1, <1>3, <1>4, <1>5 DEF ResultsInv

LEMMA NextPageKeeps ==
  ASSUME Results!ConstantsApart, ResultsInv, Results!NextPage
  PROVE  ResultsInv'
<1>1. answers[Results!key] \in Results!Answers
  <2>1. Results!key \notin broken /\ fetches[Results!key] = None
    BY DEF Results!NextPage, Results!Usable, Results!isFetching
  <2> QED
    BY <2>1, KeyOnScreen DEF ResultsInv, KeyObserved, ResultsTyped
<1>2. Results!shown = answers[Results!key]
  BY <1>1 DEF Results!shown, Results!ConstantsApart
<1>3. pageNumber \in Nat \ {0} /\ pageNumber < answers[Results!key].totalPages
  BY <1>2 DEF Results!NextPage, ResultsInv, ResultsTyped
<1>4. answers[Results!key].totalPages \in 0 .. MaxResults
  BY <1>1 DEF Results!Answers
<1>5. MaxResults \in Nat
  BY DEF Results!ConstantsApart
<1>6. pageNumber + 1 \in 1 .. MaxResults
  BY <1>3, <1>4, <1>5
<1>7. ASSUME ~receded
      PROVE  pageNumber + 1 <= Results!Most(1, Results!TotalPages(view, zone))
  <2>1. answers[Results!key].totalPages <= Results!TotalPages(view, zone)
    BY <1>1, <1>7, KeyOnScreen DEF ResultsInv, AnswersBounded, Results!ConstantsApart
  <2>2. Results!TotalPages(view, zone) \in Int
    BY TotalPagesBounds DEF ResultsInv, ResultsTyped
  <2> QED
    BY <1>3, <1>4, <2>1, <2>2 DEF Results!Most
<1>8. PICK v \in Views, z \in Zones, p \in 1 .. MaxResults :
        v = view /\ z = zone /\ p = pageNumber + 1
  BY <1>6 DEF ResultsInv, ResultsTyped
<1>9. /\ view' = v /\ zone' = z /\ pageNumber' = p /\ UNCHANGED <<storedRows, receded>>
      /\ Results!Observed(Results!Key(v, z, p))
  BY <1>8 DEF Results!NextPage, Results!Turn, Results!server
<1> QED
  BY <1>7, <1>8, <1>9, ChoiceKeeps

LEMMA PreviousPageKeeps ==
  ASSUME Results!ConstantsApart, ResultsInv, Results!PreviousPage
  PROVE  ResultsInv'
<1>1. pageNumber \in 1 .. MaxResults /\ pageNumber > 1 /\ MaxResults \in Nat
  BY DEF Results!PreviousPage, ResultsInv, ResultsTyped, Results!ConstantsApart
<1>2. PICK v \in Views, z \in Zones, p \in 1 .. MaxResults :
        v = view /\ z = zone /\ p = pageNumber - 1
  BY <1>1 DEF ResultsInv, ResultsTyped
<1>3. /\ view' = v /\ zone' = z /\ pageNumber' = p /\ UNCHANGED <<storedRows, receded>>
      /\ Results!Observed(Results!Key(v, z, p))
  BY <1>2 DEF Results!PreviousPage, Results!Turn, Results!server
<1>4. ~receded => p <= Results!Most(1, Results!TotalPages(v, z))
  <2>1. Results!TotalPages(v, z) \in Int
    BY TotalPagesBounds
  <2> QED
    BY <1>1, <1>2, <2>1 DEF ResultsInv, Results!PageWithinResults, Results!Most
<1> QED
  BY <1>3, <1>4, ChoiceKeeps

LEMMA ZoneKeeps ==
  ASSUME Results!ConstantsApart, ResultsInv, NEW z \in Zones, Results!ZoneArrives(z)
  PROVE  ResultsInv'
<1>1. /\ zone' = z /\ UNCHANGED <<storedRows, view, pageNumber>>
      /\ ~receded' => /\ ~receded
                      /\ \A v \in Views : Results!Matching(v, zone) \subseteq Results!Matching(v, z)
  BY DEF Results!ZoneArrives, Results!choice
<1>2. PICK v \in Views, p \in 1 .. MaxResults : v = view /\ p = pageNumber
  BY DEF ResultsInv, ResultsTyped
<1>3. ~receded' => p <= Results!Most(1, Results!TotalPages(v, z))
  <2> SUFFICES ASSUME ~receded'
               PROVE  p <= Results!Most(1, Results!TotalPages(v, z))
    OBVIOUS
  <2>1. Results!TotalPages(v, zone) \in Int /\ Results!TotalPages(v, z) \in Int
    BY TotalPagesBounds
  <2>2. Results!TotalPages(v, zone) <= Results!TotalPages(v, z)
    BY <1>1, TotalPagesGrow
  <2>3. p <= Results!Most(1, Results!TotalPages(v, zone))
    BY <1>1, <1>2 DEF ResultsInv, Results!PageWithinResults
  <2> QED
    BY <2>1, <2>2, <2>3 DEF Results!Most
<1>4. CASE view.dated
  BY <1>1, <1>2, <1>3, <1>4, ChoiceKeeps DEF Results!ZoneArrives
<1>5. CASE ~view.dated
  <2>1. UNCHANGED <<answers, fetches, broken, placeholder>>
    BY <1>5 DEF Results!ZoneArrives, Results!queries
  <2>2. ResultsTyped'
    BY <1>1, <2>1 DEF ResultsInv, ResultsTyped
  <2>3. KeyObserved'
    BY <1>1, <1>5, <2>1 DEF ResultsInv, KeyObserved, Results!key, Results!Key
  <2>4. AnswersBounded'
    BY <1>1, <2>1, BoundsKept, NoneLeavesStored DEF ResultsInv
  <2>5. Results!PageWithinResults'
    <3>1. Results!TotalPages(v, z)' = Results!TotalPages(v, z)
      BY <1>1, TotalsStored
    <3> QED
      BY <1>1, <1>2, <1>3, <3>1 DEF Results!PageWithinResults
  <2> QED
    BY <2>2, <2>3, <2>4, <2>5 DEF ResultsInv
<1> QED
  BY <1>4, <1>5

\* Every step of the page, of its queries and of the server keeps the invariant.
LEMMA ResultsStep ==
  ASSUME Results!ConstantsApart, ResultsInv, Results!Next
  PROVE  ResultsInv'
<1> USE DEF Results!server, Results!queries, Results!choice, Results!deletion
<1>1. ASSUME NEW k \in Results!Keys, Results!Serve(k)
      PROVE  ResultsInv'
  <2>1. fetches' = [fetches EXCEPT ![k] = Results!Answer(k)] /\ fetches[k] = Results!Unserved
    BY <1>1 DEF Results!Serve
  <2>2. UNCHANGED <<storedRows, receded, zone, view, pageNumber, answers, placeholder, broken>>
    BY <1>1 DEF Results!Serve
  <2>3. Results!Answer(k) \in Results!Answers /\ Results!Answer(k) # None
    BY AnswerTyped DEF Results!ConstantsApart
  <2>4. /\ fetches' \in [Results!Keys -> Results!Answers \cup {Results!Unserved, None}]
        /\ \A j \in Results!Keys : fetches'[j] \in {fetches[j], Results!Answer(j)}
        /\ \A j \in Results!Keys : fetches[j] # None => fetches'[j] # None
    BY <2>1, <2>3 DEF ResultsInv, ResultsTyped
  <2>5. KeyObserved'
    BY <2>2, <2>4, KeyOnScreen DEF ResultsInv, KeyObserved, Results!key, Results!Key
  <2> QED
    BY <2>2, <2>4, <2>5, QueriesKeep, NoneLeavesStored DEF ResultsInv, ResultsTyped
<1>2. ASSUME NEW k \in Results!Keys, Results!Arrives(k)
      PROVE  ResultsInv'
  <2>1. /\ fetches' = [fetches EXCEPT ![k] = None]
        /\ answers' = [answers EXCEPT ![k] = fetches[k]]
        /\ broken' = broken \ {k}
        /\ UNCHANGED <<storedRows, receded, zone, view, pageNumber, placeholder>>
    BY <1>2 DEF Results!Arrives
  <2>2. fetches[k] \in Results!Answers /\ fetches[k] # None
    BY <1>2 DEF Results!Arrives, ResultsInv, ResultsTyped
  <2>3. /\ fetches' \in [Results!Keys -> Results!Answers \cup {Results!Unserved, None}]
        /\ answers' \in [Results!Keys -> Results!Answers \cup {None}]
        /\ \A j \in Results!Keys : fetches'[j] \in {fetches[j], None}
        /\ \A j \in Results!Keys : answers'[j] \in {answers[j], fetches[j]}
        /\ answers'[k] # None
        /\ \A j \in Results!Keys \ {k} : answers'[j] = answers[j] /\ fetches'[j] = fetches[j]
    BY <2>1, <2>2 DEF ResultsInv, ResultsTyped
  <2>4. KeyObserved'
    <3>1. Results!key' = Results!key /\ Results!key \in Results!Keys
      BY <2>1, KeyOnScreen DEF ResultsInv, Results!key, Results!Key
    <3> QED
      BY <2>1, <2>3, <3>1 DEF ResultsInv, KeyObserved
  <2> QED
    BY <2>1, <2>3, <2>4, QueriesKeep, NoneLeavesStored DEF ResultsInv, ResultsTyped
<1>3. ASSUME NEW k \in Results!Keys, Results!Fails(k)
      PROVE  ResultsInv'
  <2>1. /\ fetches' = [fetches EXCEPT ![k] = None] /\ broken' = broken \cup {k}
        /\ UNCHANGED <<storedRows, receded, zone, view, pageNumber, answers, placeholder>>
    BY <1>3 DEF Results!Fails
  <2>2. /\ fetches' \in [Results!Keys -> Results!Answers \cup {Results!Unserved, None}]
        /\ \A j \in Results!Keys : fetches'[j] \in {fetches[j], None}
        /\ \A j \in Results!Keys \ {k} : fetches'[j] = fetches[j]
    BY <2>1 DEF ResultsInv, ResultsTyped
  <2>3. KeyObserved'
    <3>1. Results!key' = Results!key /\ Results!key \in Results!Keys
      BY <2>1, KeyOnScreen DEF ResultsInv, Results!key, Results!Key
    <3> QED
      BY <2>1, <2>2, <3>1 DEF ResultsInv, KeyObserved
  <2> QED
    BY <2>1, <2>2, <2>3, QueriesKeep, NoneLeavesStored DEF ResultsInv, ResultsTyped
<1>4. ASSUME \/ Results!ListsFail \/ Results!ListsArrive \/ Results!ToggleAll
             \/ Results!ConfirmDelete \/ Results!DeleteFails
             \/ \E r \in Results!Results : Results!Toggle(r)
             \/ \E b \in BOOLEAN : Results!AskDelete(b)
      PROVE  ResultsInv'
  <2>1. UNCHANGED <<storedRows, receded, zone, view, pageNumber,
                    answers, fetches, broken, placeholder>>
    BY <1>4 DEF Results!ListsFail, Results!ListsArrive, Results!ToggleAll, Results!ConfirmDelete,
       Results!DeleteFails, Results!Toggle, Results!AskDelete
  <2> QED
    BY <2>1, OthersKeep, NoneLeavesStored DEF ResultsInv, ResultsTyped
<1>5. CASE Results!Retry \/ Results!EventArrives \/ Results!DeleteArrives
  <2>1. /\ Results!Refetched /\ answers' = answers
        /\ UNCHANGED <<zone, view, pageNumber, placeholder, storedRows, receded>>
    BY <1>5 DEF Results!Retry, Results!EventArrives, Results!DeleteArrives, Results!Invalidated
  <2> QED
    BY <2>1, RefetchedKey
<1>6. ASSUME NEW v \in Views, Results!ChangeView(v)
      PROVE  ResultsInv'
  <2>1. PICK z \in Zones : z = zone
    BY DEF ResultsInv, ResultsTyped
  <2>2. /\ view' = v /\ zone' = z /\ pageNumber' = 1 /\ UNCHANGED <<storedRows, receded>>
        /\ Results!Observed(Results!Key(v, z, 1))
    BY <1>6, <2>1 DEF Results!ChangeView
  <2>3. 1 \in 1 .. MaxResults
    BY DEF Results!ConstantsApart
  <2>4. 1 <= Results!Most(1, Results!TotalPages(v, z))
    BY TotalPagesBounds DEF Results!Most
  <2> QED
    BY <2>2, <2>3, <2>4, ChoiceKeeps
<1>7. CASE Results!NextPage \/ Results!PreviousPage
  BY <1>7, NextPageKeeps, PreviousPageKeeps
<1>8. ASSUME NEW z \in Zones, Results!ZoneArrives(z)
      PROVE  ResultsInv'
  BY <1>8, ZoneKeeps
<1>9. ASSUME NEW r \in Results!Results, Results!Queue(r)
      PROVE  ResultsInv'
  <2>1. /\ storedRows[r] = "absent" /\ storedRows' = [storedRows EXCEPT ![r] = "unfinished"]
        /\ UNCHANGED <<receded, zone, view, pageNumber, answers, fetches, broken, placeholder>>
    BY <1>9 DEF Results!Queue
  <2>2. /\ storedRows' \in [Results!Results -> {"absent", "unfinished", "finished"}]
        /\ \A q \in Results!Results : storedRows'[q] = storedRows[q] \/ storedRows[q] = "absent"
    BY <2>1 DEF ResultsInv, ResultsTyped
  <2>3. NoneLeaves
    BY <2>2 DEF NoneLeaves, Results!Matching
  <2> QED
    BY <2>1, <2>2, <2>3, OthersKeep
<1>10. ASSUME NEW r \in Results!Results, Results!Finish(r)
      PROVE  ResultsInv'
  <2>1. /\ storedRows[r] = "unfinished" /\ storedRows' = [storedRows EXCEPT ![r] = "finished"]
        /\ ~receded' => ~receded /\ \A v \in Views : ~v.unfinished
        /\ UNCHANGED <<zone, view, pageNumber, answers, fetches, broken, placeholder>>
    BY <1>10 DEF Results!Finish
  <2>2. /\ storedRows' \in [Results!Results -> {"absent", "unfinished", "finished"}]
        /\ \A q \in Results!Results : storedRows[q] # "absent" => storedRows'[q] # "absent"
    BY <2>1 DEF ResultsInv, ResultsTyped
  <2>3. ~receded' => NoneLeaves
    BY <2>1, <2>2 DEF NoneLeaves, Results!Matching
  <2> QED
    BY <2>1, <2>2, <2>3, OthersKeep
<1>11. ASSUME NEW r \in Results!Results, Results!Purge(r)
      PROVE  ResultsInv'
  <2>1. /\ storedRows' = [storedRows EXCEPT ![r] = "absent"] /\ receded'
        /\ UNCHANGED <<zone, view, pageNumber, answers, fetches, broken, placeholder>>
    BY <1>11 DEF Results!Purge
  <2>2. storedRows' \in [Results!Results -> {"absent", "unfinished", "finished"}]
    BY <2>1 DEF ResultsInv, ResultsTyped
  <2> QED
    BY <2>1, <2>2, OthersKeep
<1>12. CASE Results!DeleteServed
  <2>1. /\ storedRows' = [r \in Results!Results |->
                        IF r \in deleting.ids THEN "absent" ELSE storedRows[r]]
        /\ receded'
        /\ UNCHANGED <<zone, view, pageNumber, answers, fetches, broken, placeholder>>
    BY <1>12 DEF Results!DeleteServed, Results!DeleteResultsBatch
  <2>2. storedRows' \in [Results!Results -> {"absent", "unfinished", "finished"}]
    BY <2>1 DEF ResultsInv, ResultsTyped
  <2> QED
    BY <2>1, <2>2, OthersKeep
<1> QED
  BY <1>1, <1>2, <1>3, <1>4, <1>5, <1>6, <1>7, <1>8, <1>9, <1>10, <1>11, <1>12 DEF Results!Next

\* List of results, for any number of results, views, zones and page sizes: the
\* page that is asked for is one the server has, as long as no result has left a
\* view; answers that arrive late or out of order do not lead beyond the last.
THEOREM ResultsPageExists ==
  WebSpec => []PageWithinResults
<1> DEFINE Inv == mountedPage = "results" => ResultsInv
<1>1. WebInit => Inv
  BY ResultsInit, PagesAssumption DEF WebInit
<1>2. Inv /\ [WebNext]_webVars => Inv'
  <2> SUFFICES ASSUME Inv, [WebNext]_webVars, mountedPage' = "results"
               PROVE  ResultsInv'
    OBVIOUS
  <2>1. CASE WebNext
    <3>1. mountedPage = "results" /\ Results!Next
      BY <2>1 DEF WebNext
    <3> QED
      BY <3>1, ResultsStep, PagesAssumption
  <2>2. CASE UNCHANGED webVars
    BY <2>2, OthersKeep, NoneLeavesStored, PagesAssumption
    DEF ResultsInv, ResultsTyped, webVars, resultsVars,
       sharedVars
  <2> QED
    BY <2>1, <2>2
<1>3. Inv => PageWithinResults
  BY DEF ResultsInv, PageWithinResults
<1> QED
  BY <1>1, <1>2, <1>3, PTL DEF WebSpec

-----------------------------------------------------------------------------
(* The network page *)

NetworkTyped ==
  /\ storedRows \in Network!Lists
  /\ routes \in Network!Lists \cup {None}
  /\ routesFetch \in Network!Lists \cup {None, Network!Unserved}
  /\ draft \in Network!Paths
  /\ editRoute \in ProfileIds \cup {Blank, None}
  /\ savingRoute \in Network!Saves \cup {None}
  /\ deleteRoute \in ProfileIds \cup {None}
  /\ deleting \in Network!Deletions \cup {None}
  /\ validation \in [profile : ProfileIds, pending : BOOLEAN] \cup {None}
  /\ checks \subseteq [arg : ProfileIds, number : Nat, done : BOOLEAN]
  /\ requestCount \in Nat

\* Nothing can be asked for before the profiles have been listed.
RequestsNeedRoutes == routes = None => savingRoute = None /\ deleting = None /\ checks = {}

\* The server is done with a request whose answer has not arrived.
Unanswered ==
  \/ savingRoute # None /\ savingRoute.done
  \/ deleting # None /\ deleting.done
  \/ \E c \in checks : c.done

\* What will show the profiles as they are: an answer that has them fetched, a
\* fetch that is not served yet or was served since they changed last, the
\* list itself, or the retry of a fetch that failed.
RoutesFollow ==
  \/ overtaken \/ Unanswered
  \/ routesFetch = Network!Unserved \/ routesFetch = storedRows
  \/ routesFetch = None /\ (routes = storedRows \/ routes = None \/ "routes" \in failedFetches)

\* A profile is shown as being validated only while a validation is under way.
PendingIsChecked == (validation # None /\ validation.pending) => checks # {}

NetworkInv == NetworkTyped /\ RequestsNeedRoutes /\ RoutesFollow /\ PendingIsChecked

LEMMA NetworkPaths ==
  ASSUME Network!ConstantsApart
  PROVE  /\ Network!routeDefaults \in Network!Paths
         /\ \A l \in Links : /\ Network!Row(l) \in Network!Rows
                             /\ l \in Network!Paths
         /\ \A l \in Network!Paths : Network!Row(l) \in Network!Rows
         /\ Network!Unserved # None
         /\ None \notin Network!Lists
<1>1. Network!Unserved \in [{} -> {None}]
  BY DEF Network!Unserved
<1> QED
  BY <1>1 DEF Network!ConstantsApart, Network!routeDefaults, Network!Paths, Network!Row,
     Network!Rows,
     Network!InterfaceNames, Network!SourceIps

LEMMA NetworkInit ==
  ASSUME Network!ConstantsApart, Network!Init
  PROVE  NetworkInv
<1>1. (CHOOSE l \in Links : TRUE) \in Links
  BY DEF Network!ConstantsApart
<1>2. storedRows \in Network!Lists
  BY <1>1, NetworkPaths DEF Network!Init, Network!Lists
<1>3. NetworkTyped
  BY <1>2, NetworkPaths DEF NetworkTyped, Network!Init
<1> QED
  BY <1>3 DEF NetworkInv, Network!Init, RequestsNeedRoutes, RoutesFollow, PendingIsChecked
\* Every step of the page, of its requests and of the server keeps the invariant.
LEMMA NetworkStep ==
  ASSUME Network!ConstantsApart, NetworkInv, Network!Next
  PROVE  NetworkInv'
<1> USE DEF NetworkInv, NetworkTyped, RequestsNeedRoutes,
            RoutesFollow, PendingIsChecked, Unanswered,
            Network!routeQuery, Network!filter, Network!dialog, Network!removal, Network!check,
            Network!history
<1>1. CASE Network!RoutesServed
  BY <1>1, NetworkPaths DEF Network!RoutesServed
<1>2. CASE Network!RoutesArrive
  BY <1>2, NetworkPaths DEF Network!RoutesArrive
<1>3. CASE Network!RoutesFail
  BY <1>3, NetworkPaths DEF Network!RoutesFail
<1>4. CASE Network!LinksArrive
  BY <1>4, NetworkPaths DEF Network!LinksArrive
<1>5. CASE Network!LinksFail
  BY <1>5, NetworkPaths DEF Network!LinksFail
<1>6. CASE Network!Retry
  BY <1>6, NetworkPaths DEF Network!Retry, Network!InvalidateRoutes
<1>7. CASE Network!EventArrives
  BY <1>7, NetworkPaths DEF Network!EventArrives, Network!InvalidateRoutes
<1>8. CASE Network!ToggleDown
  BY <1>8, NetworkPaths DEF Network!ToggleDown
<1>9. CASE Network!Refresh
  BY <1>9, NetworkPaths DEF Network!Refresh, Network!Starts
<1>10. CASE Network!RefreshEnds
  BY <1>10, NetworkPaths DEF Network!RefreshEnds
<1>11. ASSUME NEW p \in ProfileIds \cup {Blank}, Network!Open(p)
      PROVE  NetworkInv'
  <2>1. p \in ProfileIds => routes[p] \in Network!Rows /\ routes[p].path \in Network!Paths
    BY <1>11 DEF Network!Open, Network!Usable, Network!Shown, Network!Lists, Network!Rows
  <2> QED
    BY <1>11, <2>1, NetworkPaths DEF Network!Open
<1>12. CASE Network!Close
  BY <1>12, NetworkPaths DEF Network!Close
<1>13. ASSUME NEW i \in Network!InterfaceNames \cup {Blank}, Network!SelectInterface(i)
      PROVE  NetworkInv'
  BY <1>13, NetworkPaths DEF Network!SelectInterface, Network!Enter, Network!Paths
<1>14. ASSUME NEW a \in Network!SourceIps, Network!SelectSource(a)
      PROVE  NetworkInv'
  BY <1>14, NetworkPaths DEF Network!SelectSource, Network!Enter, Network!Paths
<1>15. CASE Network!Save
  <2>1. savingRoute' \in Network!Saves /\ ~savingRoute'.done
    BY <1>15 DEF Network!Save, Network!Request, Network!Saves
  <2> QED
    BY <1>15, <2>1 DEF Network!Save, Network!Starts, Network!Shown
<1>16. CASE Network!SaveServed
  <2>1. savingRoute \in Network!Saves
    BY <1>16 DEF Network!SaveServed
  <2>2. savingRoute' \in Network!Saves /\ savingRoute'.done
    BY <1>16, <2>1 DEF Network!SaveServed, Network!Saves
  <2>3. Network!Row(savingRoute.arg.path) \in Network!Rows
    BY <2>1, NetworkPaths DEF Network!Saves
  <2>4. storedRows' \in Network!Lists
    BY <1>16, <2>3 DEF Network!SaveServed, Network!UpdateRouteProfile,
       Network!CreateRouteProfile, Network!Lists
  <2> QED
    BY <1>16, <2>2, <2>4 DEF Network!SaveServed, Network!ConstantsApart
<1>17. CASE Network!SaveArrives
  BY <1>17, NetworkPaths DEF Network!SaveArrives, Network!InvalidateRoutes
<1>18. CASE Network!SaveFails
  BY <1>18, NetworkPaths DEF Network!SaveFails, Network!Loses
<1>19. ASSUME NEW p \in ProfileIds, Network!AskDelete(p)
      PROVE  NetworkInv'
  BY <1>19, NetworkPaths DEF Network!AskDelete
<1>20. ASSUME NEW p \in ProfileIds, Network!Validate(p)
      PROVE  NetworkInv'
  <2>1. [arg |-> p, number |-> requestCount', done |-> FALSE]
          \in [arg : ProfileIds, number : Nat, done : BOOLEAN]
    BY <1>20 DEF Network!Validate, Network!Starts
  <2> QED
    BY <1>20, <2>1 DEF Network!Validate, Network!Starts, Network!Usable, Network!Shown
<1>21. ASSUME NEW p \in ProfileIds, Network!ForeignWrite(p)
      PROVE  NetworkInv'
  <2>1. storedRows' \in Network!Lists
    BY <1>21, NetworkPaths DEF Network!ForeignWrite, Network!Lists
  <2> QED
    BY <1>21, <2>1 DEF Network!ForeignWrite
<1>22. CASE Network!Dismiss
  BY <1>22, NetworkPaths DEF Network!Dismiss
<1>23. CASE Network!ConfirmDelete
  <2>1. deleting' \in Network!Deletions /\ ~deleting'.done
    BY <1>23 DEF Network!ConfirmDelete, Network!Request, Network!Deletions
  <2> QED
    BY <1>23, <2>1 DEF Network!ConfirmDelete, Network!Starts, Network!Shown
<1>24. CASE Network!DeleteServed
  <2>1. deleting \in Network!Deletions
    BY <1>24 DEF Network!DeleteServed
  <2>2. deleting' \in Network!Deletions /\ deleting'.done
    BY <1>24, <2>1 DEF Network!DeleteServed, Network!Deletions
  <2>3. storedRows' \in Network!Lists
    BY <1>24 DEF Network!DeleteServed, Network!DeleteRouteProfile, Network!Lists
  <2> QED
    BY <1>24, <2>2, <2>3 DEF Network!DeleteServed, Network!ConstantsApart
<1>25. CASE Network!DeleteArrives
  BY <1>25, NetworkPaths DEF Network!DeleteArrives, Network!InvalidateRoutes
<1>26. CASE Network!DeleteFails
  BY <1>26, NetworkPaths DEF Network!DeleteFails, Network!Loses
<1>27. ASSUME NEW c \in checks, Network!CheckServed(c)
      PROVE  NetworkInv'
  <2>1. c \in [arg : ProfileIds, number : Nat, done : BOOLEAN]
    BY <1>27
  <2>2. /\ [c EXCEPT !.done = TRUE] \in [arg : ProfileIds, number : Nat, done : BOOLEAN]
        /\ [c EXCEPT !.done = TRUE].done
    BY <2>1
  <2>3. storedRows' \in Network!Lists
    <3>1. storedRows[c.arg] \in Network!Rows
      BY <1>27, <2>1 DEF Network!CheckServed, Network!ValidateRouteProfile, Network!Lists
    <3>2. \A o \in {"valid", "mismatch"} : [storedRows[c.arg] EXCEPT !.outcome = o] \in Network!Rows
      BY <3>1 DEF Network!Rows
    <3> QED
      BY <1>27, <2>1, <3>2 DEF Network!CheckServed, Network!ValidateRouteProfile, Network!Lists
  <2> QED
    BY <1>27, <2>2, <2>3 DEF Network!CheckServed
<1>28. ASSUME NEW c \in checks, Network!CheckArrives(c)
      PROVE  NetworkInv'
  BY <1>28, NetworkPaths DEF Network!CheckArrives, Network!InvalidateRoutes, Network!Settled
<1>29. ASSUME NEW c \in checks, Network!CheckFails(c)
      PROVE  NetworkInv'
  BY <1>29, NetworkPaths DEF Network!CheckFails, Network!Loses, Network!Settled
<1> QED
  BY <1>1, <1>2, <1>3, <1>4, <1>5, <1>6, <1>7, <1>8, <1>9, <1>10, <1>11, <1>12, <1>13, <1>14,
     <1>15, <1>16, <1>17, <1>18, <1>19, <1>20, <1>21, <1>22, <1>23, <1>24, <1>25, <1>26, <1>27,
     <1>28, <1>29 DEF Network!Next

\* Network page, for any profiles, interfaces and number of requests: once its
\* requests have been answered the list is the server's, and no profile is
\* shown as being validated, unless another client wrote or an answer was lost.
THEOREM NetworkSettles ==
  WebSpec => []RoutesSettle
<1> DEFINE Inv == mountedPage = "network" => NetworkInv
<1>1. WebInit => Inv
  BY NetworkInit, PagesAssumption DEF WebInit
<1>2. Inv /\ [WebNext]_webVars => Inv'
  <2> SUFFICES ASSUME Inv, [WebNext]_webVars, mountedPage' = "network"
               PROVE  NetworkInv'
    OBVIOUS
  <2>1. CASE WebNext
    <3>1. mountedPage = "network" /\ Network!Next
      BY <2>1 DEF WebNext
    <3> QED
      BY <3>1, NetworkStep, PagesAssumption
  <2>2. CASE UNCHANGED webVars
    BY <2>2 DEF NetworkInv, NetworkTyped, RequestsNeedRoutes, RoutesFollow, PendingIsChecked,
       Unanswered, webVars, networkVars, sharedVars
  <2> QED
    BY <2>1, <2>2
<1>3. NetworkInv => Network!RoutesSettle
  BY NetworkPaths, PagesAssumption
  DEF NetworkInv, NetworkTyped, RoutesFollow, PendingIsChecked, Unanswered,
     Network!RoutesSettle, Network!Shown
<1>4. Inv => RoutesSettle
  BY <1>3 DEF RoutesSettle
<1> QED
  BY <1>1, <1>2, <1>4, PTL DEF WebSpec

-----------------------------------------------------------------------------
(* The list of tasks *)

TaskRows == [definition : Definitions, options : Options, enabled : BOOLEAN,
             nextScheduledAt : {"due", "never"}]
TaskLists == [Tasks -> TaskRows \cup {None}]
Switches == [number : Nat, id : Tasks, from : TaskRows, input : TaskTable!Inputs, done : BOOLEAN]

TasksTyped ==
  /\ storedRows \in TaskLists
  /\ listed \in TaskLists \cup {None}
  /\ fetch \in TaskLists \cup {None, TaskTable!Unserved}
  /\ updates \subseteq Switches
  /\ duplicating \in [id : Tasks, done : BOOLEAN] \cup {None}
  /\ deleting \in [id : Tasks, done : BOOLEAN] \cup {None}
  /\ deleteTask \in Tasks \cup {None}
  /\ requestCount \in Nat /\ troubles \in Nat

\* A switch asks for the task it was listed as, turned off; no two requests
\* have the same number.
SwitchesFaithful ==
  /\ \A u \in updates : /\ u.number <= requestCount
                        /\ u.input = [TaskTable!taskToInput(u.from) EXCEPT !.enabled = FALSE]
  /\ \A u, v \in updates : u.number = v.number => u = v

TasksInv == TasksTyped /\ SwitchesFaithful

LEMMA TaskRowTyped ==
  ASSUME NEW i \in TaskTable!Inputs
  PROVE  TaskTable!Row(i) \in TaskRows
  BY DEF TaskTable!Inputs, TaskTable!Row, TaskRows

\* The row with its task turned off, field by field.
LEMMA RowOff ==
  ASSUME NEW r \in TaskRows
  PROVE  [r EXCEPT !.enabled = FALSE, !.nextScheduledAt = "never"]
           = [definition |-> r.definition, options |-> r.options, enabled |-> FALSE,
              nextScheduledAt |-> "never"]
<1> DEFINE off == [r EXCEPT !.enabled = FALSE, !.nextScheduledAt = "never"]
<1>1. /\ off \in TaskRows /\ off.definition = r.definition /\ off.options = r.options
      /\ off.enabled = FALSE /\ off.nextScheduledAt = "never"
  BY DEF TaskRows
<1> HIDE DEF off
<1>2. off = [definition |-> off.definition, options |-> off.options, enabled |-> off.enabled,
             nextScheduledAt |-> off.nextScheduledAt]
  BY <1>1 DEF TaskRows
<1> QED
  BY <1>1, <1>2 DEF off

\* What a switch has written of a row: nothing but the flag and its schedule.
LEMMA SwitchedRow ==
  ASSUME TaskTable!OptionsKnown, NEW r \in TaskRows
  PROVE  LET input == [TaskTable!taskToInput(r) EXCEPT !.enabled = FALSE]
         IN  /\ input \in TaskTable!Inputs
             /\ TaskTable!Row(input) = [r EXCEPT !.enabled = FALSE, !.nextScheduledAt = "never"]
<1> DEFINE input == [TaskTable!taskToInput(r) EXCEPT !.enabled = FALSE]
<1>1. /\ input \in TaskTable!Inputs
      /\ input.definition = r.definition /\ input.options = r.options /\ input.enabled = FALSE
  BY DEF TaskTable!OptionsKnown, TaskTable!taskToInput, TaskTable!Inputs, TaskRows
<1> HIDE DEF input
<1>2. TaskTable!Row(input) = [definition |-> r.definition, options |-> r.options,
                              enabled |-> FALSE, nextScheduledAt |-> "never"]
  BY <1>1 DEF TaskTable!Row
<1> QED
  BY <1>1, <1>2, RowOff DEF input

\* A copy is off.
LEMMA CopiedRow ==
  ASSUME NEW r \in TaskRows
  PROVE  LET copy == TaskTable!Row([r EXCEPT !.enabled = FALSE])
         IN  copy \in TaskRows /\ ~copy.enabled
  BY DEF TaskTable!Row, TaskRows

LEMMA TasksInit ==
  ASSUME TaskTable!Init
  PROVE  TasksInv
<1>1. TaskTable!Rows \subseteq TaskRows
  BY TaskRowTyped DEF TaskTable!Rows
<1>2. storedRows \in TaskLists
  BY <1>1 DEF TaskTable!Init, TaskLists
<1> QED
  BY <1>2 DEF TaskTable!Init, TasksInv, TasksTyped, SwitchesFaithful

\* Every step keeps the invariant, and is one a switch may take.
LEMMA TasksStep ==
  ASSUME TaskTable!OptionsKnown, TasksInv, TaskTable!Next
  PROVE  TasksInv' /\ TaskTable!SwitchStep
<1> USE DEF TaskTable!query, TaskTable!page, TaskTable!mutations
<1> DEFINE Quiet == UNCHANGED storedRows /\ updates' \subseteq updates
<1>1. ASSUME NEW u \in updates, ~u.done
      PROVE  [u EXCEPT !.done = TRUE] \notin updates
  <2>1. u \in Switches
    BY DEF TasksInv, TasksTyped
  <2>2. [u EXCEPT !.done = TRUE].number = u.number /\ [u EXCEPT !.done = TRUE].done
    BY <2>1 DEF Switches
  <2> QED
    BY <1>1, <2>2 DEF TasksInv, SwitchesFaithful
<1>2. ASSUME Quiet
      PROVE  TaskTable!SwitchStep
  BY <1>1, <1>2 DEF TaskTable!SwitchStep
<1>3. ASSUME Quiet, TasksTyped', requestCount' >= requestCount
      PROVE  TasksInv'
  BY <1>3 DEF TasksInv, TasksTyped, SwitchesFaithful, Switches
<1>4. ASSUME Quiet, TasksTyped', requestCount' >= requestCount
      PROVE  TasksInv' /\ TaskTable!SwitchStep
  BY <1>2, <1>3, <1>4
<1> HIDE DEF Quiet
<1>5. CASE TaskTable!ListServed
  <2>1. Quiet /\ TasksTyped' /\ requestCount' >= requestCount
    BY <1>5 DEF TaskTable!ListServed, TasksInv, TasksTyped, Quiet
  <2> QED
    BY <2>1, <1>4
<1>6. CASE TaskTable!ListArrives
  <2>1. Quiet /\ TasksTyped' /\ requestCount' >= requestCount
    BY <1>6 DEF TaskTable!ListArrives, TasksInv, TasksTyped, Quiet
  <2> QED
    BY <2>1, <1>4
<1>7. CASE TaskTable!ListFails
  <2>1. Quiet /\ TasksTyped' /\ requestCount' >= requestCount
    BY <1>7 DEF TaskTable!ListFails, TaskTable!Trouble, TasksInv, TasksTyped, Quiet
  <2> QED
    BY <2>1, <1>4
<1>8. CASE TaskTable!Refetch
  <2>1. Quiet /\ TasksTyped' /\ requestCount' >= requestCount
    BY <1>8 DEF TaskTable!Refetch, TaskTable!Invalidate, TasksInv, TasksTyped, Quiet
  <2> QED
    BY <2>1, <1>4
<1>9. CASE TaskTable!Return
  <2>1. Quiet /\ TasksTyped' /\ requestCount' >= requestCount
    BY <1>9 DEF TaskTable!Return, TasksInv, TasksTyped, Quiet
  <2> QED
    BY <2>1, <1>4
<1>10. CASE TaskTable!GoToEditor
  <2>1. Quiet /\ TasksTyped' /\ requestCount' >= requestCount
    BY <1>10 DEF TaskTable!GoToEditor, TaskTable!Leave, TasksInv, TasksTyped, Quiet
  <2> QED
    BY <2>1, <1>4
<1>11. CASE TaskTable!Filter
  <2>1. Quiet /\ TasksTyped' /\ requestCount' >= requestCount
    BY <1>11 DEF TaskTable!Filter, TasksInv, TasksTyped, Quiet
  <2> QED
    BY <2>1, <1>4
<1>12. ASSUME NEW t \in Tasks, TaskTable!Run(t)
       PROVE  TasksInv' /\ TaskTable!SwitchStep
  <2>1. Quiet /\ TasksTyped' /\ requestCount' >= requestCount
    BY <1>12 DEF TaskTable!Run, TaskTable!Starts, TasksInv, TasksTyped, Quiet
  <2> QED
    BY <2>1, <1>4
<1>13. ASSUME NEW t \in Tasks, TaskTable!Duplicate(t)
       PROVE  TasksInv' /\ TaskTable!SwitchStep
  <2>1. Quiet /\ TasksTyped' /\ requestCount' >= requestCount
    BY <1>13 DEF TaskTable!Duplicate, TaskTable!Starts, TasksInv, TasksTyped, Quiet
  <2> QED
    BY <2>1, <1>4
<1>14. ASSUME NEW t \in Tasks, TaskTable!AskDelete(t)
       PROVE  TasksInv' /\ TaskTable!SwitchStep
  <2>1. Quiet /\ TasksTyped' /\ requestCount' >= requestCount
    BY <1>14 DEF TaskTable!AskDelete, TasksInv, TasksTyped, Quiet
  <2> QED
    BY <2>1, <1>4
<1>15. ASSUME NEW u \in updates, TaskTable!UpdateArrives(u)
       PROVE  TasksInv' /\ TaskTable!SwitchStep
  <2>1. Quiet /\ TasksTyped' /\ requestCount' >= requestCount
    BY <1>15 DEF TaskTable!UpdateArrives, TaskTable!Invalidate, TasksInv, TasksTyped, Quiet
  <2> QED
    BY <2>1, <1>4
<1>16. ASSUME NEW u \in updates, TaskTable!UpdateFails(u)
       PROVE  TasksInv' /\ TaskTable!SwitchStep
  <2>1. Quiet /\ TasksTyped' /\ requestCount' >= requestCount
    BY <1>16 DEF TaskTable!UpdateFails, TaskTable!Trouble, TasksInv, TasksTyped, Quiet
  <2> QED
    BY <2>1, <1>4
<1>17. CASE TaskTable!RunEnds
  <2>1. Quiet /\ TasksTyped' /\ requestCount' >= requestCount
    BY <1>17 DEF TaskTable!RunEnds, TasksInv, TasksTyped, Quiet
  <2> QED
    BY <2>1, <1>4
<1>18. CASE TaskTable!DuplicateArrives
  <2>1. Quiet /\ TasksTyped' /\ requestCount' >= requestCount
    BY <1>18 DEF TaskTable!DuplicateArrives, TaskTable!Invalidate, TaskTable!Leave, TasksInv,
       TasksTyped, Quiet
  <2> QED
    BY <2>1, <1>4
<1>19. CASE TaskTable!DuplicateFails
  <2>1. Quiet /\ TasksTyped' /\ requestCount' >= requestCount
    BY <1>19 DEF TaskTable!DuplicateFails, TaskTable!Trouble, TasksInv, TasksTyped, Quiet
  <2> QED
    BY <2>1, <1>4
<1>20. CASE TaskTable!Dismiss
  <2>1. Quiet /\ TasksTyped' /\ requestCount' >= requestCount
    BY <1>20 DEF TaskTable!Dismiss, TasksInv, TasksTyped, Quiet
  <2> QED
    BY <2>1, <1>4
<1>21. CASE TaskTable!ConfirmDelete
  <2>1. Quiet /\ TasksTyped' /\ requestCount' >= requestCount
    BY <1>21 DEF TaskTable!ConfirmDelete, TaskTable!Starts, TasksInv, TasksTyped, Quiet
  <2> QED
    BY <2>1, <1>4
<1>22. CASE TaskTable!DeleteArrives
  <2>1. Quiet /\ TasksTyped' /\ requestCount' >= requestCount
    BY <1>22 DEF TaskTable!DeleteArrives, TaskTable!Invalidate, TasksInv, TasksTyped, Quiet
  <2> QED
    BY <2>1, <1>4
<1>23. CASE TaskTable!DeleteFails
  <2>1. Quiet /\ TasksTyped' /\ requestCount' >= requestCount
    BY <1>23 DEF TaskTable!DeleteFails, TaskTable!Trouble, TasksInv, TasksTyped, Quiet
  <2> QED
    BY <2>1, <1>4
<1>24. ASSUME NEW t \in Tasks, TaskTable!SwitchOff(t)
       PROVE  TasksInv' /\ TaskTable!SwitchStep
  <2> DEFINE new == [number |-> requestCount', id |-> t, from |-> listed[t],
                     input |-> [TaskTable!taskToInput(listed[t]) EXCEPT !.enabled = FALSE],
                     done |-> FALSE]
  <2>1. /\ updates' = updates \cup {new} /\ requestCount' = requestCount + 1
        /\ listed[t] \in TaskRows
        /\ UNCHANGED <<storedRows, listed, fetch, duplicating, deleting, deleteTask, troubles>>
    BY <1>24 DEF TaskTable!SwitchOff, TaskTable!Starts, TaskTable!Visible, TaskTable!Shown,
       TasksInv,
       TasksTyped, TaskLists
  <2>2. new \in Switches
    <3>1. [TaskTable!taskToInput(listed[t]) EXCEPT !.enabled = FALSE] \in TaskTable!Inputs
      BY <2>1, SwitchedRow
    <3>2. requestCount' \in Nat
      BY <2>1 DEF TasksInv, TasksTyped
    <3> QED
      BY <2>1, <3>1, <3>2 DEF Switches
  <2>3. /\ new.number = requestCount + 1 /\ ~new.done
        /\ new.input = [TaskTable!taskToInput(new.from) EXCEPT !.enabled = FALSE]
    BY <2>1
  <2> HIDE DEF new
  <2>4. TasksTyped'
    BY <2>1, <2>2 DEF TasksInv, TasksTyped
  <2>5. SwitchesFaithful'
    <3>1. /\ requestCount \in Nat
          /\ \A u \in updates : u.number \in Nat /\ u.number <= requestCount
      BY DEF TasksInv, TasksTyped, SwitchesFaithful, Switches
    <3>2. \A u \in updates : u.number <= requestCount' /\ u.number # new.number
      BY <2>1, <2>3, <3>1
    <3>3. new.number <= requestCount'
      BY <2>1, <2>3, <3>1
    <3> QED
      BY <2>1, <2>3, <3>2, <3>3 DEF TasksInv, SwitchesFaithful
  <2>6. ASSUME NEW u \in updates, ~u.done
        PROVE  [u EXCEPT !.done = TRUE] \notin updates'
    <3>1. [u EXCEPT !.done = TRUE].done
      BY DEF TasksInv, TasksTyped, Switches
    <3> QED
      BY <1>1, <2>1, <2>3, <2>6, <3>1
  <2>7. TaskTable!SwitchStep
    BY <2>1, <2>6 DEF TaskTable!SwitchStep
  <2> QED
    BY <2>4, <2>5, <2>7 DEF TasksInv
<1>25. ASSUME NEW u \in updates, TaskTable!UpdateServed(u)
       PROVE  TasksInv' /\ TaskTable!SwitchStep
  <2> DEFINE answered == [u EXCEPT !.done = TRUE]
             off == [u.from EXCEPT !.enabled = FALSE, !.nextScheduledAt = "never"]
  <2>1. u \in Switches /\ u.from \in TaskRows /\ u.id \in Tasks
    BY DEF TasksInv, TasksTyped, Switches
  <2>2. /\ answered \in Switches /\ answered.number = u.number /\ answered.done
        /\ answered.from = u.from /\ answered.input = u.input
    BY <2>1 DEF Switches
  <2>3. TaskTable!Row(u.input) = off /\ off \in TaskRows /\ ~off.enabled
    <3>1. TaskTable!Row(u.input) = off
      BY <2>1, SwitchedRow DEF TasksInv, SwitchesFaithful
    <3>2. off \in TaskRows /\ ~off.enabled
      BY <2>1 DEF TaskRows
    <3> QED
      BY <3>1, <3>2
  <2> HIDE DEF answered, off
  <2>4. /\ ~u.done /\ storedRows' = [storedRows EXCEPT ![u.id] = off]
        /\ updates' = (updates \ {u}) \cup {answered}
        /\ UNCHANGED <<listed, fetch, duplicating, deleting, deleteTask, requestCount, troubles>>
    BY <1>25, <2>3 DEF TaskTable!UpdateServed, TaskTable!UpdateTask, answered
  <2>5. TasksTyped'
    BY <2>1, <2>2, <2>3, <2>4 DEF TasksInv, TasksTyped, TaskLists
  <2>6. SwitchesFaithful'
    BY <2>2, <2>4 DEF TasksInv, SwitchesFaithful
  <2>7. ASSUME NEW v \in updates, ~v.done, [v EXCEPT !.done = TRUE] \in updates'
        PROVE  v = u
    <3>1. [v EXCEPT !.done = TRUE].number = v.number
      BY DEF TasksInv, TasksTyped, Switches
    <3>2. [v EXCEPT !.done = TRUE] = answered
      BY <1>1, <2>4, <2>7
    <3> QED
      BY <2>2, <3>1, <3>2 DEF TasksInv, SwitchesFaithful
  <2>8. storedRows'[u.id] = off /\ \A t \in Tasks \ {u.id} : storedRows'[t] = storedRows[t]
    BY <2>1, <2>4 DEF TasksInv, TasksTyped, TaskLists
  <2>9. TaskTable!SwitchStep
    BY <2>3, <2>7, <2>8 DEF TaskTable!SwitchStep, off
  <2> QED
    BY <2>5, <2>6, <2>9 DEF TasksInv
<1>26. CASE TaskTable!DuplicateServed
  <2>1. duplicating \in [id : Tasks, done : BOOLEAN] /\ storedRows[duplicating.id] \in TaskRows
    BY <1>26 DEF TaskTable!DuplicateServed, TaskTable!DuplicateTask, TasksInv, TasksTyped, TaskLists
  <2>2. PICK copy \in Tasks :
          storedRows' = [storedRows EXCEPT ![copy] =
                       TaskTable!Row([storedRows[duplicating.id] EXCEPT !.enabled = FALSE])]
    BY <1>26 DEF TaskTable!DuplicateServed, TaskTable!DuplicateTask
  <2> DEFINE new == TaskTable!Row([storedRows[duplicating.id] EXCEPT !.enabled = FALSE])
  <2>3. new \in TaskRows /\ ~new.enabled
    BY <2>1, CopiedRow
  <2> HIDE DEF new
  <2>4. storedRows' \in TaskLists /\ storedRows'[copy] = new
        /\ \A t \in Tasks \ {copy} : storedRows'[t] = storedRows[t]
    BY <2>2, <2>3 DEF TasksInv, TasksTyped, TaskLists, new
  <2>5. TasksInv'
    BY <1>26, <2>1, <2>4 DEF TaskTable!DuplicateServed, TasksInv, TasksTyped, SwitchesFaithful
  <2>6. UNCHANGED <<updates, troubles>>
    BY <1>26 DEF TaskTable!DuplicateServed
  <2>7. TaskTable!SwitchStep
    BY <1>1, <2>3, <2>4, <2>6 DEF TaskTable!SwitchStep
  <2> QED
    BY <2>5, <2>7
<1>27. CASE TaskTable!DeleteServed
  <2>1. /\ deleting \in [id : Tasks, done : BOOLEAN]
        /\ storedRows' = [storedRows EXCEPT ![deleting.id] = None]
        /\ UNCHANGED <<updates, troubles>>
    BY <1>27 DEF TaskTable!DeleteServed, TaskTable!DeleteTask, TasksInv, TasksTyped
  <2>2. storedRows' \in TaskLists
    BY <2>1 DEF TasksInv, TasksTyped, TaskLists
  <2>3. TasksInv'
    BY <1>27, <2>1, <2>2 DEF TaskTable!DeleteServed, TasksInv, TasksTyped, SwitchesFaithful
  <2>4. \A t \in Tasks : storedRows'[t] = storedRows[t] \/ storedRows'[t] = None
    BY <2>1 DEF TasksInv, TasksTyped, TaskLists
  <2>5. TaskTable!SwitchStep
    BY <1>1, <2>1, <2>4 DEF TaskTable!SwitchStep
  <2> QED
    BY <2>3, <2>5
<1>28. ASSUME NEW t \in Tasks, NEW i \in TaskTable!Inputs, TaskTable!Written(t, i)
       PROVE  TasksInv' /\ TaskTable!SwitchStep
  <2>1. /\ storedRows' = [storedRows EXCEPT ![t] = TaskTable!Row(i)]
        /\ troubles' = troubles + 1
        /\ UNCHANGED <<listed, fetch, updates, duplicating, deleting, deleteTask, requestCount>>
    BY <1>28 DEF TaskTable!Written, TaskTable!Trouble
  <2>2. storedRows' \in TaskLists
    BY <2>1, TaskRowTyped DEF TasksInv, TasksTyped, TaskLists
  <2>3. TasksInv'
    BY <2>1, <2>2 DEF TasksInv, TasksTyped, SwitchesFaithful
  <2>4. TaskTable!SwitchStep
    <3>1. troubles' # troubles
      BY <2>1 DEF TasksInv, TasksTyped
    <3>2. \A u \in updates : ~u.done => [u EXCEPT !.done = TRUE] \notin updates'
      BY <1>1, <2>1
    <3> QED
      BY <3>1, <3>2 DEF TaskTable!SwitchStep
  <2> QED
    BY <2>3, <2>4
<1> QED
  BY <1>5, <1>6, <1>7, <1>8, <1>9, <1>10, <1>11, <1>12, <1>13, <1>14, <1>15, <1>16, <1>17,
     <1>18, <1>19, <1>20, <1>21, <1>22, <1>23, <1>24, <1>25, <1>26, <1>27, <1>28
  DEF TaskTable!Next

\* List of tasks, for any tasks, options and number of requests: a switch that is
\* served while the row it was made from is still the server's turns the task off
\* and changes nothing else of it, and no request of the list turns a task on.
THEOREM TasksSwitch ==
  WebSpec => SwitchOnlyTurnsOff
<1> DEFINE Inv == mountedPage = "tasks" => TasksInv
<1>1. WebInit => Inv
  BY TasksInit, PagesAssumption DEF WebInit
<1>2. Inv /\ [WebNext]_webVars => Inv'
  <2> SUFFICES ASSUME Inv, [WebNext]_webVars, mountedPage' = "tasks"
               PROVE  TasksInv'
    OBVIOUS
  <2>1. CASE WebNext
    <3>1. mountedPage = "tasks" /\ TaskTable!Next
      BY <2>1 DEF WebNext
    <3> QED
      BY <3>1, TasksStep, PagesAssumption
  <2>2. CASE UNCHANGED webVars
    BY <2>2 DEF TasksInv, TasksTyped, SwitchesFaithful, webVars, tasksVars, sharedVars
  <2> QED
    BY <2>1, <2>2
<1>3. Inv /\ [WebNext]_webVars => [mountedPage = "tasks" => TaskTable!SwitchStep]_webVars
  <2> SUFFICES ASSUME Inv, WebNext, mountedPage = "tasks"
               PROVE  TaskTable!SwitchStep
    OBVIOUS
  <2>1. TaskTable!Next
    BY DEF WebNext
  <2> QED
    BY <2>1, TasksStep, PagesAssumption
<1> QED
  BY <1>1, <1>2, <1>3, PTL DEF WebSpec, SwitchOnlyTurnsOff

-----------------------------------------------------------------------------
(* The task editor *)

\* Among the other pages the editor does what TaskEditor specifies, so that what
\* is proved of TaskEditor holds of the console: while another page is mounted
\* nothing of the editor changes.
THEOREM ConsoleKeepsEditor ==
  WebSpec => Spec
<1>1. WebInit => Init
  BY DEF WebInit, NoEditor
<1>2. ASSUME [WebNext]_webVars
      PROVE  [Next]_vars
  <2>1. CASE WebNext
    BY <2>1 DEF WebNext
  <2>2. CASE UNCHANGED webVars
    BY <2>2 DEF webVars
  <2> QED
    BY <1>2, <2>1, <2>2
<1> QED
  BY <1>1, <1>2, PTL DEF WebSpec, Spec
================================================================================
