----------------------------- MODULE MCWebConsole -----------------------------
(***************************************************************************)
(* Instances of the pages of the web console for TLC.                      *)
(***************************************************************************)
EXTENDS WebConsole, MCTaskEditor

CONSTANTS e1, e2, p1, p2, t1, t2, d1, o1, w1, w2, k1, k2

\* Results that are filtered by state and date, or not at all.
SomeViews == {[unfinished |-> FALSE, dated |-> FALSE, size |-> 1, ascending |-> FALSE],
              [unfinished |-> TRUE, dated |-> TRUE, size |-> 1, ascending |-> TRUE]}
LaterDays(z, r) == r >= z

\* The settings at first, whose policy a document restores.
DayPolicy == [mode |-> "days", value |-> 1]

Link(i, a) == [interfaceName |-> i, sourceIp |-> a]
SomeLinks == {Link(eth, a4), Link(ppp, b4)}

\* Clocks that are set forward two hours after the midnight of date 3, and ones
\* that skip it; a result in the hour before it, a failed one of the same task and
\* instant, and one in the last hour of the date; both that succeeded have an upload
\* that is not counted.  One was skipped before.
Utc == [before |-> 0, after |-> 0, at |-> 0]
Sydney == [before |-> 10, after |-> 11, at |-> 64]
Santiago == [before |-> -4, after |-> -3, at |-> 76]
Result(i, t, w, k, s, v, vs) ==
  [id |-> i, at |-> t, wan |-> w, task |-> k, status |-> s, version |-> v, values |-> vs,
   low |-> vs \cap {"upload"}]
Measured == {"download", "upload", "latency", "duration"}
SomeRuns == {Result(1, 61, w1, k1, "succeeded", "librespeed-v1", Measured),
             Result(2, 61, w2, k1, "failed", "current", {"duration"}),
             Result(3, 84, w2, k2, "succeeded", "cloudflare-v1", Measured)}
SkippedRun == Result(4, 59, w1, k1, "skipped", "current", {"duration"})
MoreRuns == SomeRuns \cup {SkippedRun}

SomePolicies == {DayPolicy}
SomeSettings == {[policy |-> DayPolicy, source |-> s] : s \in {"persisted"}}
SomePopulations == {{p1}}
DownLinks == {Link(ppp, b4)}
SomeRows == {[zone |-> z, days |-> 1] : z \in {Sydney, Santiago}}
UtcRow == [zone |-> Utc, days |-> 2]
BothWans == <<w1, w2>>
=============================================================================
