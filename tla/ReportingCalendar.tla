-------------------------- MODULE ReportingCalendar --------------------------
(***************************************************************************)
(* Days of a reporting timezone: where the browser lets one begin          *)
(* (src/web/src/lib/utils.ts) and where the server does                    *)
(* (src/internal/statistics/service.go).  Time is counted in hours, 24 to  *)
(* a date, and a timezone is one change of its distance from UTC, as near  *)
(* a date there is at most one:                                            *)
(*     [before, after : the offsets,  at : the instant of the change].     *)
(***************************************************************************)
EXTENDS Integers

Hours == 24

TimeZones == [before : Int, after : Int, at : Int]

Offset(t, z) == IF t < z.at THEN z.before ELSE z.after
Local(t, z) == t + Offset(t, z)
LocalDate(t, z) == Local(t, z) \div Hours

\* Mutant: the first guess is not corrected a second time.
zonedMidnightOnce(date, z) == date * Hours - Offset(date * Hours, z)

\* The loop: four times a guess is moved by what its local time, the guess and
\* its offset, is off.  A guess that is right stays, which is the break.
zonedMidnight(date, z) ==
  LET adjusted(guess) == date * Hours - Offset(guess, z)
  IN  adjusted(adjusted(adjusted(adjusted(date * Hours))))

reportingDateRange(from, to, z) ==
  [from |-> zonedMidnight(from, z), to |-> zonedMidnight(to + 1, z)]

\* Go's time.Date at midnight: the offset that is in force when the local time
\* is read as UTC, looked up again at the instant that this gives.
startOfDay(date, z) == date * Hours - Offset(date * Hours - Offset(date * Hours, z), z)

\* The instants at which the clocks show midnight; there is not exactly one
\* where they are changed at midnight.
Midnights(date, z) ==
  {m \in {date * Hours - z.before, date * Hours - z.after} : Local(m, z) = date * Hours}

SingleMidnight(date, z) == \E m \in Midnights(date, z) : Midnights(date, z) = {m}
=============================================================================
