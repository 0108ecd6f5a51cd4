---------------------------- MODULE ReportCalendar ----------------------------
(***************************************************************************)
(* utils/reportingDate.js and utils/cashflowSeries.js: the period a report *)
(* is about, the buckets of its series and the periods it is compared with.*)
(*                                                                         *)
(* Instants are integers, 0 being new Date(0) and the start of a day and of*)
(* a month in the business timezone, whose offset is fixed.  The calendar  *)
(* is a parameter, so that a small one has months of unequal length.  A    *)
(* bucket is known by the instant at which it starts: bucketKey and        *)
(* bucketStart are inverse to each other.                                  *)
(***************************************************************************)
EXTENDS Integers, Sequences, FiniteSets, Sums

CONSTANTS
  HourLen,       \* instants in an hour
  DayLen,        \* instants in a day
  MonthDays,     \* days in each month, from month 1 on
  MaxDailySpan,  \* MAX_DAILY_SPAN_DAYS
  MaxKeys        \* at most so many buckets in a series

CalendarAssumption ==
  /\ HourLen \in Nat \ {0}
  /\ DayLen \in Nat \ {0}
  /\ DayLen % HourLen = 0
  /\ MonthDays \in Seq(Nat \ {0})
  /\ MaxDailySpan \in Nat \ {0}
  /\ MaxKeys \in Nat
  /\ DayLen \div HourLen <= MaxKeys
  /\ MaxDailySpan <= MaxKeys

ASSUME CalendarAssumption

Month == DOMAIN MonthDays

\* MonthStart[Len(MonthDays) + 1] is the end of the calendar.
MonthStart == [m \in 1..(Len(MonthDays) + 1) |->
                 SumOver(MonthDays, 1..(m - 1)) * DayLen]

Instant == 0..(MonthStart[Len(MonthDays) + 1] - 1)

Day == {t \div DayLen : t \in Instant}

MonthOf(t) == CHOOSE m \in Month : MonthStart[m] <= t /\ t < MonthStart[m + 1]

-------------------------------------------------------------------------------
(* The period of a query.                                                  *)

NoDay == -1

\* from and to, each possibly missing; date is a range of one day; month, and
\* year, which is a run of months; no parameter at all is today.
Query == [kind : {"range"}, from : Day \cup {NoDay}, to : Day \cup {NoDay}]
         \cup [kind : {"months"}, first : Month, last : Month]
         \cup [kind : {"today"}]

\* parseReportingDate: the first or the last instant of a day.
DayStart(d) == d * DayLen
DayEnd(d) == (d + 1) * DayLen - 1

\* buildTimeframeFilter
Frame(q, now) ==
  CASE q.kind = "range"  -> [start |-> IF q.from = NoDay THEN 0
                                       ELSE DayStart(q.from),
                             end |-> IF q.to = NoDay THEN now
                                     ELSE DayEnd(q.to)]
    [] q.kind = "months" -> [start |-> MonthStart[q.first],
                             end |-> MonthStart[q.last + 1] - 1]
    [] q.kind = "today"  -> [start |-> DayStart(now \div DayLen),
                             end |-> DayEnd(now \div DayLen)]

-------------------------------------------------------------------------------
(* Buckets.                                                                *)

Length(f) == f.end - f.start + 1

\* chooseGranularity
Granularity(f) ==
  CASE Length(f) <= DayLen -> "hour"
    [] Length(f) > DayLen /\ Length(f) <= MaxDailySpan * DayLen -> "day"
    [] Length(f) > DayLen /\ Length(f) > MaxDailySpan * DayLen -> "month"

\* bucketStart(bucketKey(t, g), g), and $dateToString of the aggregation.
BucketOf(t, g) ==
  CASE g = "hour"  -> (t \div HourLen) * HourLen
    [] g = "day"   -> (t \div DayLen) * DayLen
    [] g = "month" -> MonthStart[MonthOf(t)]

\* nextBucketStart
NextBucketStart(b, g) ==
  CASE g = "hour"  -> b + HourLen
    [] g = "day"   -> b + DayLen
    [] g = "month" -> MonthStart[MonthOf(b) + 1]

\* The cursor of listBucketKeys, which stays once it has passed the end.
Cursor(f, g) ==
  LET at[n \in 0..MaxKeys] ==
        IF n = 0 THEN BucketOf(f.start, g)
        ELSE IF at[n - 1] > f.end THEN at[n - 1] ELSE NextBucketStart(at[n - 1], g)
  IN at

\* Mutant: the bucket that starts at the end is not listed.
KeysBefore(f, g) == {Cursor(f, g)[n] : n \in 0..(MaxKeys - 1)} \cap 0..(f.end - 1)

\* listBucketKeys
Keys(f, g) == {Cursor(f, g)[n] : n \in 0..(MaxKeys - 1)} \cap 0..f.end

\* The loop stopped at its bound with buckets still to list.
Truncated(f, g) == Cursor(f, g)[MaxKeys] <= f.end

-------------------------------------------------------------------------------
(* resolveSeriesPlan.                                                      *)

\* Mutant: a period that has not begun is taken for one under way.
IsPartialUnstarted(f, now) == now < f.end

IsPartial(f, now) == now >= f.start /\ now < f.end

\* plan.current
Elapsed(f, now) == [start |-> f.start,
                    end |-> IF IsPartial(f, now) THEN now ELSE f.end]
===============================================================================
