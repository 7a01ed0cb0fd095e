----------------------------- MODULE CronSchedule -----------------------------
(***************************************************************************)
(* CronSchedule: what a crontab line means, and CronSchedule::Next, the    *)
(* algorithm that finds the next time to execute a job.                    *)
(*                                                                         *)
(* The sizes of the calendar are parameters, so that TLC can enumerate     *)
(* schedules and times; in the program an hour has minutes 0..59, a day    *)
(* hours 0..23 and a week days 0..6.  The algorithm does not depend on     *)
(* these numbers.                                                          *)
(***************************************************************************)
EXTENDS Integers, Sequences, FiniteSets, FiniteSetsExt

CONSTANTS
  MaxMinute, MaxHour,  \* 59 and 23
  WeekDays,            \* 7
  MonthStart,          \* the day of the year on which each month begins and, as the last
                       \* element, the length of the year; there are no leap years
  Minutes, Hours, DaysOfMonth, Months, DaysOfWeek, \* the fields to combine: sets of
                       \* sets of ranges
  Horizon,             \* bound: last and now are minutes before this one
  NULL                 \* was never run

MonthNumbers == 1..(Len(MonthStart) - 1)

MonthDays(month) == MonthStart[month + 1] - MonthStart[month]

\* A field of a crontab line is a set of ranges: "*" has star = TRUE, a number has
\* first = last, and step is 0 if none is given.  ParseNumber and
\* ParseNumericRangeBitSet refuse all others.
IsField(field, min, max) ==
  /\ field # {}
  /\ \A range \in field :
       /\ range \in [star : BOOLEAN, first : Nat, last : Nat, step : Nat]
       /\ range.star \/ (min <= range.first /\ range.first <= range.last /\ range.last <= max)
       /\ range.step <= max

ASSUME CalendarAssumption ==
  /\ MaxMinute \in Nat /\ MaxHour \in Nat /\ WeekDays \in Nat \ {0}
  /\ MonthStart \in Seq(Nat) /\ Len(MonthStart) > 1 /\ MonthStart[1] = 0
  /\ \A m \in MonthNumbers : MonthDays(m) > 0

MaxMonthDay == Max({MonthDays(m) : m \in MonthNumbers})

ASSUME ScheduleAssumption ==
  /\ \A field \in Minutes : IsField(field, 0, MaxMinute)
  /\ \A field \in Hours : IsField(field, 0, MaxHour)
  /\ \A field \in DaysOfMonth : IsField(field, 1, MaxMonthDay)
  /\ \A field \in Months : IsField(field, 1, Len(MonthStart) - 1)
  /\ \A field \in DaysOfWeek : IsField(field, 0, WeekDays)
  /\ Horizon \in Nat /\ NULL \notin Nat

VARIABLES
  schedule,   \* the CronSchedule object
  last, now,  \* the parameters of Next()
  next,       \* its local variable: a day, an hour and a minute
  pc          \* "start", "days" in the while loop, "done"

vars == <<schedule, last, now, next, pc>>

-----------------------------------------------------------------------------
(***************************************************************************)
(* The calendar.  Times are minutes, days are counted from 0.              *)
(***************************************************************************)
MinutesPerDay == (MaxMinute + 1) * (MaxHour + 1)

DaysPerYear == MonthStart[Len(MonthStart)]

\* After this many days the calendar repeats.
Period == DaysPerYear * WeekDays

GmTime(t) ==
  [day  |-> t \div MinutesPerDay,
   hour |-> (t % MinutesPerDay) \div (MaxMinute + 1),
   min  |-> (t % MinutesPerDay) % (MaxMinute + 1)]

TimeGm(tm) == tm.day * MinutesPerDay + tm.hour * (MaxMinute + 1) + tm.min

Month(day) ==
  CHOOSE m \in MonthNumbers :
    MonthStart[m] <= day % DaysPerYear /\ day % DaysPerYear < MonthStart[m + 1]

MonthDay(day) == (day % DaysPerYear) - MonthStart[Month(day)] + 1

WeekDay(day) == day % WeekDays

-----------------------------------------------------------------------------
(***************************************************************************)
(* The schedule.                                                           *)
(***************************************************************************)
MakeRangeBitSet(first, last_, step) == {i \in first..last_ : (i - first) % step = 0}

ParseNumericRangeBitSet(range, min, max) ==
  LET step == IF range.step = 0 THEN 1 ELSE range.step
  IN IF range.star THEN MakeRangeBitSet(min, max, step)
                   ELSE MakeRangeBitSet(range.first, range.last, step)

ParseNumericBitSet(field, min, max) ==
  UNION {ParseNumericRangeBitSet(range, min, max) : range \in field}

\* "*" with a step is not a wildcard.
IsWildcard(field) == \E range \in field : range.star /\ range.step = 0

\* Day 7 is Sunday, too.
FoldSunday(days) == (days \ {WeekDays}) \cup (IF WeekDays \in days THEN {0} ELSE {})

ParseSchedule(min, hour, mday, mon, wday) ==
  [minutes       |-> ParseNumericBitSet(min, 0, MaxMinute),
   hours         |-> ParseNumericBitSet(hour, 0, MaxHour),
   days_of_month |-> ParseNumericBitSet(mday, 1, MaxMonthDay),
   months        |-> ParseNumericBitSet(mon, 1, Len(MonthStart) - 1),
   days_of_week  |-> FoldSunday(ParseNumericBitSet(wday, 0, WeekDays)),
   days_any_wildcard |-> IsWildcard(mday) \/ IsWildcard(wday)]

\* The schedule "@once".
OnceSchedule ==
  [minutes |-> {}, hours |-> {}, days_of_month |-> {}, months |-> {}, days_of_week |-> {},
   days_any_wildcard |-> FALSE]

Schedules ==
  {OnceSchedule} \cup
  {ParseSchedule(min, hour, mday, mon, wday) :
     min \in Minutes, hour \in Hours, mday \in DaysOfMonth, mon \in Months, wday \in DaysOfWeek}

IsOnce(s) ==
  /\ s.minutes = {} /\ s.hours = {} /\ s.days_of_month = {} /\ s.months = {}
  /\ s.days_of_week = {}

CheckDate(s, day) ==
  LET day_of_month_match == MonthDay(day) \in s.days_of_month
      day_of_week_match == WeekDay(day) \in s.days_of_week
  IN /\ Month(day) \in s.months
     /\ IF s.days_any_wildcard THEN day_of_month_match /\ day_of_week_match
                               ELSE day_of_month_match \/ day_of_week_match

-----------------------------------------------------------------------------
(***************************************************************************)
(* CronSchedule::Next.                                                     *)
(***************************************************************************)

\* Mutant of NextBit: the search wraps around to the last bit before pos.
MutWrapToLast(b, pos) ==
  IF \E i \in b : i > pos THEN Min({i \in b : i > pos})
  ELSE IF \E i \in b : i < pos THEN Max({i \in b : i < pos})
  ELSE pos

NextBit(b, pos) ==
  IF \E i \in b : i > pos THEN Min({i \in b : i > pos})
  ELSE IF \E i \in b : i < pos THEN Min(b)
  ELSE pos

Init ==
  /\ schedule \in Schedules
  /\ \/ now \in 1..Horizon /\ last = NULL
     \/ now = Horizon /\ last \in 0..now
  /\ next = GmTime(0)
  /\ pc = "start"

\* A "@once" job: execute it now or never again.
NextOnce ==
  /\ pc = "start" /\ IsOnce(schedule)
  /\ next' = IF last = NULL THEN GmTime(now) ELSE NULL
  /\ pc' = "done"
  /\ UNCHANGED <<schedule, last, now>>

Last == IF last = NULL THEN now - 1 ELSE last

\* Mutant of FirstCandidate: an hour that is not in the schedule is not skipped.
MutHourNotSkipped(s, tm) ==
  LET min == NextBit(s.minutes, tm.min)
      hour == IF min <= tm.min THEN NextBit(s.hours, tm.hour) ELSE tm.hour
  IN [day |-> tm.day + (IF min <= tm.min /\ hour <= tm.hour THEN 1 ELSE 0),
      hour |-> hour, min |-> min]

\* Mutant of FirstCandidate: a later hour is taken to be one of the next day.
MutDayTooLate(s, tm) ==
  LET tm_min == IF tm.hour \in s.hours THEN tm.min ELSE MaxMinute + 1
      min == NextBit(s.minutes, tm_min)
      hour == IF min <= tm_min THEN NextBit(s.hours, tm.hour) ELSE tm.hour
  IN [day |-> tm.day + (IF min <= tm_min THEN 1 ELSE 0), hour |-> hour, min |-> min]

\* The next minute and, if that is not a later one, the next hour and day.  From an
\* hour that is not in the schedule, skip to the next one which is.
FirstCandidate(s, tm) ==
  LET tm_min == IF tm.hour \in s.hours THEN tm.min ELSE MaxMinute + 1
      min == NextBit(s.minutes, tm_min)
      hour == IF min <= tm_min THEN NextBit(s.hours, tm.hour) ELSE tm.hour
  IN [day |-> tm.day + (IF min <= tm_min /\ hour <= tm.hour THEN 1 ELSE 0),
      hour |-> hour, min |-> min]

NextMinute ==
  /\ pc = "start" /\ ~IsOnce(schedule)
  /\ next' = FirstCandidate(schedule, GmTime(Last))
  /\ pc' = "days"
  /\ UNCHANGED <<schedule, last, now>>

\* Mutant of IncrementDay: the loop increments a copy.
MutCopyIncremented ==
  /\ pc = "days" /\ ~CheckDate(schedule, next.day)
  /\ UNCHANGED vars

\* The while loop.  When the calendar has repeated twice, the days that have been
\* tried are tried again.
IncrementDay ==
  /\ pc = "days" /\ ~CheckDate(schedule, next.day)
  /\ next' = [next EXCEPT !.day = IF @ > GmTime(Last).day + 2 * Period THEN @ + 1 - Period
                                                                       ELSE @ + 1]
  /\ UNCHANGED <<schedule, last, now, pc>>

Return ==
  /\ pc = "days" /\ CheckDate(schedule, next.day)
  /\ pc' = "done"
  /\ UNCHANGED <<schedule, last, now, next>>

Next == NextOnce \/ NextMinute \/ IncrementDay \/ Return

Spec == Init /\ [][Next]_vars

FairSpec == Spec /\ WF_vars(Next)

-----------------------------------------------------------------------------
(***************************************************************************)
(* The reference: the first minute after "last" that the schedule matches. *)
(***************************************************************************)
MatchesTime(s, hour, min) == hour \in s.hours /\ min \in s.minutes

PossibleDates(s) == {day \in 0..(Period - 1) : CheckDate(s, day)}

Earliest(s, t) ==
  Min({u \in (t + 1)..(t + (Period + 1) * MinutesPerDay) :
         LET tm == GmTime(u) IN MatchesTime(s, tm.hour, tm.min) /\ CheckDate(s, tm.day)})

Returned == pc = "done" /\ ~IsOnce(schedule)

\* What Next returns is a time that the schedule matches, and later than "last".
ResultMatches ==
  Returned =>
    /\ MatchesTime(schedule, next.hour, next.min) /\ CheckDate(schedule, next.day)
    /\ TimeGm(next) > Last

\* Next never skips a day: it returns a time on the first day that has one.
FirstDay == Returned => next.day = GmTime(Earliest(schedule, Last)).day

\* If the schedule does not restrict the date, Next returns the first time of all.
EveryDayExact ==
  Returned /\ PossibleDates(schedule) = 0..(Period - 1) => TimeGm(next) = Earliest(schedule, Last)

\* The loop over the days ends if there is a date it can find.
Terminates == [](PossibleDates(schedule) # {} => <>(pc = "done"))

-----------------------------------------------------------------------------
(***************************************************************************)
(* What the documentation says and the code does not do.                   *)
(***************************************************************************)

\* "The schedule column follows the classic cron schedule syntax": the next
\* execution is at the first time that matches.
FirstTime == Returned => TimeGm(next) = Earliest(schedule, Last)
=============================================================================
