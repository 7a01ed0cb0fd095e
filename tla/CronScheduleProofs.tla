-------------------------- MODULE CronScheduleProofs --------------------------
(***************************************************************************)
(* Proofs about CronSchedule: the algorithm is right for a calendar of any *)
(* size, for all schedules and for all times.                              *)
(***************************************************************************)
EXTENDS CronSchedule, WellFoundedInduction, TLAPS

(***************************************************************************)
(* Arithmetic.                                                             *)
(***************************************************************************)
LEMMA DivMod ==
  ASSUME NEW a \in Int, NEW b \in Nat \ {0}
  PROVE  /\ a \div b \in Int /\ a % b \in 0..(b - 1)
         /\ a = b * (a \div b) + (a % b)
         /\ a \in Nat => a \div b \in Nat
  OBVIOUS

\* Multiples of b are at least b apart.
LEMMA ProductGap ==
  ASSUME NEW b \in Nat, NEW p \in Int, NEW q \in Int, p < q
  PROVE  b * p + b <= b * q
  OBVIOUS

\* Quotient and remainder are unique.
LEMMA QuotientUnique ==
  ASSUME NEW b \in Nat \ {0}, NEW p \in Int, NEW q \in Int,
         NEW r \in 0..(b - 1), NEW s \in 0..(b - 1), b * p + r = b * q + s
  PROVE  p = q /\ r = s
  <1>1. ~(p < q)
    BY ProductGap
  <1>2. ~(q < p)
    BY ProductGap
  <1> QED
    BY <1>1, <1>2

\* Adding a multiple does not change the remainder.
LEMMA SameRemainder ==
  ASSUME NEW b \in Nat \ {0}, NEW x \in Int, NEW y \in Int, NEW k \in Int, x = y + b * k
  PROVE  x % b = y % b
  <1>1. /\ x \div b \in Int /\ x % b \in 0..(b - 1) /\ x = b * (x \div b) + (x % b)
        /\ y \div b \in Int /\ y % b \in 0..(b - 1) /\ y = b * (y \div b) + (y % b)
    BY DivMod
  <1> DEFINE p == x \div b
             r == x % b
             q == y \div b
             s == y % b
  <1>2. p \in Int /\ q \in Int /\ q + k \in Int /\ r \in 0..(b - 1) /\ s \in 0..(b - 1)
    BY <1>1
  <1>3. x = b * p + r /\ y = b * q + s
    BY <1>1
  <1> HIDE DEF p, q, r, s
  <1>4. b * (q + k) = b * q + b * k
    BY <1>2
  <1>5. b * p + r = b * (q + k) + s
    BY <1>2, <1>3, <1>4
  <1>6. r = s
    BY <1>2, <1>5, QuotientUnique
  <1> QED
    BY <1>6 DEF r, s

\* A set of natural numbers which is not empty has a least element, which Min returns.
LEMMA LeastNumber ==
  ASSUME NEW T \in SUBSET Nat, T # {}
  PROVE  Min(T) \in T /\ \A y \in T : Min(T) <= y
  <1> DEFINE R == {p \in Nat \X Nat : p[1] < p[2]}
  <1>1. R = OpToRel(<, Nat)
    BY DEF OpToRel
  <1>2. IsWellFoundedOn(R, Nat)
    BY <1>1, NatLessThanWellFounded
  <1>3. PICK x \in T : \A y \in T : <<y, x>> \notin R
    <2> HIDE DEF R
    <2> QED
      BY <1>2, WFMin
  <1>4. ASSUME NEW y \in T PROVE x <= y
    <2>1. <<y, x>> \notin R
      BY <1>3
    <2>2. x \in Nat /\ y \in Nat
      OBVIOUS
    <2>3. ~(y < x)
      BY <2>1, <2>2
    <2> QED
      BY <2>2, <2>3
  <1>5. \E z \in T : \A y \in T : z <= y
    BY <1>4
  <1> QED
    BY <1>5 DEF Min

-----------------------------------------------------------------------------
(***************************************************************************)
(* The calendar.                                                           *)
(***************************************************************************)
Time == [day : Nat, hour : 0..MaxHour, min : 0..MaxMinute]

\* Days, years and the period of the calendar are not empty.
LEMMA CalendarSizes ==
  /\ MinutesPerDay \in Nat \ {0} /\ DaysPerYear \in Nat \ {0} /\ Period \in Nat \ {0}
  /\ MaxMinute + 1 \in Nat \ {0}
  <1>1. MinutesPerDay \in Nat \ {0}
    BY CalendarAssumption DEF MinutesPerDay
  <1>2. DaysPerYear \in Nat \ {0}
    <2> DEFINE n == Len(MonthStart)
    <2>1. n \in Nat /\ n > 1 /\ n - 1 \in MonthNumbers
      BY CalendarAssumption DEF MonthNumbers
    <2>2. MonthStart[n] \in Nat /\ MonthStart[n - 1] \in Nat
      BY <2>1, CalendarAssumption
    <2>3. MonthStart[(n - 1) + 1] - MonthStart[n - 1] > 0
      BY <2>1, CalendarAssumption DEF MonthDays
    <2>4. (n - 1) + 1 = n
      BY <2>1
    <2> HIDE DEF n
    <2>5. MonthStart[n] > 0
      BY <2>2, <2>3, <2>4
    <2> QED
      BY <2>2, <2>5 DEF DaysPerYear, n
  <1>3. Period \in Nat \ {0}
    BY <1>2, CalendarAssumption DEF Period
  <1> QED
    BY <1>1, <1>2, <1>3, CalendarAssumption

MinuteOfDay(tm) == tm.hour * (MaxMinute + 1) + tm.min

\* Hour and minute make a minute of the day.
LEMMA MinuteOfDayType ==
  ASSUME NEW tm \in Time
  PROVE  MinuteOfDay(tm) \in 0..(MinutesPerDay - 1)
  <1> DEFINE h == MaxMinute + 1
             k == MaxHour + 1
  <1>1. h \in Nat \ {0} /\ k \in Nat
    BY CalendarAssumption
  <1>2. tm.hour \in Nat /\ tm.hour < k /\ tm.min \in Nat /\ tm.min < h
    BY CalendarAssumption DEF Time
  <1>3. MinutesPerDay = h * k /\ MinuteOfDay(tm) = tm.hour * h + tm.min
    BY DEF MinutesPerDay, MinuteOfDay
  <1> HIDE DEF h, k
  <1>4. h * tm.hour + h <= h * k
    BY <1>1, <1>2, ProductGap
  <1>5. tm.hour * h = h * tm.hour /\ h * tm.hour \in Nat /\ h * k \in Nat
    BY <1>1, <1>2
  <1> QED
    BY <1>1, <1>2, <1>3, <1>4, <1>5

\* TimeGm undoes what GmTime does.
LEMMA GmTimeInverse ==
  ASSUME NEW t \in Nat
  PROVE  GmTime(t) \in Time /\ TimeGm(GmTime(t)) = t
  <1> DEFINE m == MinutesPerDay
             h == MaxMinute + 1
             u == t % m
  <1>1. m \in Nat \ {0} /\ h \in Nat \ {0} /\ MaxHour \in Nat /\ MaxMinute \in Nat
    BY CalendarSizes, CalendarAssumption
  <1>2. m = h * (MaxHour + 1)
    BY DEF MinutesPerDay
  <1> HIDE DEF m, h
  <1>3. t \div m \in Nat /\ u \in 0..(m - 1) /\ t = m * (t \div m) + u
    BY <1>1
  <1> DEFINE d == t \div m
  <1> HIDE DEF u, d
  <1>4. u \in Nat /\ u < m
    BY <1>1, <1>3
  <1>5. u \div h \in Nat /\ u % h \in 0..(h - 1) /\ u = h * (u \div h) + (u % h)
    BY <1>1, <1>4
  <1> DEFINE q == u \div h
             r == u % h
  <1> HIDE DEF q, r
  <1>6. q \in Nat /\ r \in 0..(h - 1) /\ u = h * q + r
    BY <1>5 DEF q, r
  <1>7. ~(MaxHour < q)
    <2> SUFFICES ASSUME MaxHour < q PROVE FALSE
      OBVIOUS
    <2>1. h * MaxHour + h <= h * q
      BY <1>1, <1>6, ProductGap
    <2>2. h * (MaxHour + 1) = h * MaxHour + h
      BY <1>1
    <2>3. h * q \in Int /\ h * MaxHour \in Int
      BY <1>1, <1>6
    <2> QED
      BY <1>1, <1>2, <1>4, <1>6, <2>1, <2>2, <2>3
  <1>8. q \in 0..MaxHour /\ r \in 0..MaxMinute
    BY <1>1, <1>6, <1>7 DEF h
  <1>9. GmTime(t) = [day |-> d, hour |-> q, min |-> r]
    BY DEF GmTime, m, h, u, q, r, d
  <1>10. GmTime(t) \in Time
    BY <1>3, <1>8, <1>9 DEF Time, d
  <1>11. TimeGm(GmTime(t)) = d * m + q * h + r
    BY <1>9 DEF TimeGm, m, h
  <1>12. d \in Nat /\ t = m * d + u
    BY <1>3 DEF d
  <1>13. d * m = m * d /\ q * h = h * q /\ h * q \in Nat /\ m * d \in Nat
    BY <1>1, <1>6, <1>12
  <1>14. d * m + q * h + r = t
    BY <1>1, <1>6, <1>12, <1>13
  <1> QED
    BY <1>10, <1>11, <1>14

\* tm is earlier than tn.
Before(tm, tn) ==
  \/ tm.day < tn.day
  \/ tm.day = tn.day /\ tm.hour < tn.hour
  \/ tm.day = tn.day /\ tm.hour = tn.hour /\ tm.min < tn.min

\* An earlier time has a smaller time stamp.
LEMMA BeforeIsLess ==
  ASSUME NEW tm \in Time, NEW tn \in Time, Before(tm, tn)
  PROVE  TimeGm(tm) < TimeGm(tn)
  <1> DEFINE m == MinutesPerDay
             h == MaxMinute + 1
  <1>1. m \in Nat \ {0} /\ h \in Nat \ {0} /\ MaxMinute \in Nat
    BY CalendarSizes, CalendarAssumption
  <1>2. /\ tm.day \in Nat /\ tn.day \in Nat /\ tm.hour \in Nat /\ tn.hour \in Nat
        /\ tm.min \in Nat /\ tn.min \in Nat /\ tm.min < h /\ tn.min < h
    BY CalendarAssumption DEF Time
  <1> DEFINE a == MinuteOfDay(tm)
             b == MinuteOfDay(tn)
  <1>3. a \in Nat /\ a < m /\ b \in Nat /\ b < m
    BY <1>1, MinuteOfDayType
  <1>4. a = tm.hour * h + tm.min /\ b = tn.hour * h + tn.min
    BY DEF MinuteOfDay
  <1>5. TimeGm(tm) = tm.day * m + tm.hour * h + tm.min
        /\ TimeGm(tn) = tn.day * m + tn.hour * h + tn.min
    BY DEF TimeGm
  <1> HIDE DEF m, h, a, b
  <1>6. /\ tm.day * m \in Nat /\ tn.day * m \in Nat
        /\ tm.hour * h \in Nat /\ tn.hour * h \in Nat
    BY <1>1, <1>2
  <1>7. TimeGm(tm) = tm.day * m + a /\ TimeGm(tn) = tn.day * m + b
    BY <1>2, <1>4, <1>5, <1>6
  <1>8. CASE tm.day < tn.day
    <2>1. m * tm.day + m <= m * tn.day
      BY <1>1, <1>2, <1>8, ProductGap
    <2>2. m * tm.day = tm.day * m /\ m * tn.day = tn.day * m
      BY <1>1, <1>2
    <2> QED
      BY <1>1, <1>3, <1>6, <1>7, <2>1, <2>2
  <1>9. CASE tm.day = tn.day /\ tm.hour < tn.hour
    <2>1. h * tm.hour + h <= h * tn.hour
      BY <1>1, <1>2, <1>9, ProductGap
    <2>2. h * tm.hour = tm.hour * h /\ h * tn.hour = tn.hour * h
      BY <1>1, <1>2
    <2>3. a < b
      BY <1>1, <1>2, <1>4, <1>6, <2>1, <2>2
    <2> QED
      BY <1>3, <1>6, <1>7, <1>9, <2>3
  <1>10. CASE tm.day = tn.day /\ tm.hour = tn.hour /\ tm.min < tn.min
    BY <1>2, <1>5, <1>6, <1>10
  <1> QED
    BY <1>8, <1>9, <1>10 DEF Before

\* A time stamp is a number.
LEMMA TimeGmType ==
  ASSUME NEW tm \in Time
  PROVE  TimeGm(tm) \in Nat
  <1>1. tm.day \in Nat /\ tm.hour \in Nat /\ tm.min \in Nat
    BY CalendarAssumption DEF Time
  <1>2. MinutesPerDay \in Nat /\ MaxMinute + 1 \in Nat
    BY CalendarSizes
  <1>3. tm.day * MinutesPerDay \in Nat /\ tm.hour * (MaxMinute + 1) \in Nat
    BY <1>1, <1>2
  <1> QED
    BY <1>1, <1>3 DEF TimeGm

\* The order of times is that of days, hours and minutes.
LEMMA TimeOrder ==
  ASSUME NEW tm \in Time, NEW tn \in Time
  PROVE  /\ TimeGm(tm) < TimeGm(tn) <=> Before(tm, tn)
         /\ TimeGm(tm) = TimeGm(tn) => tm = tn
  <1>1. Before(tm, tn) \/ Before(tn, tm) \/ tm = tn
    <2>1. /\ tm.day \in Nat /\ tn.day \in Nat /\ tm.hour \in Int /\ tn.hour \in Int
          /\ tm.min \in Int /\ tn.min \in Int
      BY DEF Time
    <2>2. tm.day = tn.day /\ tm.hour = tn.hour /\ tm.min = tn.min => tm = tn
      BY DEF Time
    <2> QED
      BY <2>1, <2>2 DEF Before
  <1>2. TimeGm(tm) \in Nat /\ TimeGm(tn) \in Nat
    BY TimeGmType
  <1>3. Before(tm, tn) => TimeGm(tm) < TimeGm(tn)
    BY BeforeIsLess
  <1>4. Before(tn, tm) => TimeGm(tn) < TimeGm(tm)
    BY BeforeIsLess
  <1> QED
    BY <1>1, <1>2, <1>3, <1>4

\* GmTime undoes what TimeGm does.
LEMMA TimeGmInverse ==
  ASSUME NEW tm \in Time
  PROVE  GmTime(TimeGm(tm)) = tm
  <1>1. TimeGm(tm) \in Nat
    BY TimeGmType
  <1>2. GmTime(TimeGm(tm)) \in Time /\ TimeGm(GmTime(TimeGm(tm))) = TimeGm(tm)
    BY <1>1, GmTimeInverse
  <1> QED
    BY <1>2, TimeOrder

\* The calendar repeats after Period days.
LEMMA DatesRepeat ==
  ASSUME NEW s, NEW d \in Nat, NEW e \in Nat, NEW k \in Int, d = e + Period * k
  PROVE  CheckDate(s, d) <=> CheckDate(s, e)
  <1>1. DaysPerYear \in Nat \ {0} /\ WeekDays \in Nat \ {0}
    BY CalendarSizes, CalendarAssumption
  <1>2. Period * k = DaysPerYear * (WeekDays * k) /\ Period * k = WeekDays * (DaysPerYear * k)
    BY <1>1 DEF Period
  <1>3. WeekDays * k \in Int /\ DaysPerYear * k \in Int
    BY <1>1
  <1>4. d % DaysPerYear = e % DaysPerYear
    <2> DEFINE n == WeekDays * k
    <2>1. n \in Int /\ d = e + DaysPerYear * n
      BY <1>2, <1>3
    <2>2. d \in Int /\ e \in Int
      OBVIOUS
    <2> HIDE DEF n
    <2> QED
      BY <1>1, <2>1, <2>2, SameRemainder, Zenon
  <1>5. d % WeekDays = e % WeekDays
    <2> DEFINE n == DaysPerYear * k
    <2>1. n \in Int /\ d = e + WeekDays * n
      BY <1>2, <1>3
    <2>2. d \in Int /\ e \in Int
      OBVIOUS
    <2> HIDE DEF n
    <2> QED
      BY <1>1, <2>1, <2>2, SameRemainder, Zenon
  <1>6. Month(d) = Month(e)
    BY <1>4 DEF Month
  <1>7. MonthDay(d) = MonthDay(e) /\ WeekDay(d) = WeekDay(e)
    BY <1>4, <1>5, <1>6 DEF MonthDay, WeekDay
  <1> QED
    BY <1>6, <1>7 DEF CheckDate

\* If none of Period successive days matches then no day does.
LEMMA OnePeriodSuffices ==
  ASSUME NEW s, NEW a \in Nat, \A e \in a..(a + Period - 1) : ~CheckDate(s, e)
  PROVE  \A d \in Nat : ~CheckDate(s, d)
  <1> SUFFICES ASSUME NEW d \in Nat PROVE ~CheckDate(s, d)
    OBVIOUS
  <1>1. Period \in Nat \ {0}
    BY CalendarSizes
  <1>2. PICK k \in Int, r \in 0..(Period - 1) : d - a = Period * k + r
    <2>1. d - a \in Int
      OBVIOUS
    <2>2. /\ (d - a) \div Period \in Int /\ (d - a) % Period \in 0..(Period - 1)
          /\ d - a = Period * ((d - a) \div Period) + ((d - a) % Period)
      BY <1>1, <2>1, DivMod
    <2> QED
      BY <2>2
  <1>3. a + r \in a..(a + Period - 1) /\ a + r \in Nat
    BY <1>1
  <1>4. d = (a + r) + Period * k
    <2>1. Period * k \in Int
      BY <1>1
    <2> QED
      BY <1>1, <1>2, <2>1
  <1> QED
    BY <1>3, <1>4, DatesRepeat

-----------------------------------------------------------------------------
(***************************************************************************)
(* Schedules.                                                              *)
(***************************************************************************)

\* Fields that the parser accepts have at least one bit, and only bits in range.
LEMMA ParsedField ==
  ASSUME NEW field, NEW max \in Nat, IsField(field, 0, max)
  PROVE  /\ ParseNumericBitSet(field, 0, max) \subseteq 0..max
         /\ ParseNumericBitSet(field, 0, max) # {}
  <1>1. ASSUME NEW range \in field
        PROVE  /\ ParseNumericRangeBitSet(range, 0, max) \subseteq 0..max
               /\ ParseNumericRangeBitSet(range, 0, max) # {}
    <2> DEFINE step == IF range.step = 0 THEN 1 ELSE range.step
               first == IF range.star THEN 0 ELSE range.first
               final == IF range.star THEN max ELSE range.last
    <2>1. /\ range \in [star : BOOLEAN, first : Nat, last : Nat, step : Nat]
          /\ range.star \/ (range.first <= range.last /\ range.last <= max)
      BY DEF IsField
    <2>2. /\ step \in Nat \ {0} /\ first \in Nat /\ final \in Nat
          /\ first <= final /\ final <= max
      BY <2>1
    <2>3. ParseNumericRangeBitSet(range, 0, max) = {i \in first..final : (i - first) % step = 0}
      BY <2>1 DEF ParseNumericRangeBitSet, MakeRangeBitSet
    <2> HIDE DEF step, first, final
    <2>4. (first - first) % step = 0
      <3>1. first - first = 0
        BY <2>2
      <3>2. 0 % step = 0
        BY <2>2
      <3> QED
        BY <3>1, <3>2
    <2>5. first \in {i \in first..final : (i - first) % step = 0}
      BY <2>2, <2>4
    <2>6. {i \in first..final : (i - first) % step = 0} \subseteq 0..max
      BY <2>2
    <2> QED
      BY <2>3, <2>5, <2>6
  <1>2. PICK range \in field : TRUE
    BY DEF IsField
  <1> QED
    BY <1>1, <1>2 DEF ParseNumericBitSet

\* A schedule which is not "@once" has hours and minutes.
Regular(s) ==
  /\ s.minutes \subseteq 0..MaxMinute /\ s.minutes # {}
  /\ s.hours \subseteq 0..MaxHour /\ s.hours # {}

\* The parser leaves no field empty.
LEMMA ParsedSchedule ==
  ASSUME NEW s \in Schedules, ~IsOnce(s)
  PROVE  Regular(s)
  <1>1. s # OnceSchedule
    BY DEF IsOnce, OnceSchedule
  <1>2. PICK min \in Minutes, hour \in Hours, mday \in DaysOfMonth, mon \in Months,
             wday \in DaysOfWeek : s = ParseSchedule(min, hour, mday, mon, wday)
    BY <1>1 DEF Schedules
  <1>3. /\ s.minutes = ParseNumericBitSet(min, 0, MaxMinute)
        /\ s.hours = ParseNumericBitSet(hour, 0, MaxHour)
    BY <1>2 DEF ParseSchedule
  <1>4. IsField(min, 0, MaxMinute) /\ IsField(hour, 0, MaxHour)
    BY ScheduleAssumption
  <1>5. MaxMinute \in Nat /\ MaxHour \in Nat
    BY CalendarAssumption
  <1> QED
    BY <1>3, <1>4, <1>5, ParsedField DEF Regular

\* NextBit finds the next bit or else the first one.
LEMMA NextBitFinds ==
  ASSUME NEW b \in SUBSET Nat, b # {}, NEW pos \in Nat
  PROVE  /\ NextBit(b, pos) \in b
         /\ NextBit(b, pos) > pos =>
              \A i \in b : i > pos => NextBit(b, pos) <= i
         /\ ~(NextBit(b, pos) > pos) =>
              /\ \A i \in b : ~(i > pos)
              /\ \A i \in b : NextBit(b, pos) <= i
  <1> DEFINE later == {i \in b : i > pos}
  <1>1. CASE \E i \in b : i > pos
    <2>1. NextBit(b, pos) = Min(later)
      BY <1>1 DEF NextBit
    <2>2. later \in SUBSET Nat /\ later # {}
      BY <1>1
    <2>3. Min(later) \in later /\ \A y \in later : Min(later) <= y
      <3> HIDE DEF later
      <3> QED
        BY <2>2, LeastNumber
    <2> QED
      BY <2>1, <2>3
  <1>2. CASE ~\E i \in b : i > pos
    <2>1. CASE \E i \in b : i < pos
      <3>1. NextBit(b, pos) = Min(b)
        BY <1>2, <2>1 DEF NextBit
      <3>2. Min(b) \in b /\ \A y \in b : Min(b) <= y
        BY LeastNumber
      <3> QED
        BY <1>2, <3>1, <3>2
    <2>2. CASE ~\E i \in b : i < pos
      <3>1. NextBit(b, pos) = pos
        BY <1>2, <2>2 DEF NextBit
      <3>2. \A i \in b : i = pos
        BY <1>2, <2>2
      <3>3. pos \in b
        BY <3>2
      <3> QED
        BY <1>2, <3>1, <3>2, <3>3
    <2> QED
      BY <2>1, <2>2
  <1> QED
    BY <1>1, <1>2

\* The first candidate is the first time after tm whose hour and minute match.
LEMMA FirstCandidateIsFirst ==
  ASSUME NEW s, Regular(s), NEW tm \in Time
  PROVE  /\ FirstCandidate(s, tm) \in Time
         /\ FirstCandidate(s, tm).hour \in s.hours
         /\ FirstCandidate(s, tm).min \in s.minutes
         /\ FirstCandidate(s, tm).day <= tm.day + 1
         /\ Before(tm, FirstCandidate(s, tm))
         /\ \A u \in Time : Before(tm, u) /\ MatchesTime(s, u.hour, u.min)
                              => ~Before(u, FirstCandidate(s, tm))
  <1> DEFINE c == FirstCandidate(s, tm)
             tm_min == IF tm.hour \in s.hours THEN tm.min ELSE MaxMinute + 1
             min == NextBit(s.minutes, tm_min)
             next_hour == NextBit(s.hours, tm.hour)
  <1>1. MaxMinute \in Nat /\ MaxHour \in Nat
    BY CalendarAssumption
  <1>2. /\ tm.day \in Nat /\ tm.hour \in Nat /\ tm.min \in Nat /\ tm.hour <= MaxHour
        /\ tm.min <= MaxMinute
    BY <1>1 DEF Time
  <1>3. /\ s.minutes \in SUBSET Nat /\ s.minutes # {} /\ \A i \in s.minutes : i <= MaxMinute
        /\ s.hours \in SUBSET Nat /\ s.hours # {} /\ \A i \in s.hours : i <= MaxHour
    BY <1>1 DEF Regular
  <1>4. tm_min \in Nat /\ tm.min <= tm_min
    BY <1>1, <1>2
  <1>5. /\ min \in s.minutes
        /\ min > tm_min => \A i \in s.minutes : i > tm_min => min <= i
        /\ ~(min > tm_min) => /\ \A i \in s.minutes : ~(i > tm_min)
                              /\ \A i \in s.minutes : min <= i
    <2> HIDE DEF tm_min
    <2> QED
      BY <1>3, <1>4, NextBitFinds
  <1>6. /\ next_hour \in s.hours
        /\ next_hour > tm.hour => \A i \in s.hours : i > tm.hour => next_hour <= i
        /\ ~(next_hour > tm.hour) => /\ \A i \in s.hours : ~(i > tm.hour)
                                     /\ \A i \in s.hours : next_hour <= i
    BY <1>2, <1>3, NextBitFinds
  <1>7. c = LET hour == IF min <= tm_min THEN next_hour ELSE tm.hour
            IN [day |-> tm.day + (IF min <= tm_min /\ hour <= tm.hour THEN 1 ELSE 0),
                hour |-> hour, min |-> min]
    BY DEF FirstCandidate
  <1>8. tm.hour \in s.hours => tm_min = tm.min
    OBVIOUS
  <1>9. tm.hour \notin s.hours => ~(min > tm_min)
    <2>1. min \in Nat /\ min <= MaxMinute
      BY <1>3, <1>5
    <2> HIDE DEF min
    <2> QED
      BY <1>1, <2>1
  <1>10. min \in Nat /\ min <= MaxMinute /\ next_hour \in Nat /\ next_hour <= MaxHour
    BY <1>3, <1>5, <1>6
  <1> HIDE DEF tm_min, min, next_hour, c
  <1>11. ASSUME NEW u \in Time
         PROVE  u.day \in Nat /\ u.hour \in Nat /\ u.min \in Nat
    BY <1>1 DEF Time
  <1>12. CASE min > tm_min
    <2>1. tm.hour \in s.hours /\ tm_min = tm.min
      BY <1>8, <1>9, <1>12
    <2>2. c = [day |-> tm.day, hour |-> tm.hour, min |-> min]
      BY <1>2, <1>4, <1>7, <1>10, <1>12
    <2>3. c.day = tm.day /\ c.hour = tm.hour /\ c.min = min /\ c \in Time
      BY <1>1, <1>2, <1>10, <2>2 DEF Time
    <2>4. Before(tm, c) /\ c.day <= tm.day + 1
      BY <1>2, <1>10, <1>12, <2>1, <2>3 DEF Before
    <2>5. ASSUME NEW u \in Time, Before(tm, u), MatchesTime(s, u.hour, u.min), Before(u, c)
          PROVE  FALSE
      <3>1. u.hour \in s.hours /\ u.min \in s.minutes
        BY <2>5 DEF MatchesTime
      <3>2. u.day = tm.day /\ u.hour = tm.hour /\ tm.min < u.min /\ u.min < min
        BY <1>2, <1>10, <1>11, <2>3, <2>5 DEF Before
      <3>3. min <= u.min
        BY <1>2, <1>5, <1>11, <1>12, <2>1, <3>1, <3>2
      <3> QED
        BY <1>10, <1>11, <3>2, <3>3
    <2> QED
      BY <1>5, <2>1, <2>3, <2>4, <2>5 DEF c
  <1>13. ASSUME ~(min > tm_min), NEW u \in Time, Before(tm, u),
                MatchesTime(s, u.hour, u.min), u.day = tm.day
         PROVE  u.hour > tm.hour
    <2>1. u.hour \in s.hours /\ u.min \in s.minutes /\ ~(u.min > tm_min)
      BY <1>5, <1>13 DEF MatchesTime
    <2>2. SUFFICES ASSUME u.hour = tm.hour PROVE FALSE
      BY <1>2, <1>11, <1>13 DEF Before
    <2>3. tm_min = tm.min /\ tm.min < u.min
      BY <1>2, <1>8, <1>11, <1>13, <2>1, <2>2 DEF Before
    <2> QED
      BY <1>2, <1>11, <2>1, <2>3
  <1>14. CASE ~(min > tm_min) /\ next_hour > tm.hour
    <2>1. c = [day |-> tm.day, hour |-> next_hour, min |-> min]
      BY <1>2, <1>4, <1>7, <1>10, <1>14
    <2>2. c.day = tm.day /\ c.hour = next_hour /\ c.min = min /\ c \in Time
      BY <1>1, <1>2, <1>10, <2>1 DEF Time
    <2>3. Before(tm, c) /\ c.day <= tm.day + 1
      BY <1>2, <1>10, <1>14, <2>2 DEF Before
    <2>4. ASSUME NEW u \in Time, Before(tm, u), MatchesTime(s, u.hour, u.min), Before(u, c)
          PROVE  FALSE
      <3>1. u.hour \in s.hours /\ u.min \in s.minutes
        BY <2>4 DEF MatchesTime
      <3>2. u.day = tm.day
        BY <1>2, <1>11, <2>2, <2>4 DEF Before
      <3>3. u.hour > tm.hour
        BY <1>13, <1>14, <2>4, <3>2
      <3>4. next_hour <= u.hour /\ min <= u.min
        BY <1>5, <1>6, <1>14, <3>1, <3>3
      <3> QED
        BY <1>10, <1>11, <2>2, <2>4, <3>2, <3>4 DEF Before
    <2> QED
      BY <1>5, <1>6, <2>2, <2>3, <2>4 DEF c
  <1>15. CASE ~(min > tm_min) /\ ~(next_hour > tm.hour)
    <2>1. c = [day |-> tm.day + 1, hour |-> next_hour, min |-> min]
      BY <1>2, <1>4, <1>7, <1>10, <1>15
    <2>2. c.day = tm.day + 1 /\ c.hour = next_hour /\ c.min = min /\ c \in Time
      BY <1>1, <1>2, <1>10, <2>1 DEF Time
    <2>3. Before(tm, c) /\ c.day <= tm.day + 1
      BY <1>2, <2>2 DEF Before
    <2>4. ASSUME NEW u \in Time, Before(tm, u), MatchesTime(s, u.hour, u.min), Before(u, c)
          PROVE  FALSE
      <3>1. u.hour \in s.hours /\ u.min \in s.minutes
        BY <2>4 DEF MatchesTime
      <3>2. next_hour <= u.hour /\ min <= u.min /\ ~(u.hour > tm.hour)
        BY <1>5, <1>6, <1>15, <3>1
      <3>3. u.day # tm.day
        BY <1>13, <1>15, <2>4, <3>2
      <3> QED
        BY <1>2, <1>10, <1>11, <2>2, <2>4, <3>2, <3>3 DEF Before
    <2> QED
      BY <1>5, <1>6, <2>2, <2>3, <2>4 DEF c
  <1> QED
    BY <1>12, <1>14, <1>15

-----------------------------------------------------------------------------
(***************************************************************************)
(* CronSchedule::Next.                                                     *)
(***************************************************************************)
Candidate == FirstCandidate(schedule, GmTime(Last))

Inputs == schedule \in Schedules /\ Last \in Nat /\ pc \in {"start", "days", "done"}

\* The loop changes nothing but the day, and the days it has left behind do not match;
\* if it has gone through the whole calendar, no day does.
Searching ==
  pc # "start" /\ ~IsOnce(schedule) =>
    /\ next \in Time /\ next.hour = Candidate.hour /\ next.min = Candidate.min
    /\ Candidate.day <= next.day
    /\ \/ \A d \in Candidate.day..(next.day - 1) : ~CheckDate(schedule, d)
       \/ PossibleDates(schedule) = {}
    /\ pc = "done" => CheckDate(schedule, next.day)

IInv == Inputs /\ Searching

\* A date that does not occur in one period never occurs.
LEMMA NoPossibleDate ==
  ASSUME NEW s, PossibleDates(s) = {}
  PROVE  \A d \in Nat : ~CheckDate(s, d)
  <1>1. Period \in Nat \ {0}
    BY CalendarSizes
  <1>2. \A e \in 0..(0 + Period - 1) : ~CheckDate(s, e)
    BY <1>1 DEF PossibleDates
  <1> QED
    BY <1>2, OnePeriodSuffices

\* FirstCandidateIsFirst for the parameters of Next.
LEMMA CandidateFacts ==
  ASSUME Inputs, ~IsOnce(schedule)
  PROVE  /\ Candidate \in Time /\ GmTime(Last) \in Time
         /\ MatchesTime(schedule, Candidate.hour, Candidate.min)
         /\ Candidate.day <= GmTime(Last).day + 1
         /\ Before(GmTime(Last), Candidate)
         /\ \A u \in Time : Before(GmTime(Last), u) /\ MatchesTime(schedule, u.hour, u.min)
                              => ~Before(u, Candidate)
  <1>1. GmTime(Last) \in Time
    BY GmTimeInverse DEF Inputs
  <1>2. Regular(schedule)
    BY ParsedSchedule DEF Inputs
  <1> QED
    BY <1>1, <1>2, FirstCandidateIsFirst DEF Candidate, MatchesTime

\* The loop leaves a day behind which does not match.
LEMMA IncrementDayStep ==
  ASSUME IInv, IncrementDay
  PROVE  IInv'
  <1>1. Inputs /\ Searching /\ pc = "days" /\ ~CheckDate(schedule, next.day)
    BY DEF IInv, IncrementDay
  <1>2. UNCHANGED <<schedule, last, now, pc>>
    BY DEF IncrementDay
  <1>3. Inputs' /\ Candidate' = Candidate
    BY <1>1, <1>2 DEF Inputs, Last, Candidate
  <1>4. CASE IsOnce(schedule)
    BY <1>2, <1>3, <1>4 DEF IInv, Searching, IsOnce
  <1>5. CASE ~IsOnce(schedule)
    <2> DEFINE a == Candidate.day
               p == GmTime(Last).day
               d == next.day
    <2>1. /\ next \in Time /\ next.hour = Candidate.hour /\ next.min = Candidate.min
          /\ a <= d
          /\ \/ \A e \in a..(d - 1) : ~CheckDate(schedule, e)
             \/ PossibleDates(schedule) = {}
      BY <1>1, <1>5 DEF Searching
    <2>2. Candidate \in Time /\ GmTime(Last) \in Time /\ a <= p + 1
      BY <1>1, <1>5, CandidateFacts
    <2>3. a \in Nat /\ p \in Nat /\ d \in Nat /\ Period \in Nat \ {0}
      BY <2>1, <2>2, CalendarSizes DEF Time
    <2>4. next' = [next EXCEPT !.day = IF d > p + 2 * Period THEN d + 1 - Period ELSE d + 1]
      BY DEF IncrementDay
    <2> HIDE DEF a, p, d
    <2>5. \/ \A e \in a..d : ~CheckDate(schedule, e)
          \/ PossibleDates(schedule) = {}
      BY <1>1, <2>1, <2>3 DEF d
    <2>6. CASE d > p + 2 * Period
      <3>1. d + 1 - Period \in Nat /\ a <= d + 1 - Period /\ a + Period - 1 <= d
        BY <2>2, <2>3, <2>6
      <3>2. PossibleDates(schedule) = {}
        <4>1. SUFFICES ASSUME \A e \in a..d : ~CheckDate(schedule, e)
                       PROVE  PossibleDates(schedule) = {}
          BY <2>5
        <4>2. \A e \in a..(a + Period - 1) : ~CheckDate(schedule, e)
          BY <2>3, <3>1, <4>1
        <4>3. \A e \in Nat : ~CheckDate(schedule, e)
          BY <2>3, <4>2, OnePeriodSuffices
        <4> QED
          BY <2>3, <4>3 DEF PossibleDates
      <3>3. /\ next' \in Time /\ next'.hour = next.hour /\ next'.min = next.min
            /\ next'.day = d + 1 - Period
        BY <2>1, <2>4, <2>6, <3>1 DEF Time
      <3>4. PossibleDates(schedule)' = {}
        BY <1>2, <3>2
      <3>5. a <= next'.day
        BY <3>1, <3>3
      <3> QED
        BY <1>1, <1>2, <1>3, <2>1, <3>3, <3>4, <3>5 DEF IInv, Searching, a
    <2>7. CASE ~(d > p + 2 * Period)
      <3>1. /\ next' \in Time /\ next'.hour = next.hour /\ next'.min = next.min
            /\ next'.day = d + 1
        BY <2>1, <2>3, <2>4, <2>7 DEF Time
      <3>2. a <= next'.day /\ a..(next'.day - 1) = a..d
        BY <2>1, <2>3, <3>1
      <3>3. \/ \A e \in a..(next'.day - 1) : ~CheckDate(schedule', e)
            \/ PossibleDates(schedule)' = {}
        BY <1>2, <2>5, <3>2
      <3> QED
        BY <1>1, <1>2, <1>3, <2>1, <3>1, <3>2, <3>3 DEF IInv, Searching, a
    <2> QED
      BY <2>6, <2>7
  <1> QED
    BY <1>4, <1>5

\* The inductive invariant: no day before the current one matches.
THEOREM Invariance == Spec => []IInv
  <1>1. Init => IInv
    BY ScheduleAssumption DEF Init, IInv, Inputs, Searching, Last
  <1>2. IInv /\ [Next]_vars => IInv'
    <2> SUFFICES ASSUME IInv, [Next]_vars PROVE IInv'
      OBVIOUS
    <2>1. CASE UNCHANGED vars
      <3>1. Inputs' /\ Candidate' = Candidate
        BY <2>1 DEF vars, IInv, Inputs, Last, Candidate
      <3> QED
        BY <2>1, <3>1 DEF vars, IInv, Searching, PossibleDates
    <2>2. CASE NextOnce
      BY <2>2 DEF NextOnce, IInv, Inputs, Last, Searching
    <2>3. CASE NextMinute
      <3>1. Inputs /\ ~IsOnce(schedule) /\ next' = Candidate /\ pc' = "days"
        BY <2>3 DEF NextMinute, IInv, Candidate
      <3>2. Inputs' /\ Candidate' = Candidate
        BY <2>3, <3>1 DEF NextMinute, Inputs, Last, Candidate
      <3>3. Candidate \in Time
        BY <3>1, CandidateFacts
      <3>4. Candidate.day \in Nat
        BY <3>3 DEF Time
      <3>5. Candidate.day <= Candidate.day /\ Candidate.day..(Candidate.day - 1) = {}
        BY <3>4
      <3> QED
        BY <3>1, <3>2, <3>3, <3>5 DEF IInv, Searching
    <2>4. CASE IncrementDay
      BY <2>4, IncrementDayStep
    <2>5. CASE Return
      <3>1. Inputs' /\ Candidate' = Candidate
        BY <2>5 DEF Return, IInv, Inputs, Last, Candidate
      <3> QED
        BY <2>5, <3>1 DEF Return, IInv, Searching, PossibleDates
    <2> QED
      BY <2>1, <2>2, <2>3, <2>4, <2>5 DEF Next
  <1> QED
    BY <1>1, <1>2, PTL DEF Spec

\* What is known when the loop has ended, whatever it returns.
Result ==
  /\ next \in Time
  /\ MatchesTime(schedule, next.hour, next.min) /\ CheckDate(schedule, next.day)
  /\ Before(GmTime(Last), next)
  /\ next.hour = Candidate.hour /\ next.min = Candidate.min /\ Candidate.day <= next.day
  /\ \A d \in Candidate.day..(next.day - 1) : ~CheckDate(schedule, d)
  /\ next.day <= GmTime(Last).day + Period

\* What is known of the result when the loop ends.
LEMMA Returning ==
  ASSUME IInv, Returned
  PROVE  Result
  <1>1. Inputs /\ Searching /\ pc = "done" /\ ~IsOnce(schedule)
    BY DEF IInv, Returned
  <1>2. /\ next \in Time /\ next.hour = Candidate.hour /\ next.min = Candidate.min
        /\ Candidate.day <= next.day /\ CheckDate(schedule, next.day)
        /\ \/ \A d \in Candidate.day..(next.day - 1) : ~CheckDate(schedule, d)
           \/ PossibleDates(schedule) = {}
    BY <1>1 DEF Searching
  <1>3. /\ Candidate \in Time /\ GmTime(Last) \in Time
        /\ MatchesTime(schedule, Candidate.hour, Candidate.min)
        /\ Candidate.day <= GmTime(Last).day + 1 /\ Before(GmTime(Last), Candidate)
    BY <1>1, CandidateFacts
  <1> DEFINE a == Candidate.day
             p == GmTime(Last).day
             d == next.day
  <1>4. a \in Nat /\ p \in Nat /\ d \in Nat /\ Period \in Nat \ {0}
    BY <1>2, <1>3, CalendarSizes DEF Time
  <1>5. \A e \in a..(d - 1) : ~CheckDate(schedule, e)
    BY <1>2, <1>4, NoPossibleDate
  <1>6. d <= p + Period
    <2> SUFFICES ASSUME ~(d <= p + Period) PROVE FALSE
      OBVIOUS
    <2> HIDE DEF a, p, d
    <2>1. d - Period \in a..(d - 1) /\ d - Period \in Nat
      BY <1>2, <1>3, <1>4 DEF a, p, d
    <2>2. d = (d - Period) + Period * 1
      BY <1>4
    <2>3. CheckDate(schedule, d) <=> CheckDate(schedule, d - Period)
      BY <1>4, <2>1, <2>2, DatesRepeat
    <2> QED
      BY <1>2, <1>5, <2>1, <2>3 DEF d
  <1>7. Before(GmTime(Last), next)
    <2>1. /\ GmTime(Last).hour \in Int /\ GmTime(Last).min \in Int
          /\ next.hour \in Int /\ next.min \in Int
      BY <1>2, <1>3 DEF Time
    <2> QED
      BY <1>2, <1>3, <1>4, <2>1 DEF Before
  <1> QED
    BY <1>2, <1>3, <1>5, <1>6, <1>7 DEF Result

\* If there is a match in the time that Earliest considers, it finds the first one.
LEMMA EarliestFinds ==
  ASSUME NEW s, NEW t \in Nat, NEW r \in Time,
         MatchesTime(s, r.hour, r.min), CheckDate(s, r.day),
         TimeGm(r) \in (t + 1)..(t + (Period + 1) * MinutesPerDay)
  PROVE  /\ Earliest(s, t) \in Nat /\ t < Earliest(s, t) /\ Earliest(s, t) <= TimeGm(r)
         /\ LET tm == GmTime(Earliest(s, t))
            IN MatchesTime(s, tm.hour, tm.min) /\ CheckDate(s, tm.day)
  <1> DEFINE b == t + (Period + 1) * MinutesPerDay
             T == {u \in (t + 1)..b : LET tm == GmTime(u)
                                      IN MatchesTime(s, tm.hour, tm.min) /\ CheckDate(s, tm.day)}
  <1>1. b \in Nat
    BY CalendarSizes
  <1>2. Earliest(s, t) = Min(T)
    BY DEF Earliest
  <1>3. TimeGm(r) \in T
    BY TimeGmInverse
  <1>4. T \in SUBSET Nat /\ \A u \in T : t < u
    <2> HIDE DEF b
    <2> QED
      BY <1>1
  <1>5. \A u \in T : LET tm == GmTime(u)
                     IN MatchesTime(s, tm.hour, tm.min) /\ CheckDate(s, tm.day)
    OBVIOUS
  <1> HIDE DEF T
  <1>6. Min(T) \in T /\ Min(T) <= TimeGm(r)
    BY <1>3, <1>4, LeastNumber
  <1> QED
    BY <1>2, <1>4, <1>5, <1>6

\* The result lies in the window that the reference searches.
LEMMA ResultInWindow ==
  ASSUME Inputs, Result
  PROVE  TimeGm(next) \in (Last + 1)..(Last + (Period + 1) * MinutesPerDay)
  <1> DEFINE m == MinutesPerDay
             p == GmTime(Last).day
             d == next.day
             x == MinuteOfDay(next)
             y == MinuteOfDay(GmTime(Last))
  <1>1. Last \in Nat /\ next \in Time /\ Before(GmTime(Last), next) /\ d <= p + Period
    BY DEF Inputs, Result
  <1>2. GmTime(Last) \in Time /\ TimeGm(GmTime(Last)) = Last
    BY <1>1, GmTimeInverse
  <1>3. m \in Nat \ {0} /\ Period \in Nat /\ p \in Nat /\ d \in Nat
    BY <1>1, <1>2, CalendarSizes DEF Time
  <1>4. Last < TimeGm(next) /\ TimeGm(next) \in Nat
    BY <1>1, <1>2, BeforeIsLess, TimeGmType
  <1>5. x \in 0..(m - 1) /\ y \in 0..(m - 1)
    BY <1>1, <1>2, MinuteOfDayType
  <1>6. /\ next.hour * (MaxMinute + 1) \in Nat /\ next.min \in Nat
        /\ GmTime(Last).hour * (MaxMinute + 1) \in Nat /\ GmTime(Last).min \in Nat
    BY <1>1, <1>2, CalendarAssumption DEF Time
  <1>7. d * m \in Nat /\ p * m \in Nat
    BY <1>3
  <1>8. TimeGm(next) = d * m + x /\ Last = p * m + y
    BY <1>2, <1>6, <1>7 DEF TimeGm, MinuteOfDay
  <1> HIDE DEF m, p, d, x, y
  <1>9. m * d + m <= m * (p + Period + 1)
    BY <1>1, <1>3, ProductGap
  <1>10. m * (p + Period + 1) = p * m + (Period + 1) * m /\ m * d = d * m
    BY <1>3
  <1>11. (Period + 1) * m \in Nat
    BY <1>3
  <1>12. TimeGm(next) <= Last + (Period + 1) * m
    BY <1>3, <1>5, <1>7, <1>8, <1>9, <1>10, <1>11
  <1>13. TimeGm(next) \in (Last + 1)..(Last + (Period + 1) * m)
    BY <1>1, <1>4, <1>11, <1>12
  <1> QED
    BY <1>13 DEF m

\* What Next returns matches the schedule and is later than the last execution.
THEOREM ResultMatchesHolds == Spec => []ResultMatches
  <1>1. IInv => ResultMatches
    <2> SUFFICES ASSUME IInv, Returned
                 PROVE  /\ MatchesTime(schedule, next.hour, next.min)
                        /\ CheckDate(schedule, next.day) /\ TimeGm(next) > Last
      BY DEF ResultMatches
    <2>1. Result /\ Last \in Nat
      BY Returning DEF IInv, Inputs
    <2>2. GmTime(Last) \in Time /\ TimeGm(GmTime(Last)) = Last /\ next \in Time
      BY <2>1, GmTimeInverse DEF Result
    <2>3. Last < TimeGm(next)
      BY <2>1, <2>2, BeforeIsLess DEF Result
    <2> QED
      BY <2>1, <2>2, <2>3, TimeGmType DEF Result
  <1> QED
    BY <1>1, Invariance, PTL

\* Next never skips a day: for every calendar and schedule it returns a time on the day
\* of the first match.
THEOREM FirstDayHolds == Spec => []FirstDay
  <1>1. IInv => FirstDay
    <2> DEFINE e == Earliest(schedule, Last)
               tm == GmTime(e)
    <2> SUFFICES ASSUME IInv, Returned
                 PROVE  next.day = tm.day
      BY DEF FirstDay
    <2>1. Result /\ Inputs /\ Last \in Nat /\ ~IsOnce(schedule)
      BY Returning DEF IInv, Inputs, Returned
    <2>2. /\ e \in Nat /\ Last < e /\ e <= TimeGm(next)
          /\ MatchesTime(schedule, tm.hour, tm.min) /\ CheckDate(schedule, tm.day)
      BY <2>1, ResultInWindow, EarliestFinds DEF Result
    <2> HIDE DEF e
    <2>3. tm \in Time /\ TimeGm(tm) = e
      BY <2>2, GmTimeInverse
    <2> HIDE DEF tm
    <2>4. /\ GmTime(Last) \in Time /\ TimeGm(GmTime(Last)) = Last
          /\ next \in Time /\ TimeGm(next) \in Nat
      BY <2>1, GmTimeInverse, TimeGmType DEF Result
    <2>5. Before(GmTime(Last), tm)
      BY <2>2, <2>3, <2>4, TimeOrder
    <2>6. ~Before(tm, Candidate) /\ Candidate \in Time
      BY <2>1, <2>2, <2>3, <2>5, CandidateFacts
    <2>7. ~Before(next, tm)
      <3>1. ~(TimeGm(next) < TimeGm(tm))
        BY <2>2, <2>3, <2>4
      <3> QED
        BY <2>3, <2>4, <3>1, TimeOrder
    <2>8. tm.day \in Nat /\ next.day \in Nat /\ Candidate.day \in Nat
      BY <2>3, <2>4, <2>6 DEF Time
    <2>9. Candidate.day <= tm.day /\ tm.day <= next.day
      BY <2>6, <2>7, <2>8 DEF Before
    <2> QED
      BY <2>1, <2>2, <2>8, <2>9 DEF Result
  <1> QED
    BY <1>1, Invariance, PTL

\* Next returns the very first match if every day is possible.
THEOREM EveryDayExactHolds == Spec => []EveryDayExact
  <1>1. IInv => EveryDayExact
    <2> DEFINE e == Earliest(schedule, Last)
               tm == GmTime(e)
    <2> SUFFICES ASSUME IInv, Returned, PossibleDates(schedule) = 0..(Period - 1)
                 PROVE  TimeGm(next) = e
      BY DEF EveryDayExact
    <2>1. Result /\ Inputs /\ Last \in Nat /\ ~IsOnce(schedule)
      BY Returning DEF IInv, Inputs, Returned
    <2>2. /\ e \in Nat /\ Last < e /\ e <= TimeGm(next)
          /\ MatchesTime(schedule, tm.hour, tm.min) /\ CheckDate(schedule, tm.day)
      BY <2>1, ResultInWindow, EarliestFinds DEF Result
    <2> HIDE DEF e
    <2>3. tm \in Time /\ TimeGm(tm) = e
      BY <2>2, GmTimeInverse
    <2> HIDE DEF tm
    <2>4. /\ GmTime(Last) \in Time /\ TimeGm(GmTime(Last)) = Last
          /\ next \in Time /\ TimeGm(next) \in Nat
      BY <2>1, GmTimeInverse, TimeGmType DEF Result
    <2>5. Before(GmTime(Last), tm)
      BY <2>2, <2>3, <2>4, TimeOrder
    <2>6. ~Before(tm, Candidate) /\ Candidate \in Time
      BY <2>1, <2>2, <2>3, <2>5, CandidateFacts
    <2>7. Candidate.day \in Nat /\ next.day \in Nat /\ Period \in Nat \ {0}
      BY <2>4, <2>6, CalendarSizes DEF Time
    <2>8. CheckDate(schedule, Candidate.day)
      <3> DEFINE c == Candidate.day
      <3> HIDE DEF c
      <3>0. c \in Int
        BY <2>7 DEF c
      <3> DEFINE r == c % Period
                 k == c \div Period
      <3>1. k \in Int /\ r \in 0..(Period - 1) /\ c = Period * k + r
        BY <2>7, <3>0, DivMod, Zenon
      <3> HIDE DEF k, r
      <3>2. CheckDate(schedule, r) /\ r \in Nat
        BY <2>7, <3>1 DEF PossibleDates
      <3>3. c = r + Period * k /\ c \in Nat
        <4>1. Period * k \in Int
          BY <2>7, <3>1
        <4> QED
          BY <2>7, <3>1, <3>2, <4>1 DEF c
      <3>4. CheckDate(schedule, c)
        BY <3>1, <3>2, <3>3, DatesRepeat
      <3> QED
        BY <3>4 DEF c
    <2>9. next.day = Candidate.day
      BY <2>1, <2>7, <2>8 DEF Result
    <2>10. next = Candidate
      BY <2>1, <2>4, <2>6, <2>9 DEF Result, Time
    <2>11. ~(TimeGm(tm) < TimeGm(next))
      BY <2>3, <2>4, <2>6, <2>10, TimeOrder
    <2> QED
      BY <2>2, <2>3, <2>4, <2>11
  <1> QED
    BY <1>1, Invariance, PTL

-----------------------------------------------------------------------------
(***************************************************************************)
(* Termination.                                                            *)
(***************************************************************************)

\* A bound for the number of steps that are left.
StepsLeft ==
  CASE pc = "start" -> Period + 1
    [] pc = "days"  -> Candidate.day + Period - next.day
    [] pc = "done"  -> 0

\* If there is a date it can find, every step of CronSchedule::Next brings the result
\* closer: the while loop, which has no bound of its own, is left after at most one
\* period of the calendar.
SearchEnds ==
  [][PossibleDates(schedule) # {} =>
       StepsLeft \in 0..(Period + 1) /\ StepsLeft' \in Nat /\ StepsLeft' < StepsLeft]_vars

\* The loop is within one period of its first candidate.
LEMMA WithinPeriod ==
  ASSUME IInv, PossibleDates(schedule) # {}, pc = "days"
  PROVE  /\ ~IsOnce(schedule) /\ Candidate.day \in Nat /\ next.day \in Nat
         /\ Candidate.day <= next.day /\ next.day < Candidate.day + Period
         /\ Candidate.day <= GmTime(Last).day + 1 /\ GmTime(Last).day \in Nat
  <1>1. ~IsOnce(schedule)
    BY DEF IsOnce, PossibleDates, CheckDate
  <1>2. /\ next \in Time /\ Candidate.day <= next.day
        /\ \A d \in Candidate.day..(next.day - 1) : ~CheckDate(schedule, d)
    BY <1>1 DEF IInv, Searching
  <1>3. Candidate \in Time /\ GmTime(Last) \in Time /\ Candidate.day <= GmTime(Last).day + 1
    BY <1>1, CandidateFacts DEF IInv
  <1>4. /\ Candidate.day \in Nat /\ next.day \in Nat /\ GmTime(Last).day \in Nat
        /\ Period \in Nat \ {0}
    BY <1>2, <1>3, CalendarSizes DEF Time
  <1>5. ASSUME next.day >= Candidate.day + Period
        PROVE  FALSE
    <2>1. \A e \in Candidate.day..(Candidate.day + Period - 1) : ~CheckDate(schedule, e)
      BY <1>2, <1>4, <1>5
    <2>2. \A d \in Nat : ~CheckDate(schedule, d)
      BY <1>4, <2>1, OnePeriodSuffices
    <2> QED
      BY <2>2 DEF PossibleDates
  <1> QED
    BY <1>1, <1>2, <1>3, <1>4, <1>5

\* There is a bound in every state.
LEMMA StepsLeftBound ==
  ASSUME IInv, PossibleDates(schedule) # {}
  PROVE  StepsLeft \in 0..(Period + 1) /\ (pc = "days" => StepsLeft > 0)
  <1>1. Period \in Nat \ {0}
    BY CalendarSizes
  <1>2. CASE pc = "days"
    <2>1. StepsLeft = Candidate.day + Period - next.day
      BY <1>2 DEF StepsLeft
    <2> QED
      BY <1>1, <1>2, <2>1, WithinPeriod
  <1>3. CASE pc = "start"
    BY <1>1, <1>3 DEF StepsLeft
  <1>4. CASE pc = "done"
    BY <1>1, <1>4 DEF StepsLeft
  <1> QED
    BY <1>2, <1>3, <1>4 DEF IInv, Inputs

\* A schedule that matches some day has its next execution found in bounded time.
THEOREM SearchEndsHolds == Spec => SearchEnds
  <1> DEFINE Closer == PossibleDates(schedule) # {} =>
               StepsLeft \in 0..(Period + 1) /\ StepsLeft' \in Nat /\ StepsLeft' < StepsLeft
  <1>1. IInv /\ IInv' /\ [Next]_vars => [Closer]_vars
    <2> SUFFICES ASSUME IInv, IInv', Next, PossibleDates(schedule) # {}
                 PROVE  /\ StepsLeft \in 0..(Period + 1)
                        /\ StepsLeft' \in Nat /\ StepsLeft' < StepsLeft
      OBVIOUS
    <2>1. StepsLeft \in 0..(Period + 1) /\ (pc = "days" => StepsLeft > 0)
      BY StepsLeftBound
    <2>2. Period \in Nat \ {0}
      BY CalendarSizes
    <2>3. CASE NextOnce \/ Return
      <3>1. pc' = "done" /\ pc \in {"start", "days"}
        BY <2>3 DEF NextOnce, Return
      <3>2. StepsLeft' = 0
        BY <3>1 DEF StepsLeft
      <3>3. StepsLeft > 0
        BY <2>1, <2>2, <3>1 DEF StepsLeft
      <3> QED
        BY <2>1, <3>2, <3>3
    <2>4. CASE NextMinute
      <3>1. /\ pc = "start" /\ pc' = "days" /\ ~IsOnce(schedule) /\ next' = Candidate
            /\ UNCHANGED <<schedule, last, now>>
        BY <2>4 DEF NextMinute, Candidate
      <3>2. Candidate' = Candidate
        BY <3>1 DEF Candidate, Last
      <3>3. Candidate.day \in Nat
        BY <3>1, CandidateFacts DEF IInv, Time
      <3>4. StepsLeft = Period + 1 /\ StepsLeft' = Candidate.day + Period - Candidate.day
        BY <3>1, <3>2 DEF StepsLeft
      <3> QED
        BY <2>1, <2>2, <3>3, <3>4
    <2>5. CASE IncrementDay
      <3>1. /\ pc = "days" /\ pc' = "days"
            /\ next' = [next EXCEPT !.day =
                 IF @ > GmTime(Last).day + 2 * Period THEN @ + 1 - Period ELSE @ + 1]
            /\ UNCHANGED <<schedule, last, now>>
        BY <2>5 DEF IncrementDay
      <3>2. /\ ~IsOnce(schedule) /\ Candidate.day \in Nat /\ next.day \in Nat
            /\ Candidate.day <= next.day /\ next.day < Candidate.day + Period
            /\ Candidate.day <= GmTime(Last).day + 1 /\ GmTime(Last).day \in Nat
        BY <3>1, WithinPeriod
      <3>3. ~(next.day > GmTime(Last).day + 2 * Period)
        BY <2>2, <3>2
      <3>4. next \in Time
        BY <3>1, <3>2 DEF IInv, Searching
      <3>5. next'.day = next.day + 1
        BY <3>1, <3>3, <3>4 DEF Time
      <3>6. Candidate' = Candidate
        BY <3>1 DEF Candidate, Last
      <3>7. /\ StepsLeft = Candidate.day + Period - next.day
            /\ StepsLeft' = Candidate.day + Period - (next.day + 1)
        BY <3>1, <3>5, <3>6 DEF StepsLeft
      <3> QED
        BY <2>1, <2>2, <3>1, <3>2, <3>7
    <2> QED
      BY <2>3, <2>4, <2>5 DEF Next
  <1> QED
    BY <1>1, Invariance, PTL DEF Spec, SearchEnds
=============================================================================
