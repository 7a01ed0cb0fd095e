---------------------------- MODULE MCCronSchedule ----------------------------
(***************************************************************************)
(* CronSchedule for TLC: hours of three minutes, days of two hours, weeks  *)
(* of two days, and a year with a month of one day and one of two days.    *)
(* The second day of the first month, like February 30, does not exist.    *)
(***************************************************************************)
EXTENDS CronSchedule

Star == [star |-> TRUE, first |-> 0, last |-> 0, step |-> 0]
Every(step) == [Star EXCEPT !.step = step]
FromTo(a, b) == [star |-> FALSE, first |-> a, last |-> b, step |-> 0]
Number(a) == FromTo(a, a)

\* The first days of the two months, and the length of the year.
MCMonthStart == <<0, 1, 3>>
MCMinutes == {{Star}, {Number(1)}, {Number(0), Number(2)}, {FromTo(1, 2)}}
MCHours == {{Star}, {Number(0)}, {Number(1)}}
MCDaysOfMonth == {{Star}, {Number(2)}, {Every(2)}}
MCMonths == {{Star}, {Number(1)}, {Number(2)}}
\* Day 2 is another name of day 0.
MCDaysOfWeek == {{Star}, {Number(1)}, {FromTo(1, 2)}, {Number(2)}}

=============================================================================
