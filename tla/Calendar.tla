------------------------------ MODULE Calendar ------------------------------
(***************************************************************************)
(* Dates as the data providers of etc/ use them.  The providers take them  *)
(* from Python's datetime, from isodate and from cftime, in the proleptic  *)
(* Gregorian calendar; none of these is part of the repository, so this    *)
(* module models them from their use.  A date is a record of its year, its *)
(* month and the minutes passed since the month began.                     *)
(***************************************************************************)
EXTENDS Integers

Leap(year) == /\ year % 4 = 0
              /\ year % 100 # 0 \/ year % 400 = 0

Days(year, month) ==
  CASE month = 2 -> IF Leap(year) THEN 29 ELSE 28
    [] month \in {4, 6, 9, 11} -> 30
    [] OTHER -> 31

Hour == 60
Day == 24 * Hour
Length(year, month) == Day * Days(year, month)

Date(year, month, day, minute) ==
  [year |-> year, month |-> month, minute |-> Day * (day - 1) + minute]

IsDate(d) == /\ d \in [year : Int, month : 1 .. 12, minute : Nat]
             /\ d.minute < Length(d.year, d.month)

\* The year and the month of the month before, and of the month after.
MonthBefore(ym) == IF ym[2] = 1 THEN <<ym[1] - 1, 12>> ELSE <<ym[1], ym[2] - 1>>
MonthAfter(ym) == IF ym[2] = 12 THEN <<ym[1] + 1, 1>> ELSE <<ym[1], ym[2] + 1>>
MonthOf(d) == <<d.year, d.month>>

\* The date n minutes after d, where n is at most the length of a month.
Later(d, n) ==
  LET len == Length(d.year, d.month)
      next == MonthAfter(MonthOf(d))
  IN IF d.minute + n < len
     THEN [d EXCEPT !.minute = @ + n]
     ELSE [year |-> next[1], month |-> next[2], minute |-> d.minute + n - len]

\* The middle of a month: monthly mean data are taken to be valid there.
Middle(ym) ==
  [year |-> ym[1], month |-> ym[2], minute |-> Length(ym[1], ym[2]) \div 2]

\* The days before each month of a year without leap day.
DaysBefore == <<0, 31, 59, 90, 120, 151, 181, 212, 243, 273, 304, 334>>

\* The minutes from the first of January of the year 1801 to d.
FromEpoch(d) ==
  LET y == d.year - 1801
      leapDays == (y \div 4) - (y \div 100) + ((y + 200) \div 400)
      inLeap == IF Leap(d.year) /\ d.month > 2 THEN 1 ELSE 0
  IN Day * (365 * y + leapDays + DaysBefore[d.month] + inLeap) + d.minute

NotAfter(d, e) ==
  \/ d.year < e.year
  \/ d.year = e.year /\ d.month < e.month
  \/ d.year = e.year /\ d.month = e.month /\ d.minute <= e.minute

Before(d, e) == NotAfter(d, e) /\ d # e

\* The whole hours from the beginning of the year to d.
HourOfYear(d) ==
  (FromEpoch(d) - FromEpoch(Date(d.year, 1, 1, 0))) \div Hour

SameDay(d, e) == MonthOf(d) = MonthOf(e) /\ d.minute \div Day = e.minute \div Day
=============================================================================
