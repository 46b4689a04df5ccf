-------------------------- MODULE ProvidersProofs --------------------------
(***************************************************************************)
(* What the model receives from the data providers, for every setup, every *)
(* number of variables, of ranks and of data under way: the ocean its      *)
(* forcing of the hour, the atmosphere the interpolation for its date.     *)
(*                                                                         *)
(* Neither side tells the other a date.  Put and get are matched by their  *)
(* numbers alone; the invariant says at which minute the n-th exchange is, *)
(* that both sides are there at that minute when they count n, and that    *)
(* every datum under way is right for the date of its number.              *)
(***************************************************************************)
EXTENDS Providers, FiniteSetTheorems, SequenceTheorems, TLAPS

(* -------------------------------- calendar ----------------------------- *)

Months == 1 .. 12

(* The minutes from the first of January of 1801 to the start of a month.  *)
Start(y, m) == FromEpoch([year |-> y, month |-> m, minute |-> 0])

LEMMA DateIs ==
    ASSUME NEW d, IsDate(d)
    PROVE  /\ d.year \in Int /\ d.month \in Months /\ d.minute \in Nat
           /\ d.minute < Length(d.year, d.month)
           /\ d = [year |-> d.year, month |-> d.month, minute |-> d.minute]
  BY DEF IsDate, Months

LEMMA DaysAre ==
    ASSUME NEW y \in Int, NEW m \in Months
    PROVE  /\ Days(y, m) \in Nat /\ Days(y, m) \in 28 .. 31
           /\ m \in {1, 12} => Days(y, m) = 31
  BY DEF Days, Leap, Months

LEMMA LengthIs ==
    ASSUME NEW y \in Int, NEW m \in Months
    PROVE  /\ Length(y, m) \in Nat /\ 28 * 1440 <= Length(y, m) /\ Length(y, m) <= 31 * 1440
           /\ Length(y, m) % 1440 = 0
           /\ Length(y, m) = 1440 * Days(y, m)
           /\ Length(y, m) \div 2 = 720 * Days(y, m)
           /\ m \in {1, 12} => Length(y, m) = 31 * 1440
  <1>1. Length(y, m) = 1440 * Days(y, m) /\ Days(y, m) \in 28 .. 31
    BY DaysAre DEF Length, Day, Hour
  <1> QED
    BY <1>1, DaysAre

LEMMA StartOfMonth ==
    ASSUME NEW d, IsDate(d)
    PROVE  /\ FromEpoch(d) = Start(d.year, d.month) + d.minute
           /\ Start(d.year, d.month) \in Int /\ FromEpoch(d) \in Int
  <1>1. \A m \in Months : DaysBefore[m] \in Nat
    BY DEF DaysBefore, Months
  <1>2. DaysBefore[d.month] \in Int /\ d.minute \in Nat /\ d.year \in Int
    BY <1>1, DateIs
  <1>3. (IF Leap(d.year) /\ d.month > 2 THEN 1 ELSE 0) \in Int
    OBVIOUS
  <1> DEFINE days == 365 * (d.year - 1801)
                     + (((d.year - 1801) \div 4) - ((d.year - 1801) \div 100)
                        + (((d.year - 1801) + 200) \div 400))
                     + DaysBefore[d.month]
                     + (IF Leap(d.year) /\ d.month > 2 THEN 1 ELSE 0)
  <1>4. days \in Int
    BY <1>2, <1>3
  <1>5. FromEpoch(d) = 1440 * days + d.minute
    BY DEF FromEpoch, Day, Hour
  <1>6. Start(d.year, d.month) = 1440 * days + 0
    BY DEF Start, FromEpoch, Day, Hour
  <1> HIDE DEF days
  <1> QED
    BY <1>2, <1>4, <1>5, <1>6

(* What the months of a year have before them, the leap day included.      *)
DaysTo(y, m) == DaysBefore[m] + (IF Leap(y) /\ m > 2 THEN 1 ELSE 0)

(* The days of the years since 1801.                                       *)
DaysToYear(y) ==
  365 * (y - 1801)
    + (((y - 1801) \div 4) - ((y - 1801) \div 100) + (((y - 1801) + 200) \div 400))

LEMMA YearIsInt ==
    ASSUME NEW y \in Int
    PROVE  DaysToYear(y) \in Int
  BY DEF DaysToYear

LEMMA StartIs ==
    ASSUME NEW y \in Int, NEW m \in Months
    PROVE  /\ Start(y, m) = 1440 * (DaysToYear(y) + DaysTo(y, m))
           /\ DaysTo(y, m) \in Nat /\ DaysToYear(y) \in Int
  <1>1. DaysBefore[m] \in Nat
    BY DEF DaysBefore, Months
  <1>2. (IF Leap(y) /\ m > 2 THEN 1 ELSE 0) \in Nat
    OBVIOUS
  <1>3. DaysTo(y, m) \in Nat /\ DaysToYear(y) \in Int
    BY <1>1, <1>2 DEF DaysTo, DaysToYear
  <1>4. Start(y, m) = 1440 * (365 * (y - 1801)
                       + (((y - 1801) \div 4) - ((y - 1801) \div 100)
                          + (((y - 1801) + 200) \div 400))
                       + DaysBefore[m] + (IF Leap(y) /\ m > 2 THEN 1 ELSE 0)) + 0
    BY DEF Start, FromEpoch, Day, Hour
  <1>5. (365 * (y - 1801)
           + (((y - 1801) \div 4) - ((y - 1801) \div 100) + (((y - 1801) + 200) \div 400))
           + DaysBefore[m] + (IF Leap(y) /\ m > 2 THEN 1 ELSE 0))
          = DaysToYear(y) + DaysTo(y, m)
    BY <1>1, <1>2 DEF DaysTo, DaysToYear
  <1> QED
    BY <1>3, <1>4, <1>5

LEMMA DaysOfYear ==
    ASSUME NEW y \in Int
    PROVE  DaysToYear(y + 1) = DaysToYear(y) + 365 + (IF Leap(y) THEN 1 ELSE 0)
  <1> DEFINE z == y - 1801
  <1>1. ((z + 1) \div 4) = (z \div 4) + (IF y % 4 = 0 THEN 1 ELSE 0)
    OBVIOUS
  <1>2. ((z + 1) \div 100) = (z \div 100) + (IF y % 100 = 0 THEN 1 ELSE 0)
    OBVIOUS
  <1>3. ((z + 201) \div 400) = ((z + 200) \div 400) + (IF y % 400 = 0 THEN 1 ELSE 0)
    OBVIOUS
  <1>4. Leap(y) <=> y % 4 = 0 /\ (y % 100 # 0 \/ y % 400 = 0)
    BY DEF Leap
  <1>5. (y % 400 = 0 => y % 100 = 0) /\ (y % 100 = 0 => y % 4 = 0)
    OBVIOUS
  <1>6. DaysToYear(y) = 365 * z + ((z \div 4) - (z \div 100) + ((z + 200) \div 400))
    BY DEF DaysToYear
  <1>7. (y + 1) - 1801 = z + 1 /\ (z + 1) + 200 = z + 201
    OBVIOUS
  <1>8. DaysToYear(y + 1)
          = 365 * (z + 1) + (((z + 1) \div 4) - ((z + 1) \div 100) + ((z + 201) \div 400))
    BY <1>7 DEF DaysToYear
  <1>9. z \in Int
    OBVIOUS
  <1> HIDE DEF z
  <1>10. /\ (z \div 4) \in Int /\ (z \div 100) \in Int /\ ((z + 200) \div 400) \in Int
    BY <1>9
  <1> QED
    BY <1>1, <1>2, <1>3, <1>4, <1>5, <1>6, <1>8, <1>9, <1>10

LEMMA MonthsFollow ==
    ASSUME NEW y \in Int, NEW m \in 1 .. 11
    PROVE  DaysTo(y, m + 1) = DaysTo(y, m) + Days(y, m)
  <1>1. \/ m = 1 \/ m = 2 \/ m = 3 \/ m = 4 \/ m = 5 \/ m = 6 \/ m = 7 \/ m = 8 \/ m = 9
        \/ m = 10 \/ m = 11
    OBVIOUS
  <1>2. /\ DaysBefore[1] = 0 /\ DaysBefore[2] = 31 /\ DaysBefore[3] = 59
        /\ DaysBefore[4] = 90 /\ DaysBefore[5] = 120 /\ DaysBefore[6] = 151
        /\ DaysBefore[7] = 181 /\ DaysBefore[8] = 212 /\ DaysBefore[9] = 243
        /\ DaysBefore[10] = 273 /\ DaysBefore[11] = 304 /\ DaysBefore[12] = 334
    BY DEF DaysBefore
  <1> QED
    BY <1>1, <1>2 DEF DaysTo, Days

LEMMA FirstAndLastMonth ==
    ASSUME NEW y \in Int
    PROVE  /\ DaysTo(y, 1) = 0
           /\ DaysTo(y, 12) + Days(y, 12) = 365 + (IF Leap(y) THEN 1 ELSE 0)
  <1>1. DaysBefore[1] = 0 /\ DaysBefore[12] = 334
    BY DEF DaysBefore
  <1> QED
    BY <1>1 DEF DaysTo, Days

LEMMA NextStart ==
    ASSUME NEW y \in Int, NEW m \in Months, NEW n, n = MonthAfter(<<y, m>>)
    PROVE  /\ n[1] \in Int /\ n[2] \in Months /\ n = <<n[1], n[2]>>
           /\ Start(n[1], n[2]) = Start(y, m) + Length(y, m)
  <1>1. Length(y, m) = 1440 * Days(y, m) /\ Days(y, m) \in Int
    BY LengthIs, DaysAre
  <1>2. CASE m = 12
    <2>1. n = <<y + 1, 1>> /\ y + 1 \in Int /\ 1 \in Months /\ 12 \in Months
      BY <1>2 DEF MonthAfter, Months
    <2>2. Start(y, m) = 1440 * (DaysToYear(y) + DaysTo(y, m)) /\ DaysTo(y, m) \in Int
          /\ DaysToYear(y) \in Int
      BY StartIs
    <2>3. Start(y + 1, 1) = 1440 * (DaysToYear(y + 1) + DaysTo(y + 1, 1))
      BY <2>1, StartIs
    <2>4. DaysTo(y + 1, 1) = 0 /\ DaysTo(y, 12) + Days(y, 12) = 365 + (IF Leap(y) THEN 1 ELSE 0)
      BY FirstAndLastMonth
    <2>5. DaysToYear(y + 1) = DaysToYear(y) + 365 + (IF Leap(y) THEN 1 ELSE 0)
      BY DaysOfYear
    <2>6. Start(y + 1, 1) = Start(y, m) + Length(y, m)
      BY <1>1, <1>2, <2>2, <2>3, <2>4, <2>5
    <2> QED
      BY <2>1, <2>6
  <1>3. CASE m # 12
    <2>1. n = <<y, m + 1>> /\ m \in 1 .. 11 /\ m + 1 \in Months
      BY <1>3 DEF MonthAfter, Months
    <2>2. Start(y, m) = 1440 * (DaysToYear(y) + DaysTo(y, m)) /\ DaysTo(y, m) \in Int
          /\ DaysToYear(y) \in Int
      BY StartIs
    <2>3. Start(y, m + 1) = 1440 * (DaysToYear(y) + DaysTo(y, m + 1))
      BY <2>1, StartIs
    <2>4. DaysTo(y, m + 1) = DaysTo(y, m) + Days(y, m)
      BY <2>1, MonthsFollow
    <2> QED
      BY <1>1, <2>1, <2>2, <2>3, <2>4
  <1> QED
    BY <1>2, <1>3

LEMMA PreviousStart ==
    ASSUME NEW y \in Int, NEW m \in Months, NEW n, n = MonthBefore(<<y, m>>)
    PROVE  /\ n[1] \in Int /\ n[2] \in Months /\ n = <<n[1], n[2]>>
           /\ MonthAfter(n) = <<y, m>>
           /\ Start(y, m) = Start(n[1], n[2]) + Length(n[1], n[2])
  <1>1. n[1] \in Int /\ n[2] \in Months /\ n = <<n[1], n[2]>>
    BY DEF MonthBefore, Months
  <1>2. MonthAfter(n) = <<y, m>>
    BY DEF MonthBefore, MonthAfter, Months
  <1>3. <<y, m>> = MonthAfter(<<n[1], n[2]>>) /\ <<y, m>>[1] = y /\ <<y, m>>[2] = m
    BY <1>1, <1>2
  <1> QED
    BY <1>1, <1>2, <1>3, NextStart

(* Years, and months within a year, follow each other.                     *)
LEMMA YearsGrow ==
    ASSUME NEW y \in Int, NEW z \in Int, y < z
    PROVE  DaysToYear(y) + 365 <= DaysToYear(z)
  <1>1. DaysToYear(y) + 365 <= DaysToYear(y + 1) /\ DaysToYear(y + 1) \in Int
    <2>2. DaysToYear(y) \in Int /\ DaysToYear(y + 1) \in Int
      BY YearIsInt
    <2>3. DaysToYear(y + 1) = DaysToYear(y) + 365 + (IF Leap(y) THEN 1 ELSE 0)
      BY DaysOfYear
    <2> QED
      BY <2>2, <2>3
  <1> DEFINE a == y - 1801
             b == z - 1801
  <1>2. /\ DaysToYear(y) = 365 * a + ((a \div 4) - (a \div 100) + ((a + 200) \div 400))
        /\ DaysToYear(z) = 365 * b + ((b \div 4) - (b \div 100) + ((b + 200) \div 400))
    BY DEF DaysToYear
  <1>3. a \in Int /\ b \in Int /\ a < b /\ z = y + 1 <=> b = a + 1
    OBVIOUS
  <1>4. CASE z = y + 1
    BY <1>1, <1>4
  <1>5. CASE z # y + 1
    <2>1. a \in Int /\ b \in Int /\ a + 2 <= b
      BY <1>5
    <2> HIDE DEF a, b
    <2>2. /\ (a \div 4) \in Int /\ (a \div 100) \in Int /\ ((a + 200) \div 400) \in Int
          /\ (b \div 4) \in Int /\ (b \div 100) \in Int /\ ((b + 200) \div 400) \in Int
      BY <2>1
    <2>3. (a \div 4) <= (b \div 4) /\ ((a + 200) \div 400) <= ((b + 200) \div 400)
      BY <2>1
    <2>4. (b \div 100) <= (a \div 100) + (b - a)
      BY <2>1
    <2> QED
      BY <1>2, <2>1, <2>2, <2>3, <2>4
  <1> QED
    BY <1>4, <1>5

LEMMA MonthsGrow ==
    ASSUME NEW y \in Int, NEW m \in Months, NEW k \in Months, m < k
    PROVE  DaysTo(y, m) + Days(y, m) <= DaysTo(y, k)
  <1>1. /\ DaysBefore[1] = 0 /\ DaysBefore[2] = 31 /\ DaysBefore[3] = 59
        /\ DaysBefore[4] = 90 /\ DaysBefore[5] = 120 /\ DaysBefore[6] = 151
        /\ DaysBefore[7] = 181 /\ DaysBefore[8] = 212 /\ DaysBefore[9] = 243
        /\ DaysBefore[10] = 273 /\ DaysBefore[11] = 304 /\ DaysBefore[12] = 334
    BY DEF DaysBefore
  <1>2. DaysTo(y, m + 1) = DaysTo(y, m) + Days(y, m) /\ m + 1 \in Months /\ m + 1 <= k
    <2>1. m \in 1 .. 11 /\ m + 1 \in Months /\ m + 1 <= k
      BY DEF Months
    <2> QED
      BY <2>1, MonthsFollow
  <1>3. \A i, j \in Months : i <= j => DaysBefore[i] <= DaysBefore[j] /\ DaysBefore[j] \in Nat
    BY <1>1 DEF Months
  <1>4. DaysTo(y, m + 1) <= DaysTo(y, k)
    <2>1. DaysBefore[m + 1] <= DaysBefore[k] /\ DaysBefore[m + 1] \in Nat /\ DaysBefore[k] \in Nat
      BY <1>2, <1>3 DEF Months
    <2> QED
      BY <1>2, <2>1 DEF DaysTo, Months
  <1> QED
    BY <1>2, <1>4

(* A month is over before the next begins.                                 *)
LEMMA MonthsApart ==
    ASSUME NEW y \in Int, NEW m \in Months, NEW z \in Int, NEW k \in Months,
           y < z \/ (y = z /\ m < k)
    PROVE  Start(y, m) + Length(y, m) <= Start(z, k)
  <1>1. /\ Start(y, m) = 1440 * (DaysToYear(y) + DaysTo(y, m))
        /\ Start(z, k) = 1440 * (DaysToYear(z) + DaysTo(z, k))
        /\ DaysTo(y, m) \in Nat /\ DaysTo(z, k) \in Nat
        /\ DaysToYear(y) \in Int /\ DaysToYear(z) \in Int
    BY StartIs
  <1>2. Length(y, m) = 1440 * Days(y, m) /\ Days(y, m) \in Int
    BY LengthIs, DaysAre
  <1>3. CASE y = z /\ m < k
    BY <1>1, <1>2, <1>3, MonthsGrow
  <1>4. CASE y < z
    <2>1. DaysToYear(y + 1) <= DaysToYear(z)
      <3>1. CASE z = y + 1
        BY <3>1, <1>1
      <3>2. CASE z # y + 1
        <4>1. DaysToYear(y + 1) + 365 <= DaysToYear(z)
          BY <3>2, <1>4, YearsGrow
        <4>2. DaysToYear(y + 1) \in Int
          BY YearIsInt
        <4> QED
          BY <1>1, <4>1, <4>2
      <3> QED
        BY <3>1, <3>2
    <2>2. DaysToYear(y + 1) = DaysToYear(y) + 365 + (IF Leap(y) THEN 1 ELSE 0)
      BY DaysOfYear
    <2>3. DaysTo(y, 12) + Days(y, 12) = 365 + (IF Leap(y) THEN 1 ELSE 0)
          /\ DaysTo(y, 12) \in Nat /\ Days(y, 12) \in Nat /\ 12 \in Months
      <3>1. 12 \in Months
        BY DEF Months
      <3> QED
        BY <3>1, FirstAndLastMonth, StartIs, DaysAre
    <2>4. DaysTo(y, m) + Days(y, m) <= DaysTo(y, 12) + Days(y, 12)
      <3>1. CASE m = 12
        BY <3>1, <2>3
      <3>2. CASE m # 12
        <4>1. m < 12
          BY <3>2 DEF Months
        <4>2. DaysTo(y, m) + Days(y, m) <= DaysTo(y, 12)
          BY <4>1, <2>3, MonthsGrow
        <4> QED
          BY <4>2, <2>3, <1>1, <1>2
      <3> QED
        BY <3>1, <3>2
    <2> QED
      BY <1>1, <1>2, <2>1, <2>2, <2>3, <2>4
  <1> QED
    BY <1>3, <1>4

(* Dates are ordered as the minutes from 1801 to them, and given by them.  *)
LEMMA EarlierMonth ==
    ASSUME NEW d, IsDate(d), NEW e, IsDate(e),
           d.year < e.year \/ (d.year = e.year /\ d.month < e.month)
    PROVE  FromEpoch(d) < FromEpoch(e)
  <1>1. /\ d.year \in Int /\ d.month \in Months /\ d.minute \in Nat
        /\ d.minute < Length(d.year, d.month)
    BY DateIs
  <1>2. e.year \in Int /\ e.month \in Months /\ e.minute \in Nat
    BY DateIs
  <1>3. Start(d.year, d.month) + Length(d.year, d.month) <= Start(e.year, e.month)
    BY <1>1, <1>2, MonthsApart
  <1>4. /\ FromEpoch(d) = Start(d.year, d.month) + d.minute /\ Start(d.year, d.month) \in Int
    BY StartOfMonth
  <1>5. /\ FromEpoch(e) = Start(e.year, e.month) + e.minute /\ Start(e.year, e.month) \in Int
    BY StartOfMonth
  <1>6. Length(d.year, d.month) \in Nat
    BY <1>1, LengthIs
  <1> QED
    BY <1>1, <1>2, <1>3, <1>4, <1>5, <1>6

LEMMA OrderOfDates ==
    ASSUME NEW d, IsDate(d), NEW e, IsDate(e)
    PROVE  /\ NotAfter(d, e) <=> FromEpoch(d) <= FromEpoch(e)
           /\ FromEpoch(d) = FromEpoch(e) => d = e
           /\ FromEpoch(d) \in Int /\ FromEpoch(e) \in Int
  <1>1. /\ d.year \in Int /\ d.month \in Months /\ d.minute \in Nat
        /\ d = [year |-> d.year, month |-> d.month, minute |-> d.minute]
    BY DateIs
  <1>2. /\ e.year \in Int /\ e.month \in Months /\ e.minute \in Nat
        /\ e = [year |-> e.year, month |-> e.month, minute |-> e.minute]
    BY DateIs
  <1>3. FromEpoch(d) \in Int /\ FromEpoch(e) \in Int
    BY StartOfMonth
  <1>4. CASE d.year < e.year \/ (d.year = e.year /\ d.month < e.month)
    <2>1. FromEpoch(d) < FromEpoch(e)
      BY <1>4, EarlierMonth
    <2> QED
      BY <1>1, <1>2, <1>3, <1>4, <2>1 DEF NotAfter
  <1>5. CASE e.year < d.year \/ (e.year = d.year /\ e.month < d.month)
    <2>1. FromEpoch(e) < FromEpoch(d)
      BY <1>5, EarlierMonth
    <2>2. ~NotAfter(d, e)
      BY <1>1, <1>2, <1>5 DEF NotAfter, Months
    <2> QED
      BY <1>3, <2>1, <2>2
  <1>6. CASE d.year = e.year /\ d.month = e.month
    <2>1. /\ FromEpoch(d) = Start(d.year, d.month) + d.minute
          /\ FromEpoch(e) = Start(d.year, d.month) + e.minute
          /\ Start(d.year, d.month) \in Int
      BY <1>6, StartOfMonth
    <2>2. NotAfter(d, e) <=> d.minute <= e.minute
      BY <1>1, <1>2, <1>6 DEF NotAfter, Months
    <2>3. d.minute = e.minute => d = e
      BY <1>1, <1>2, <1>6
    <2> QED
      BY <1>1, <1>2, <1>3, <2>1, <2>2, <2>3
  <1> QED
    BY <1>1, <1>2, <1>4, <1>5, <1>6 DEF Months

LEMMA LaterDate ==
    ASSUME NEW d, IsDate(d), NEW n \in Nat, n <= 1440
    PROVE  /\ IsDate(Later(d, n)) /\ FromEpoch(Later(d, n)) = FromEpoch(d) + n
           /\ \/ Later(d, n) = [year |-> d.year, month |-> d.month, minute |-> d.minute + n]
              \/ /\ MonthOf(Later(d, n)) = MonthAfter(MonthOf(d))
                 /\ Later(d, n).minute < n
                 /\ d.minute + n >= Length(d.year, d.month)
  <1> DEFINE len == Length(d.year, d.month)
             next == MonthAfter(<<d.year, d.month>>)
  <1>1. /\ d.year \in Int /\ d.month \in Months /\ d.minute \in Nat /\ d.minute < len
        /\ d = [year |-> d.year, month |-> d.month, minute |-> d.minute]
    BY DateIs
  <1>2. len \in Nat /\ 28 * 1440 <= len
    BY <1>1, LengthIs
  <1>3. /\ next[1] \in Int /\ next[2] \in Months /\ next = <<next[1], next[2]>>
        /\ Start(next[1], next[2]) = Start(d.year, d.month) + len
    BY <1>1, NextStart
  <1>4. /\ FromEpoch(d) = Start(d.year, d.month) + d.minute /\ Start(d.year, d.month) \in Int
    BY StartOfMonth
  <1>5. CASE d.minute + n < len
    <2> DEFINE e == [year |-> d.year, month |-> d.month, minute |-> d.minute + n]
    <2>1. Later(d, n) = e
      BY <1>1, <1>5 DEF Later
    <2>2. e.year = d.year /\ e.month = d.month /\ e.minute = d.minute + n /\ e.minute \in Nat
      BY <1>1
    <2>3. IsDate(e)
      BY <1>1, <1>5, <2>2 DEF IsDate, Months
    <2> HIDE DEF e
    <2>4. FromEpoch(e) = Start(e.year, e.month) + e.minute
      BY <2>3, StartOfMonth
    <2>5. FromEpoch(e) = FromEpoch(d) + n
      BY <1>1, <1>4, <2>2, <2>4
    <2> QED
      BY <2>1, <2>3, <2>5 DEF e
  <1>6. CASE ~(d.minute + n < len)
    <2> DEFINE e == [year |-> next[1], month |-> next[2], minute |-> d.minute + n - len]
    <2>1. Later(d, n) = e
      BY <1>6 DEF Later, MonthOf
    <2>2. /\ e.year = next[1] /\ e.month = next[2] /\ e.minute = d.minute + n - len
          /\ e \in [year : Int, month : Months, minute : Nat]
      BY <1>1, <1>2, <1>3, <1>6
    <2>3. /\ Length(e.year, e.month) \in Nat /\ 28 * 1440 <= Length(e.year, e.month)
      BY <1>3, <2>2, LengthIs
    <2>4. IsDate(e) /\ e.minute < n
      BY <1>1, <1>2, <1>6, <2>2, <2>3 DEF IsDate, Months
    <2>5. MonthOf(e) = MonthAfter(MonthOf(d))
      BY <1>3, <2>2 DEF MonthOf
    <2> HIDE DEF e
    <2>6. FromEpoch(e) = Start(e.year, e.month) + e.minute
      BY <2>4, StartOfMonth
    <2>7. FromEpoch(e) = FromEpoch(d) + n
      BY <1>1, <1>2, <1>3, <1>4, <2>2, <2>6
    <2>8. d.minute + n >= len
      BY <1>1, <1>2, <1>6
    <2> QED
      BY <2>1, <2>4, <2>5, <2>7, <2>8
  <1> QED
    BY <1>5, <1>6

(* ------------------------------- invariant ----------------------------- *)

Interval == IF Atmosphere THEN setup.dt_rad ELSE Hour

(* The minute of the n-th exchange, from 0.  With the NWP physics there    *)
(* are two for the start, the next after one time step and then one a day. *)
Minutes(n) ==
  CASE ~Nwp -> FromEpoch(setup.start) + n * Interval
    [] Nwp /\ n < 2 -> FromEpoch(setup.start)
    [] OTHER -> FromEpoch(setup.start) + setup.dtime + (n - 2) * Day

(* What RightData and RightForcing ask of a datum of field f for a date.   *)
Good(f, date, x) ==
  IF Atmosphere
  THEN (f = FineField => FirstYear(date)) /\ (f = OzoneField => PerpetualYearRead)
         => SameData(x, Expected(f, date))
  ELSE IF f = ForcingField(Runoff) THEN OnLeapDay(date) \/ x.day = CommonDay(date)
       ELSE x = [year |-> date.year, hour |-> HourOfYear(date)]

RightAt(f, n, x) == \A date : IsDate(date) /\ FromEpoch(date) = Minutes(n) => Good(f, date, x)

Owner(f) ==
  IF Atmosphere THEN IF f = OzoneField THEN Ozone ELSE Aero
  ELSE Rank(IF f[2] = Runoff THEN 0 ELSE f[2] % Ranks)

Mean == Int \X Months
Data == [a : Mean, b : Mean, num : Int, den : Int] \cup [day : Int] \cup [year : Int, hour : Int]
Item == [field : Fields, data : Data]

TypeInv ==
  /\ setup \in Setups
  /\ status \in [Providers -> {"running", "ended", "failed"}]
  /\ case \in [Providers -> 1 .. 3]
  /\ queue \in [Providers -> Seq(Item)]
  /\ slot \in [Fields -> Seq(Data)]
  /\ todo \in Seq(Fields)
  /\ now = [call |-> now.call, date |-> now.date] /\ now.call \in Nat /\ IsDate(now.date)
  /\ DOMAIN at = Providers /\ DOMAIN got = Fields

(* Provider p stands at exchange n.  A rank of the ocean's provider is at  *)
(* an hour of a year, until it is past the last.                           *)
HoursIn(year) == 24 * (365 + (IF Leap(year) THEN 1 ELSE 0))

AtHour(a, minute) ==
  /\ a \in [year : Int, hour : Nat] /\ setup.start.year <= a.year
  /\ a.hour < HoursIn(a.year) /\ Start(a.year, 1) + Hour * a.hour = minute

Placed(p, n) ==
  IF Atmosphere THEN IsDate(at[p]) /\ FromEpoch(at[p]) = Minutes(n)
  ELSE /\ at[p] \in [year : Int, hour : Nat]
       /\ ~ForcingOver(at[p], setup.end) => AtHour(at[p], Minutes(n))

Counted(p, n) == Nwp => case[p] = IF n < 2 THEN n + 1 ELSE 3

(* The model is at its exchange g, or, where the NWP physics gets nothing, *)
(* k radiation steps after it.                                             *)
ModelAt(g) ==
  IF ~Nwp THEN FromEpoch(now.date) = Minutes(g)
  ELSE \/ now.call < 2 /\ g = now.call /\ now.date = setup.start
       \/ /\ now.call >= 2 /\ g >= 2
          /\ \E k \in Nat : /\ FromEpoch(now.date) = Minutes(g) + k * setup.dt_rad
                            /\ (k + 1) * setup.dt_rad <= Day
                            /\ todo # <<>> => k = 0

In(s, x) == \E i \in 1 .. Len(s) : s[i] = x
Distinct(s) == \A i, j \in 1 .. Len(s) : s[i] = s[j] => i = j

Queued(f) == \E i \in 1 .. Len(queue[Owner(f)]) : queue[Owner(f)][i].field = f

(* The number of the exchange that the model wants field f for next.       *)
Due(f, g) == IF In(todo, f) THEN g ELSE g + 1

QueueInv(p, n) ==
  /\ \A i \in 1 .. Len(queue[p]) :
       /\ Owner(queue[p][i].field) = p
       /\ RightAt(queue[p][i].field, n, queue[p][i].data)
  /\ \A i, j \in 1 .. Len(queue[p]) : queue[p][i].field = queue[p][j].field => i = j
  /\ queue[p] # <<>> => Atmosphere \/ ~ForcingOver(at[p], setup.end)

SlotInv(put, g, f) ==
  /\ Due(f, g) + Len(slot[f])
       = put[Owner(f)] + (IF queue[Owner(f)] # <<>> /\ ~Queued(f) THEN 1 ELSE 0)
  /\ \A i \in 1 .. Len(slot[f]) : RightAt(f, Due(f, g) + (i - 1), slot[f][i])

Flow(put, g) ==
  /\ \A p \in Providers : Placed(p, put[p]) /\ Counted(p, put[p]) /\ QueueInv(p, put[p])
  /\ \A f \in Fields : SlotInv(put, g, f)
  /\ ModelAt(g) /\ Distinct(todo)

(* What the aerosol provider holds after it has sent its data for date d.  *)
Historical == AeroScenario(setup.nml) = "historical"

AeroCache ==
  [this_file : Int, other_file : Int, switch_year : BOOLEAN,
   watch_this : Int, watch_other : Int, this : Int \X Int, other : Int \X Int]

AeroFor(c, d) ==
  LET first == FirstFile(setup.nml, setup.start)
      other == OtherMonth(d)
  IN /\ c \in AeroCache /\ c.this_file = first
     /\ c.watch_this = d.month /\ c.this[2] = d.month
     /\ c.watch_other = other[2] /\ c.other[2] = other[2]
     /\ ~Historical => c.this[1] = first /\ c.other[1] = first /\ c.other_file = first
     /\ Historical /\ d.year = setup.start.year =>
          /\ c.this = MonthOf(d) /\ c.other = other
          /\ c.switch_year = (other[1] # d.year) /\ c.other_file = other[1]

CacheInv ==
  Atmosphere =>
    \/ cache = AeroStart(setup.nml, setup.start) /\ queue[Aero] = <<>>
    \/ \E d : /\ IsDate(d) /\ setup.start.year <= d.year /\ AeroFor(cache, d)
              /\ \E n \in 0 .. Day : /\ at[Aero] = Later(d, n)
                                     /\ queue[Aero] # <<>> => n = 0

Received == \A f \in Fields : got[f] # <<>> => Good(f, got[f].date, got[f].data)

(* A provider of ozone that runs has accepted the namelist.                *)
Accepted ==
  Atmosphere /\ status[Ozone] = "running" => OzoneScenario(setup.nml) # "refused"

ProviderInv ==
  InPhase => /\ TypeInv /\ CacheInv /\ Received /\ Accepted
             /\ \E put \in [Providers -> Nat], g \in Nat : Flow(put, g)

(* ---------------------------- what never changes ------------------------ *)

LEMMA SetupKept ==
    ASSUME setup' = setup
    PROVE  /\ Providers' = Providers /\ Fields' = Fields /\ Item' = Item
           /\ (Atmosphere' <=> Atmosphere) /\ (Nwp' <=> Nwp) /\ (InPhase' <=> InPhase)
           /\ (Historical' <=> Historical)
           /\ \A n : Minutes(n)' = Minutes(n)
           /\ \A f : Owner(f)' = Owner(f)
           /\ \A a, m : AtHour(a, m)' <=> AtHour(a, m)
           /\ \A c, d : AeroFor(c, d)' <=> AeroFor(c, d)
           /\ \A f, d, x : Good(f, d, x)' <=> Good(f, d, x)
           /\ \A f, n, x : RightAt(f, n, x)' <=> RightAt(f, n, x)
  <1>1. /\ Providers' = Providers /\ Fields' = Fields /\ Item' = Item
        /\ (Atmosphere' <=> Atmosphere) /\ (Nwp' <=> Nwp) /\ (InPhase' <=> InPhase)
        /\ (Historical' <=> Historical)
    BY DEF Providers, Fields, Item, Atmosphere, Nwp, InPhase, Historical
  <1>2. \A n : Minutes(n)' = Minutes(n)
    BY DEF Minutes, Interval, Atmosphere, Nwp
  <1>3. \A f : Owner(f)' = Owner(f)
    BY DEF Owner, Atmosphere
  <1>4. \A a, m : AtHour(a, m)' <=> AtHour(a, m)
    BY DEF AtHour
  <1>5. \A c, d : AeroFor(c, d)' <=> AeroFor(c, d)
    BY DEF AeroFor, Historical
  <1>6. \A f, d : Expected(f, d)' = Expected(f, d)
    BY DEF Expected, Interpolated, FineName, CoarseName, OzoneName
  <1>7. \A f, d, x : Good(f, d, x)' <=> Good(f, d, x)
    BY <1>6 DEF Good, Atmosphere, FirstYear, PerpetualYearRead
  <1>8. \A f, n, x : RightAt(f, n, x)' <=> RightAt(f, n, x)
    BY <1>2, <1>7 DEF RightAt
  <1> QED
    BY <1>1, <1>2, <1>3, <1>4, <1>5, <1>7, <1>8

(* ------------------------- providers and fields ------------------------- *)

LEMMA FieldsDiffer ==
    /\ CoarseField # FineField /\ CoarseField # OzoneField /\ FineField # OzoneField
    /\ Aero # Ozone
  BY DEF CoarseField, FineField, OzoneField, Aero, Ozone

LEMMA Owners ==
    /\ Atmosphere => /\ Providers = {Aero, Ozone} /\ Fields = {CoarseField, FineField, OzoneField}
                     /\ Owner(CoarseField) = Aero /\ Owner(FineField) = Aero
                     /\ Owner(OzoneField) = Ozone
    /\ ~Atmosphere =>
         /\ \A v \in 0 .. Variables :
              /\ ForcingField(v) \in Fields
              /\ Owner(ForcingField(v)) = Rank(IF v = Runoff THEN 0 ELSE v % Ranks)
         /\ \A f \in Fields : \E v \in 0 .. Variables : f = ForcingField(v)
    /\ \A f \in Fields : Owner(f) \in Providers
  <1>1. CASE Atmosphere
    <2>1. Providers = {Aero, Ozone} /\ Fields = {CoarseField, FineField, OzoneField}
      BY <1>1 DEF Providers, Fields
    <2>2. /\ Owner(CoarseField) = Aero /\ Owner(FineField) = Aero /\ Owner(OzoneField) = Ozone
      BY <1>1, FieldsDiffer DEF Owner
    <2> QED
      BY <1>1, <2>1, <2>2
  <1>2. CASE ~Atmosphere
    <2>1. Providers = {Rank(r) : r \in 0 .. Ranks - 1}
          /\ Fields = {ForcingField(v) : v \in 0 .. Variables}
      BY <1>2 DEF Providers, Fields
    <2>2. ASSUME NEW v \in 0 .. Variables
          PROVE  /\ ForcingField(v) \in Fields
                 /\ Owner(ForcingField(v)) = Rank(IF v = Runoff THEN 0 ELSE v % Ranks)
      BY <1>2, <2>1 DEF Owner, ForcingField
    <2>3. ASSUME NEW v \in 0 .. Variables
          PROVE  (IF v = Runoff THEN 0 ELSE v % Ranks) \in 0 .. Ranks - 1
      BY ProviderAssumption
    <2>4. \A v \in 0 .. Variables : Rank(IF v = Runoff THEN 0 ELSE v % Ranks) \in Providers
      BY <2>1, <2>3
    <2>5. \A f \in Fields : \E v \in 0 .. Variables : f = ForcingField(v)
      BY <2>1
    <2> QED
      BY <1>2, <2>2, <2>4, <2>5
  <1> QED
    BY <1>1, <1>2

(* ------------------------------- sequences ------------------------------ *)

LEMMA TailOf ==
    ASSUME NEW S, NEW s \in Seq(S), s # <<>>
    PROVE  /\ Len(s) \in Nat /\ Len(s) >= 1 /\ Head(s) = s[1] /\ Head(s) \in S
           /\ Tail(s) \in Seq(S) /\ Len(Tail(s)) = Len(s) - 1
           /\ \A i \in 1 .. Len(s) - 1 : Tail(s)[i] = s[i + 1]
           /\ \A i \in 1 .. Len(s) : s[i] \in S
           /\ Tail(s) = <<>> <=> Len(s) = 1
  <1>1. Len(s) \in Nat /\ Len(s) >= 1 /\ Head(s) = s[1] /\ Head(s) \in S
    BY HeadTailProperties, EmptySeq
  <1>2. Tail(s) \in Seq(S) /\ Len(Tail(s)) = Len(s) - 1
        /\ \A i \in 1 .. Len(s) - 1 : Tail(s)[i] = s[i + 1]
    BY HeadTailProperties
  <1>3. Tail(s) = <<>> <=> Len(Tail(s)) = 0
    BY <1>2, EmptySeq
  <1>4. \A i \in 1 .. Len(s) : s[i] \in S
    BY ElementOfSeq
  <1> QED
    BY <1>1, <1>2, <1>3, <1>4

LEMMA TailOfDistinct ==
    ASSUME NEW S, NEW s \in Seq(S), s # <<>>, Distinct(s)
    PROVE  /\ Distinct(Tail(s)) /\ In(s, Head(s))
           /\ \A x : In(Tail(s), x) <=> In(s, x) /\ x # Head(s)
  <1>1. /\ Len(s) \in Nat /\ Len(s) >= 1 /\ Head(s) = s[1] /\ Len(Tail(s)) = Len(s) - 1
        /\ \A i \in 1 .. Len(s) - 1 : Tail(s)[i] = s[i + 1]
    BY TailOf
  <1>2. Distinct(Tail(s))
    BY <1>1 DEF Distinct
  <1>3. In(s, Head(s))
    BY <1>1 DEF In
  <1>4. ASSUME NEW x PROVE In(Tail(s), x) <=> In(s, x) /\ x # Head(s)
    <2>1. ASSUME In(Tail(s), x) PROVE In(s, x) /\ x # Head(s)
      <3>1. PICK i \in 1 .. Len(s) - 1 : s[i + 1] = x
        BY <2>1, <1>1 DEF In
      <3>2. i + 1 \in 1 .. Len(s) /\ i + 1 # 1 /\ 1 \in 1 .. Len(s)
        BY <1>1
      <3> QED
        BY <3>1, <3>2, <1>1 DEF In, Distinct
    <2>2. ASSUME In(s, x), x # Head(s) PROVE In(Tail(s), x)
      <3>1. PICK i \in 1 .. Len(s) : s[i] = x
        BY <2>2 DEF In
      <3>2. i - 1 \in 1 .. Len(s) - 1 /\ (i - 1) + 1 = i
        BY <3>1, <2>2, <1>1
      <3>3. Tail(s)[i - 1] = x /\ i - 1 \in 1 .. Len(Tail(s))
        BY <3>1, <3>2, <1>1
      <3> QED
        BY <3>3 DEF In
    <2> QED
      BY <2>1, <2>2
  <1> QED
    BY <1>2, <1>3, <1>4

LEMMA AppendOf ==
    ASSUME NEW S, NEW s \in Seq(S), NEW x \in S
    PROVE  /\ Append(s, x) \in Seq(S) /\ Len(Append(s, x)) = Len(s) + 1 /\ Len(s) \in Nat
           /\ \A i \in 1 .. Len(s) : Append(s, x)[i] = s[i]
           /\ Append(s, x)[Len(s) + 1] = x
  BY AppendProperties, LenProperties

(* --------------------- one step of the communication ------------------- *)

(* The data that provider p makes for exchange n: one for every field that *)
(* it owns.                                                                *)
Made(p, n, q) ==
  /\ q \in Seq(Item)
  /\ \A i \in 1 .. Len(q) : Owner(q[i].field) = p /\ RightAt(q[i].field, n, q[i].data)
  /\ \A i, j \in 1 .. Len(q) : q[i].field = q[j].field => i = j
  /\ \A f \in Fields : Owner(f) = p => \E i \in 1 .. Len(q) : q[i].field = f
  /\ q # <<>> => Atmosphere \/ ~ForcingOver(at[p], setup.end)

(* A provider whose data have all been put makes those of its exchange.    *)
LEMMA ReadFlow ==
    ASSUME TypeInv, NEW put \in [Providers -> Nat], NEW g \in Nat, Flow(put, g),
           NEW p \in Providers, queue[p] = <<>>,
           NEW q, Made(p, put[p], q), queue' = [queue EXCEPT ![p] = q],
           UNCHANGED <<setup, at, case, slot, now, todo>>
    PROVE  Flow(put, g)' /\ queue' \in [Providers -> Seq(Item)]
  <1> USE DEF Made
  <1>0. /\ queue \in [Providers -> Seq(Item)] /\ slot \in [Fields -> Seq(Data)]
    BY DEF TypeInv
  <1>1. /\ queue'[p] = q /\ \A r \in Providers : r # p => queue'[r] = queue[r]
    BY <1>0
  <1>2. ASSUME NEW r \in Providers
        PROVE  Placed(r, put[r])' /\ Counted(r, put[r])'
    <2>1. Placed(r, put[r]) /\ Counted(r, put[r])
      BY DEF Flow
    <2> QED
      BY <2>1, SetupKept DEF Placed, Counted
  <1>3. ASSUME NEW r \in Providers
        PROVE  QueueInv(r, put[r])'
    <2>1. CASE r = p
      BY <2>1, <1>1, SetupKept DEF QueueInv
    <2>2. CASE r # p
      <3>1. QueueInv(r, put[r])
        BY DEF Flow
      <3> QED
        BY <3>1, <2>2, <1>1, SetupKept DEF QueueInv
    <2> QED
      BY <2>1, <2>2
  <1>4. ASSUME NEW f \in Fields
        PROVE  SlotInv(put, g, f)'
    <2>1. SlotInv(put, g, f) /\ Owner(f) \in Providers /\ Owner(f)' = Owner(f)
      BY Owners, SetupKept DEF Flow
    <2>2. Due(f, g)' = Due(f, g)
      BY DEF Due, In
    <2>3. (queue[Owner(f)] # <<>> /\ ~Queued(f)) <=> (queue'[Owner(f)] # <<>> /\ ~Queued(f)')
      <3>1. CASE Owner(f) = p
        <4>1. Queued(f)'
          BY <3>1, <2>1, <1>1 DEF Queued
        <4> QED
          BY <4>1, <3>1
      <3>2. CASE Owner(f) # p
        <4>1. queue'[Owner(f)] = queue[Owner(f)]
          BY <3>2, <2>1, <1>1
        <4>2. Queued(f)' <=> Queued(f)
          BY <4>1, <2>1 DEF Queued
        <4> QED
          BY <4>1, <4>2
      <3> QED
        BY <3>1, <3>2
    <2>4. \A n, x : RightAt(f, n, x)' <=> RightAt(f, n, x)
      BY SetupKept
    <2> QED
      BY <2>1, <2>2, <2>3, <2>4 DEF SlotInv
  <1>5. ModelAt(g)' /\ Distinct(todo)'
    <2>1. ModelAt(g) /\ Distinct(todo)
      BY DEF Flow
    <2> QED
      BY <2>1, SetupKept DEF ModelAt
  <1>6. Providers' = Providers /\ Fields' = Fields
    BY SetupKept
  <1> QED
    BY <1>0, <1>1, <1>2, <1>3, <1>4, <1>5, <1>6 DEF Flow

LEMMA SetupIs ==
    ASSUME setup \in Setups
    PROVE  /\ IsDate(setup.start) /\ IsDate(setup.end)
           /\ FromEpoch(setup.start) \in Int
           /\ Atmosphere => /\ setup.dtime \in 1 .. 1440 /\ setup.dt_rad \in 1 .. 1440
                            /\ setup.nml.yr_perp \in Int
           /\ ~Atmosphere => setup.start.minute % 60 = 0
           /\ Nwp => Atmosphere
  <1>1. IsDate(setup.start) /\ IsDate(setup.end)
    BY SetupsAssumption
  <1>2. Atmosphere => /\ setup.dtime \in 1 .. 1440 /\ setup.dt_rad \in 1 .. 1440
                      /\ setup.nml.yr_perp \in Int
    BY SetupsAssumption DEF Atmosphere, Day, Hour
  <1>3. ~Atmosphere => setup.start.minute % 60 = 0
    BY SetupsAssumption DEF Atmosphere, Hour
  <1> QED
    BY <1>1, <1>2, <1>3, StartOfMonth DEF Nwp

(* From one exchange to the next.                                          *)
LEMMA MinutesStep ==
    ASSUME setup \in Setups, NEW n \in Nat
    PROVE  /\ Minutes(n) \in Int /\ Minutes(n) >= FromEpoch(setup.start)
           /\ Minutes(0) = FromEpoch(setup.start)
           /\ Atmosphere /\ ~Nwp => Minutes(n + 1) = Minutes(n) + setup.dt_rad
           /\ ~Atmosphere => /\ Minutes(n + 1) = Minutes(n) + 60
                             /\ Minutes(n) = FromEpoch(setup.start) + n * 60
           /\ Nwp => /\ n = 0 => Minutes(n + 1) = Minutes(n)
                     /\ n = 1 => Minutes(n + 1) = Minutes(n) + setup.dtime
                     /\ n >= 2 => /\ Minutes(n + 1) = Minutes(n) + 1440
                                  /\ Minutes(n) = FromEpoch(setup.start) + setup.dtime + (n - 2) * 1440
                     /\ n < 2 => Minutes(n) = FromEpoch(setup.start)
  <1> DEFINE S == FromEpoch(setup.start)
  <1>1. S \in Int
    BY SetupIs
  <1>2. CASE Atmosphere /\ ~Nwp
    <2>1. \A k : Minutes(k) = S + k * setup.dt_rad
      BY <1>2 DEF Minutes, Interval
    <2>2. setup.dt_rad \in 1 .. 1440
      BY <1>2, SetupIs
    <2>3. Minutes(n) = S + n * setup.dt_rad /\ Minutes(n + 1) = S + (n + 1) * setup.dt_rad
          /\ Minutes(0) = S + 0 * setup.dt_rad
      BY <2>1
    <2> HIDE DEF S
    <2>4. PICK k \in 1 .. 1440 : k = setup.dt_rad
      BY <2>2
    <2>5. /\ (n + 1) * k = n * k + k /\ n * k \in Nat /\ 0 * k = 0
      OBVIOUS
    <2>7. /\ Minutes(n) = S + n * k /\ Minutes(n + 1) = S + (n * k + k)
          /\ Minutes(0) = S + 0
      BY <2>3, <2>4, <2>5
    <2>6. Minutes(n) \in Int /\ Minutes(n) >= S /\ Minutes(0) = S
          /\ Minutes(n + 1) = Minutes(n) + k
      <3>1. PICK z \in Nat : z = n * k
        BY <2>5
      <3>2. Minutes(n) = S + z /\ Minutes(n + 1) = S + (z + k) /\ Minutes(0) = S + 0
        BY <2>7, <3>1
      <3> QED
        BY ONLY <1>1, <3>2, k \in 1 .. 1440, z \in Nat
    <2> QED
      BY <1>2, <2>4, <2>6 DEF S
  <1>3. CASE ~Atmosphere
    <2>1. ~Nwp
      BY <1>3, SetupIs
    <2>2. \A k : Minutes(k) = S + k * 60
      BY <1>3, <2>1 DEF Minutes, Interval, Hour
    <2>3. Minutes(n) = S + n * 60 /\ Minutes(n + 1) = S + (n + 1) * 60 /\ Minutes(0) = S + 0 * 60
      BY <2>2
    <2> HIDE DEF S
    <2>4. Minutes(n) \in Int /\ Minutes(n) >= S /\ Minutes(0) = S
          /\ Minutes(n + 1) = Minutes(n) + 60
      BY <1>1, <2>3
    <2> QED
      BY <1>3, <2>1, <2>3, <2>4 DEF S
  <1>4. CASE Nwp
    <2>1. /\ Atmosphere /\ setup.dtime \in 1 .. 1440
      BY <1>4, SetupIs
    <2>2. \A k \in Nat : Minutes(k) = IF k < 2 THEN S ELSE S + setup.dtime + (k - 2) * 1440
      BY <1>4 DEF Minutes, Day, Hour
    <2>3. /\ Minutes(n) = IF n < 2 THEN S ELSE S + setup.dtime + (n - 2) * 1440
          /\ Minutes(n + 1) = IF n + 1 < 2 THEN S ELSE S + setup.dtime + ((n + 1) - 2) * 1440
          /\ Minutes(0) = S
      BY <2>2
    <2> HIDE DEF S
    <2>0. PICK k \in 1 .. 1440 : k = setup.dtime
      BY <2>1
    <2>4. Minutes(n) \in Int /\ Minutes(n) >= S
      <3>1. CASE n < 2
        BY <3>1, <1>1, <2>3
      <3>2. CASE ~(n < 2)
        <4>1. Minutes(n) = S + k + (n - 2) * 1440 /\ (n - 2) * 1440 \in Nat
          BY <3>2, <2>0, <2>3
        <4> QED
          BY <4>1, <1>1
      <3> QED
        BY <3>1, <3>2
    <2>5. /\ n = 0 => Minutes(n + 1) = Minutes(n)
          /\ n = 1 => Minutes(n + 1) = Minutes(n) + setup.dtime
          /\ n >= 2 => /\ Minutes(n + 1) = Minutes(n) + 1440
                       /\ Minutes(n) = S + setup.dtime + (n - 2) * 1440
          /\ n < 2 => Minutes(n) = S
      BY <1>1, <2>0, <2>3
    <2> QED
      BY <1>4, <2>1, <2>3, <2>4, <2>5 DEF S
  <1> QED
    BY <1>2, <1>3, <1>4

(* The providers of the atmosphere go from one date to that of the next    *)
(* exchange.                                                               *)
LEMMA NextDateAtmosphere ==
    ASSUME setup \in Setups, Atmosphere, NEW p \in Providers, NEW n \in Nat,
           Placed(p, n), Counted(p, n)
    PROVE  /\ IsDate(NextDate(p)) /\ FromEpoch(NextDate(p)) = Minutes(n + 1)
           /\ \E k \in 0 .. 1440 : NextDate(p) = Later(at[p], k)
  <1>1. /\ setup.dtime \in 1 .. 1440 /\ setup.dt_rad \in 1 .. 1440
    BY SetupIs
  <1>2. IsDate(at[p]) /\ FromEpoch(at[p]) = Minutes(n)
    BY DEF Placed
  <1>3. \A k \in Nat : k <= 1440 => IsDate(Later(at[p], k)) /\ FromEpoch(Later(at[p], k)) = FromEpoch(at[p]) + k
    BY <1>2, LaterDate
  <1>4. Minutes(n) \in Int
    BY MinutesStep
  <1>5. Later(at[p], 0) = at[p]
    <2>1. IsDate(Later(at[p], 0)) /\ FromEpoch(Later(at[p], 0)) = FromEpoch(at[p]) + 0
      BY <1>3
    <2> QED
      BY <1>2, <1>4, <2>1, OrderOfDates
  <1>6. CASE ~Nwp
    <2>1. NextDate(p) = Later(at[p], setup.dt_rad)
      BY <1>6 DEF NextDate
    <2>2. Minutes(n + 1) = Minutes(n) + setup.dt_rad
      BY <1>6, MinutesStep
    <2>3. PICK k \in 0 .. 1440 : k = setup.dt_rad
      BY <1>1
    <2>k. k \in Nat /\ k <= 1440
      OBVIOUS
    <2>4. IsDate(Later(at[p], k)) /\ FromEpoch(Later(at[p], k)) = FromEpoch(at[p]) + k
      BY ONLY <1>3, <2>k
    <2>5. NextDate(p) = Later(at[p], k) /\ Minutes(n + 1) = Minutes(n) + k
      BY ONLY <2>1, <2>2, <2>3
    <2>6. IsDate(NextDate(p))
      BY ONLY <2>4, <2>5
    <2>7. FromEpoch(NextDate(p)) = Minutes(n + 1)
      BY ONLY <1>2, <2>4, <2>5
    <2> QED
      BY ONLY <2>5, <2>6, <2>7, Z3
  <1>7. CASE Nwp /\ n = 0
    <2>1. NextDate(p) = at[p]
      BY <1>7 DEF NextDate, Counted
    <2>2. Minutes(n + 1) = Minutes(n)
      BY <1>7, MinutesStep
    <2> QED
      BY <1>2, <1>5, <2>1, <2>2
  <1>8. CASE Nwp /\ n = 1
    <2>1. NextDate(p) = Later(at[p], setup.dtime)
      BY <1>8 DEF NextDate, Counted
    <2>2. Minutes(n + 1) = Minutes(n) + setup.dtime
      BY <1>8, MinutesStep
    <2>3. PICK k \in 0 .. 1440 : k = setup.dtime
      BY <1>1
    <2>k. k \in Nat /\ k <= 1440
      OBVIOUS
    <2>4. IsDate(Later(at[p], k)) /\ FromEpoch(Later(at[p], k)) = FromEpoch(at[p]) + k
      BY ONLY <1>3, <2>k
    <2>5. NextDate(p) = Later(at[p], k) /\ Minutes(n + 1) = Minutes(n) + k
      BY ONLY <2>1, <2>2, <2>3
    <2>6. IsDate(NextDate(p))
      BY ONLY <2>4, <2>5
    <2>7. FromEpoch(NextDate(p)) = Minutes(n + 1)
      BY ONLY <1>2, <2>4, <2>5
    <2> QED
      BY ONLY <2>5, <2>6, <2>7, Z3
  <1>9. CASE Nwp /\ n >= 2
    <2>1. NextDate(p) = Later(at[p], 1440)
      BY <1>9 DEF NextDate, Counted, Day, Hour
    <2>2. Minutes(n + 1) = Minutes(n) + 1440
      BY <1>9, MinutesStep
    <2> QED
      BY <1>2, <1>3, <2>1, <2>2
  <1>10. n = 0 \/ n = 1 \/ n >= 2
    OBVIOUS
  <1> QED
    BY ONLY <1>6, <1>7, <1>8, <1>9, <1>10

(* ---------------------------- hours of a year -------------------------- *)

LEMMA FirstOfYear ==
    ASSUME NEW y \in Int
    PROVE  /\ FromEpoch(Date(y, 1, 1, 0)) = Start(y, 1)
           /\ Start(y, 1) \in Int /\ HoursIn(y) \in Nat
           /\ Start(y + 1, 1) = Start(y, 1) + 60 * HoursIn(y)
  <1>1. 1440 * (1 - 1) + 0 = 0
    OBVIOUS
  <1>2. Date(y, 1, 1, 0) = [year |-> y, month |-> 1, minute |-> 0]
    BY <1>1 DEF Date, Day, Hour
  <1>3. 1 \in Months /\ y + 1 \in Int
    BY DEF Months
  <1>4. Start(y, 1) = 1440 * (DaysToYear(y) + DaysTo(y, 1)) /\ DaysTo(y, 1) = 0
    BY <1>3, StartIs, FirstAndLastMonth
  <1>5. Start(y + 1, 1) = 1440 * (DaysToYear(y + 1) + DaysTo(y + 1, 1)) /\ DaysTo(y + 1, 1) = 0
    BY <1>3, StartIs, FirstAndLastMonth
  <1>6. DaysToYear(y + 1) = DaysToYear(y) + 365 + (IF Leap(y) THEN 1 ELSE 0)
        /\ DaysToYear(y) \in Int
    BY DaysOfYear, YearIsInt
  <1>7. HoursIn(y) \in Nat /\ 60 * HoursIn(y) = 1440 * (365 + (IF Leap(y) THEN 1 ELSE 0))
    BY DEF HoursIn
  <1> QED
    BY <1>2, <1>4, <1>5, <1>6, <1>7 DEF Start

LEMMA HourOfDate ==
    ASSUME NEW d, IsDate(d)
    PROVE  /\ HourOfYear(d) = (FromEpoch(d) - Start(d.year, 1)) \div 60
           /\ Start(d.year, 1) <= FromEpoch(d) /\ FromEpoch(d) < Start(d.year + 1, 1)
           /\ HourOfYear(d) \in Nat /\ HourOfYear(d) < HoursIn(d.year)
           /\ d.minute % 60 = 0 => FromEpoch(d) = Start(d.year, 1) + 60 * HourOfYear(d)
           /\ HourOfYear(d) = (1440 * DaysTo(d.year, d.month) + d.minute) \div 60
  <1>1. /\ d.year \in Int /\ d.month \in Months /\ d.minute \in Nat
        /\ d.minute < Length(d.year, d.month)
    BY DateIs
  <1>2. HourOfYear(d) = (FromEpoch(d) - Start(d.year, 1)) \div 60
    BY <1>1, FirstOfYear DEF HourOfYear, Hour
  <1>3. FromEpoch(d) = Start(d.year, d.month) + d.minute
    BY StartOfMonth
  <1>4. /\ Start(d.year, d.month) = 1440 * (DaysToYear(d.year) + DaysTo(d.year, d.month))
        /\ DaysTo(d.year, d.month) \in Nat /\ DaysToYear(d.year) \in Int
    BY <1>1, StartIs
  <1>5. Start(d.year, 1) = 1440 * DaysToYear(d.year)
    <2>1. 1 \in Months
      BY DEF Months
    <2>2. Start(d.year, 1) = 1440 * (DaysToYear(d.year) + DaysTo(d.year, 1))
      BY <1>1, <2>1, StartIs
    <2>3. DaysTo(d.year, 1) = 0
      BY <1>1, FirstAndLastMonth
    <2> QED
      BY <1>4, <2>2, <2>3
  <1>6. Start(d.year, d.month) + Length(d.year, d.month) <= Start(d.year + 1, 1)
    <2>1. 1 \in Months /\ d.year + 1 \in Int /\ d.year < d.year + 1
      BY <1>1 DEF Months
    <2> QED
      BY <1>1, <2>1, MonthsApart
  <1>7. Start(d.year + 1, 1) = Start(d.year, 1) + 60 * HoursIn(d.year) /\ HoursIn(d.year) \in Nat
    BY <1>1, FirstOfYear
  <1>8. PICK x \in Nat : FromEpoch(d) = Start(d.year, 1) + 1440 * x + d.minute /\ x = DaysTo(d.year, d.month)
    BY <1>1, <1>3, <1>4, <1>5
  <1>9. Start(d.year, 1) \in Int /\ Length(d.year, d.month) \in Nat
    BY <1>1, <1>4, <1>5, LengthIs
  <1>10. Start(d.year, 1) <= FromEpoch(d) /\ FromEpoch(d) < Start(d.year + 1, 1)
    BY <1>1, <1>3, <1>4, <1>6, <1>7, <1>8, <1>9
  <1>11. HourOfYear(d) = (1440 * x + d.minute) \div 60 /\ FromEpoch(d) - Start(d.year, 1) = 1440 * x + d.minute
    BY <1>1, <1>2, <1>8, <1>9
  <1>12. HourOfYear(d) \in Nat
    BY <1>1, <1>8, <1>11
  <1>13. HourOfYear(d) < HoursIn(d.year)
    <2>1. PICK z \in Nat, c \in Nat, s \in Int :
            z = 1440 * x + d.minute /\ c = HoursIn(d.year) /\ s = Start(d.year, 1)
      BY <1>1, <1>7, <1>9
    <2>4. FromEpoch(d) = s + z /\ FromEpoch(d) < s + 60 * c
      BY <1>1, <1>7, <1>8, <1>10, <2>1
    <2>2. z < 60 * c
      BY <2>4
    <2>3. z \div 60 < c
      BY <2>2
    <2> QED
      BY <1>11, <2>1, <2>3
  <1>14. d.minute % 60 = 0 => 60 * HourOfYear(d) = 1440 * x + d.minute
    BY <1>1, <1>11
  <1> QED
    BY <1>1, <1>2, <1>8, <1>9, <1>10, <1>11, <1>12, <1>13, <1>14

(* The day of the year is that of the same month and day in a year without *)
(* leap day, from March on one more in a leap year.                        *)
LEMMA DayOfDate ==
    ASSUME NEW d, IsDate(d), ~OnLeapDay(d), NEW k \in Nat, k = HourOfYear(d) \div 24
    PROVE  CommonDay(d) = IF Leap(d.year) /\ k > 59 THEN k - 1 ELSE k
  <1>1. /\ d.year \in Int /\ d.month \in Months /\ d.minute \in Nat
        /\ d.minute < 1440 * Days(d.year, d.month)
    BY DateIs, LengthIs
  <1>2. PICK x \in Nat, n \in Nat : n = d.minute \div 1440 /\ x = DaysTo(d.year, d.month)
    BY <1>1, StartIs
  <1>3. HourOfYear(d) = (1440 * x + d.minute) \div 60
    BY <1>2, HourOfDate
  <1>4. k = x + n
    <2>1. PICK r \in 0 .. 1439 : d.minute = 1440 * n + r
      <3>1. PICK z \in Nat : z = d.minute
        BY <1>1
      <3>2. z % 1440 \in 0 .. 1439 /\ z = 1440 * (z \div 1440) + (z % 1440)
        OBVIOUS
      <3>3. n = z \div 1440
        BY <1>2, <3>1
      <3>4. d.minute = 1440 * n + (z % 1440)
        BY <3>1, <3>2, <3>3
      <3> QED
        BY <3>2, <3>4
    <2>2. PICK q \in 0 .. 23, u \in 0 .. 59 : r = 60 * q + u
      <3>1. r \div 60 \in 0 .. 23 /\ r % 60 \in 0 .. 59 /\ r = 60 * (r \div 60) + (r % 60)
        OBVIOUS
      <3> QED
        BY <3>1
    <2>3. PICK e \in Nat : e = x + n
      OBVIOUS
    <2>4. 1440 * x + d.minute = 60 * (24 * e + q) + u
      BY <2>1, <2>2, <2>3
    <2>5. HourOfYear(d) = 24 * e + q
      BY <1>3, <2>4
    <2> QED
      BY <2>3, <2>5
  <1>5. CommonDay(d) = DaysBefore[d.month] + n
    BY <1>2 DEF CommonDay, Day, Hour
  <1>6. x = DaysBefore[d.month] + (IF Leap(d.year) /\ d.month > 2 THEN 1 ELSE 0)
    BY <1>2 DEF DaysTo
  <1>7. CASE d.month > 2
    <2>1. DaysBefore[d.month] \in Nat /\ DaysBefore[d.month] >= 59
      BY <1>1, <1>7 DEF DaysBefore, Months
    <2> QED
      BY <1>2, <1>4, <1>5, <1>6, <1>7, <2>1
  <1>8. CASE ~(d.month > 2)
    <2>1. d.month \in {1, 2} /\ DaysBefore[1] = 0 /\ DaysBefore[2] = 31
      BY <1>1, <1>8 DEF DaysBefore, Months
    <2>2. n < Days(d.year, d.month)
      <3>1. Days(d.year, d.month) \in Nat
        BY <1>1, DaysAre
      <3> QED
        BY <1>1, <1>2, <3>1
    <2>3. k <= 59
      <3>1. Days(d.year, 1) = 31 /\ Days(d.year, 2) \in {28, 29}
        BY DEF Days
      <3> QED
        BY <1>2, <1>4, <1>6, <1>8, <2>1, <2>2, <3>1
    <2>4. DaysBefore[d.month] = x
      <3>1. DaysBefore[d.month] \in Nat
        BY <2>1
      <3> QED
        BY <1>6, <1>8, <3>1
    <2> QED
      BY <1>4, <1>5, <2>3, <2>4
  <1> QED
    BY <1>7, <1>8

(* The last hour of a year of the run is that before its end.              *)
LEMMA EndOfHours ==
    ASSUME setup \in Setups, ~Atmosphere, NEW y \in Int, setup.start.year <= y
    PROVE  /\ EndHour(y, setup.start, setup.end) \in Int
           /\ EndHour(y, setup.start, setup.end) <= HoursIn(y)
           /\ y # setup.end.year => EndHour(y, setup.start, setup.end) = HoursIn(y)
           /\ StartHour(y, setup.start) \in Nat
           /\ y # setup.start.year => StartHour(y, setup.start) = 0
           /\ y = setup.start.year => StartHour(y, setup.start) = HourOfYear(setup.start)
  <1> DEFINE s == setup.start
             e == setup.end
             from == IF y = s.year THEN s ELSE Date(y, 1, 1, 0)
             to == IF y = e.year THEN e ELSE Date(y + 1, 1, 1, 0)
             h == StartHour(y, s)
  <1>1. IsDate(s) /\ IsDate(e) /\ s.minute % 60 = 0
    BY SetupIs
  <1>2. /\ h \in Nat /\ (y # s.year => h = 0) /\ (y = s.year => h = HourOfYear(s))
        /\ FromEpoch(from) = Start(y, 1) + 60 * h
    <2>1. CASE y = s.year
      <3>1. h = HourOfYear(s) /\ from = s
        BY <2>1 DEF StartHour
      <3>2. HourOfYear(s) \in Nat /\ FromEpoch(s) = Start(s.year, 1) + 60 * HourOfYear(s)
        BY <1>1, HourOfDate
      <3> QED
        BY <2>1, <3>1, <3>2
    <2>2. CASE y # s.year
      <3>1. h = 0 /\ from = Date(y, 1, 1, 0)
        BY <2>2 DEF StartHour
      <3>2. FromEpoch(Date(y, 1, 1, 0)) = Start(y, 1) /\ Start(y, 1) \in Int
        BY FirstOfYear
      <3> QED
        BY <2>2, <3>1, <3>2
    <2> QED
      BY <2>1, <2>2
  <1>3. /\ FromEpoch(to) \in Int /\ FromEpoch(to) <= Start(y, 1) + 60 * HoursIn(y)
        /\ y # e.year => FromEpoch(to) = Start(y, 1) + 60 * HoursIn(y)
        /\ Start(y, 1) \in Int /\ HoursIn(y) \in Nat
    <2>1. Start(y + 1, 1) = Start(y, 1) + 60 * HoursIn(y) /\ Start(y, 1) \in Int /\ HoursIn(y) \in Nat
      BY FirstOfYear
    <2>2. CASE y = e.year
      <3>1. FromEpoch(e) < Start(e.year + 1, 1) /\ FromEpoch(e) \in Int
        BY <1>1, HourOfDate, StartOfMonth
      <3>2. to = e
        BY <2>2
      <3>3. FromEpoch(e) < Start(y, 1) + 60 * HoursIn(y)
        BY <2>1, <2>2, <3>1
      <3> HIDE DEF to, e
      <3> QED
        BY <2>1, <2>2, <3>1, <3>2, <3>3
    <2>3. CASE y # e.year
      <3>1. y + 1 \in Int
        OBVIOUS
      <3>2. FromEpoch(Date(y + 1, 1, 1, 0)) = Start(y + 1, 1)
        BY <3>1, FirstOfYear
      <3> QED
        BY <2>1, <2>3, <3>2
    <2> QED
      BY <2>2, <2>3
  <1>4. EndHour(y, s, e) = h + ((FromEpoch(to) - FromEpoch(from)) \div 60)
    BY DEF EndHour, HoursOf, Hour
  <1> HIDE DEF h, to, from
  <1>5. PICK a \in Int, b \in Int, c \in Int :
          a = Start(y, 1) /\ b = FromEpoch(to) /\ c = HoursIn(y)
    BY <1>3
  <1>6. EndHour(y, s, e) = h + ((b - (a + 60 * h)) \div 60)
    BY <1>2, <1>4, <1>5
  <1>7. EndHour(y, s, e) = (b - a) \div 60
    BY <1>2, <1>6
  <1>8. b <= a + 60 * c /\ (y # e.year => b = a + 60 * c)
    BY <1>3, <1>5
  <1>9. /\ EndHour(y, s, e) \in Int /\ EndHour(y, s, e) <= c
        /\ y # e.year => EndHour(y, s, e) = c
    BY <1>7, <1>8
  <1> QED
    BY <1>2, <1>5, <1>9 DEF h

(* A rank of the provider of the ocean goes from one hour to that of the   *)
(* next exchange, through the turn of the year, until it is past the end.  *)
LEMMA NextHour ==
    ASSUME setup \in Setups, ~Atmosphere, NEW p \in Providers, NEW n \in Nat,
           Placed(p, n), ~ForcingOver(at[p], setup.end)
    PROVE  /\ NextDate(p) \in [year : Int, hour : Nat]
           /\ ~ForcingOver(NextDate(p), setup.end) => AtHour(NextDate(p), Minutes(n + 1))
  <1> DEFINE a == at[p]
             b == NextDate(p)
             last == EndHour(a.year, setup.start, setup.end)
  <1>1. /\ a \in [year : Int, hour : Nat] /\ setup.start.year <= a.year
        /\ a.hour < HoursIn(a.year) /\ Start(a.year, 1) + 60 * a.hour = Minutes(n)
    BY DEF Placed, AtHour, Hour
  <1>2. Minutes(n + 1) = Minutes(n) + 60 /\ Minutes(n) \in Int
    BY MinutesStep
  <1>3. setup.start.year \in Int /\ setup.end.year \in Int /\ a.year \in Int /\ a.hour \in Nat
    BY <1>1, SetupIs, DateIs
  <1>4. /\ last \in Int /\ last <= HoursIn(a.year)
        /\ a.year # setup.end.year => last = HoursIn(a.year)
    BY <1>1, <1>3, EndOfHours
  <1>5. Start(a.year, 1) \in Int /\ HoursIn(a.year) \in Nat
        /\ Start(a.year + 1, 1) = Start(a.year, 1) + 60 * HoursIn(a.year)
    BY <1>3, FirstOfYear
  <1>6. b = ForcingAdvance(a, setup.start, setup.end)
    BY SetupIs DEF NextDate
  <1> HIDE DEF a
  <1>7. CASE a.hour + 1 < last
    <2>1. b = [year |-> a.year, hour |-> a.hour + 1]
      BY <1>1, <1>6, <1>7 DEF ForcingAdvance
    <2>2. b.year = a.year /\ b.hour = a.hour + 1 /\ b \in [year : Int, hour : Nat]
      BY <1>3, <2>1
    <2>3. a.hour + 1 < HoursIn(a.year)
      BY <1>3, <1>4, <1>5, <1>7
    <2>4. Start(a.year, 1) + 60 * (a.hour + 1) = Minutes(n) + 60
      BY <1>1, <1>3, <1>5
    <2> HIDE DEF b
    <2> QED
      <3>1. AtHour(b, Minutes(n + 1))
        BY <1>1, <1>2, <2>2, <2>3, <2>4 DEF AtHour, Hour
      <3> QED
        BY <2>2, <3>1 DEF b
  <1>8. CASE ~(a.hour + 1 < last)
    <2>1. b = [year |-> a.year + 1, hour |-> StartHour(a.year + 1, setup.start)]
      BY <1>6, <1>8 DEF ForcingAdvance
    <2>2. a.year + 1 \in Int /\ a.year + 1 # setup.start.year /\ setup.start.year <= a.year + 1
      BY <1>1, <1>3
    <2>3. StartHour(a.year + 1, setup.start) = 0
      BY <2>2, EndOfHours
    <2>4. b.year = a.year + 1 /\ b.hour = 0 /\ b \in [year : Int, hour : Nat]
      BY <2>1, <2>2, <2>3
    <2> HIDE DEF b
    <2>5. ASSUME ~ForcingOver(b, setup.end)
          PROVE  AtHour(b, Minutes(n + 1))
      <3>1. EndYear(setup.end) \in Int /\ EndYear(setup.end) <= setup.end.year + 1
        BY <1>3 DEF EndYear
      <3>2. a.year # setup.end.year
        BY <1>3, <2>4, <2>5, <3>1 DEF ForcingOver
      <3>3. a.hour + 1 = HoursIn(a.year)
        BY <1>1, <1>3, <1>4, <1>5, <1>8, <3>2
      <3>4. Start(a.year + 1, 1) = Minutes(n) + 60
        BY <1>1, <1>3, <1>5, <3>3
      <3>5. 0 < HoursIn(a.year + 1) /\ Start(a.year + 1, 1) \in Int
        BY <2>2, FirstOfYear DEF HoursIn
      <3> QED
        BY <1>2, <2>2, <2>4, <3>4, <3>5 DEF AtHour, Hour
    <2> QED
      BY <2>4, <2>5 DEF b
  <1> QED
    BY <1>7, <1>8

(* A provider puts the first of its data; with the last one it goes on to  *)
(* its next exchange.                                                      *)
PutsAfter(put, p) == IF Len(queue[p]) = 1 THEN [put EXCEPT ![p] = @ + 1] ELSE put

LEMMA PutMoves ==
    ASSUME TypeInv, NEW put \in [Providers -> Nat], NEW g \in Nat, Flow(put, g),
           NEW p \in Providers, Put(p), NEW r \in Providers,
           NEW new, new = PutsAfter(put, p)
    PROVE  Placed(r, new[r])' /\ Counted(r, new[r])'
  <1> DEFINE n == put[p]
  <1>0. /\ queue[p] # <<>> /\ setup' = setup /\ setup \in Setups /\ DOMAIN at = Providers
        /\ case \in [Providers -> 1 .. 3]
        /\ queue \in [Providers -> Seq(Item)]
    BY DEF Put, TypeInv
  <1>1. Placed(r, put[r]) /\ Counted(r, put[r]) /\ Placed(p, n) /\ Counted(p, n) /\ QueueInv(p, n)
    BY DEF Flow
  <1>2. CASE Len(queue[p]) # 1 \/ r # p
    <2>1. at'[r] = at[r] /\ case'[r] = case[r] /\ new[r] = put[r]
      BY <1>0, <1>2 DEF Put, PutsAfter
    <2>2. Placed(r, put[r])' /\ Counted(r, put[r])'
      BY <1>0, <1>1, <2>1, SetupKept DEF Placed, Counted
    <2> QED
      BY <2>1, <2>2 DEF Placed, Counted
  <1>3. CASE Len(queue[p]) = 1 /\ r = p
    <2>1. at'[p] = NextDate(p) /\ new[p] = n + 1 /\ n \in Nat
          /\ case'[p] = IF Nwp /\ case[p] < 3 THEN case[p] + 1 ELSE case[p]
      BY <1>0, <1>3 DEF Put, PutsAfter
    <2>2. Placed(p, n + 1)'
      <3>1. CASE Atmosphere
        <4>1. IsDate(NextDate(p)) /\ FromEpoch(NextDate(p)) = Minutes(n + 1)
          BY <1>0, <1>1, <2>1, <3>1, NextDateAtmosphere
        <4> QED
          BY <1>0, <2>1, <3>1, <4>1, SetupKept DEF Placed
      <3>2. CASE ~Atmosphere
        <4>1. ~ForcingOver(at[p], setup.end)
          BY <1>0, <1>1, <3>2 DEF QueueInv
        <4>2. /\ NextDate(p) \in [year : Int, hour : Nat]
              /\ ~ForcingOver(NextDate(p), setup.end) => AtHour(NextDate(p), Minutes(n + 1))
          BY <1>0, <1>1, <2>1, <3>2, <4>1, NextHour
        <4> QED
          BY <1>0, <2>1, <3>2, <4>2, SetupKept DEF Placed
      <3> QED
        BY <3>1, <3>2
    <2>3. Counted(p, n + 1)'
      BY <1>0, <1>1, <2>1, SetupKept DEF Counted
    <2> QED
      BY <1>3, <2>1, <2>2, <2>3 DEF Placed, Counted
  <1> QED
    BY <1>2, <1>3

LEMMA PutQueues ==
    ASSUME TypeInv, NEW put \in [Providers -> Nat], NEW g \in Nat, Flow(put, g),
           NEW p \in Providers, Put(p), NEW r \in Providers,
           NEW new, new = PutsAfter(put, p)
    PROVE  QueueInv(r, new[r])'
  <1> DEFINE q == queue[p]
  <1>0. /\ q # <<>> /\ q \in Seq(Item) /\ setup' = setup /\ DOMAIN at = Providers
        /\ queue' = [queue EXCEPT ![p] = Tail(q)] /\ queue \in [Providers -> Seq(Item)]
    BY DEF Put, TypeInv
  <1>1. QueueInv(r, put[r]) /\ QueueInv(p, put[p])
    BY DEF Flow
  <1>4. /\ \A f, n, x : RightAt(f, n, x)' <=> RightAt(f, n, x)
        /\ \A f : Owner(f)' = Owner(f)
        /\ Atmosphere' <=> Atmosphere
    BY <1>0, SetupKept
  <1>2. CASE r # p
    <2>1. at'[r] = at[r] /\ queue'[r] = queue[r] /\ new[r] = put[r]
      BY <1>0, <1>2 DEF Put, PutsAfter
    <2>2. setup' = setup /\ QueueInv(r, put[r])
      BY <1>0, <1>1
    <2>3. ASSUME NEW i \in 1 .. Len(queue'[r])
          PROVE  Owner(queue[r][i].field)' = r /\ RightAt(queue[r][i].field, new[r], queue[r][i].data)'
      BY <1>4, <2>1, <2>2 DEF QueueInv
    <2>4. /\ \A i, j \in 1 .. Len(queue'[r]) : queue'[r][i].field = queue'[r][j].field => i = j
          /\ queue'[r] # <<>> => Atmosphere' \/ ~ForcingOver(at[r], setup.end)'
      BY <1>4, <2>1, <2>2 DEF QueueInv
    <2> QED
      BY <2>3, <2>4 DEF QueueInv
  <1>3. CASE r = p
    <2>1. /\ Len(q) \in Nat /\ Len(q) >= 1 /\ Len(Tail(q)) = Len(q) - 1
          /\ \A i \in 1 .. Len(q) - 1 : Tail(q)[i] = q[i + 1]
          /\ Tail(q) = <<>> <=> Len(q) = 1
      BY <1>0, TailOf
    <2>2. queue'[p] = Tail(q)
      BY <1>0
    <2>3. CASE Len(q) = 1
      <3>1. queue'[p] = <<>> /\ Len(queue'[p]) = 0
        BY <2>1, <2>2, <2>3
      <3> QED
        BY <1>3, <3>1 DEF QueueInv
    <2>4. CASE Len(q) # 1
      <3>1. new[p] = put[p] /\ at'[p] = at[p]
        BY <2>4 DEF Put, PutsAfter
      <3>2. ASSUME NEW i \in 1 .. Len(queue'[p])
            PROVE  /\ i + 1 \in 1 .. Len(q) /\ queue'[p][i] = q[i + 1]
                   /\ Owner(queue[p][i].field)' = p
                   /\ RightAt(queue[p][i].field, put[p], queue[p][i].data)'
        <4>1. i + 1 \in 1 .. Len(q) /\ queue'[p][i] = q[i + 1]
          BY <2>1, <2>2
        <4>2. Owner(q[i + 1].field) = p /\ RightAt(q[i + 1].field, put[p], q[i + 1].data)
          BY <1>1, <4>1 DEF QueueInv
        <4> QED
          BY <1>4, <4>1, <4>2
      <3>3. ASSUME NEW i \in 1 .. Len(queue'[p]), NEW j \in 1 .. Len(queue'[p]),
                   queue'[p][i].field = queue'[p][j].field
            PROVE  i = j
        <4>1. i + 1 \in 1 .. Len(q) /\ queue'[p][i] = q[i + 1]
          BY <3>2
        <4>2. j + 1 \in 1 .. Len(q) /\ queue'[p][j] = q[j + 1]
          BY <3>2
        <4>3. q[i + 1].field = q[j + 1].field
          BY <3>3, <4>1, <4>2
        <4>4. \A a, b \in 1 .. Len(q) : q[a].field = q[b].field => a = b
          BY <1>1 DEF QueueInv
        <4>5. i + 1 = j + 1
          BY <4>1, <4>2, <4>3, <4>4
        <4> QED
          BY <4>5, <2>1, <2>2
      <3>4. Atmosphere' \/ ~ForcingOver(at[p], setup.end)
        BY <1>0, <1>1, <1>4 DEF QueueInv
      <3> QED
        BY <1>0, <1>3, <3>1, <3>2, <3>3, <3>4 DEF QueueInv
    <2> QED
      BY <2>3, <2>4
  <1> QED
    BY <1>2, <1>3

LEMMA PutSlots ==
    ASSUME TypeInv, NEW put \in [Providers -> Nat], NEW g \in Nat, Flow(put, g),
           NEW p \in Providers, Put(p), NEW f \in Fields,
           NEW new, new = PutsAfter(put, p)
    PROVE  SlotInv(new, g, f)'
  <1> DEFINE q == queue[p]
             h == Head(q).field
  <1>0. /\ q # <<>> /\ q \in Seq(Item) /\ setup' = setup /\ todo' = todo
        /\ queue' = [queue EXCEPT ![p] = Tail(q)] /\ queue \in [Providers -> Seq(Item)]
        /\ slot' = [slot EXCEPT ![h] = Append(@, Head(q).data)] /\ slot \in [Fields -> Seq(Data)]
    BY DEF Put, TypeInv
  <1>1. SlotInv(put, g, f) /\ QueueInv(p, put[p])
    BY DEF Flow
  <1>2. /\ Len(q) \in Nat /\ Len(q) >= 1 /\ Len(Tail(q)) = Len(q) - 1
        /\ \A i \in 1 .. Len(q) - 1 : Tail(q)[i] = q[i + 1]
        /\ Tail(q) = <<>> <=> Len(q) = 1
        /\ Head(q) = q[1] /\ Head(q) \in Item
    BY <1>0, TailOf
  <1>3. h \in Fields /\ Head(q).data \in Data /\ Owner(h) = p
        /\ RightAt(h, put[p], Head(q).data)
    <2>1. 1 \in 1 .. Len(q)
      BY <1>2
    <2> QED
      BY <1>1, <1>2, <2>1 DEF QueueInv, Item
  <1>4. Owner(f) \in Providers /\ Owner(f)' = Owner(f) /\ Due(f, g)' = Due(f, g)
        /\ Due(f, g) \in Nat
        /\ \A n, x : RightAt(f, n, x)' <=> RightAt(f, n, x)
    BY <1>0, Owners, SetupKept DEF Due, In
  <1>5. slot[f] \in Seq(Data) /\ Len(slot[f]) \in Nat
    BY <1>0, LenProperties
  <1>6. CASE Owner(f) # p
    <2>1. slot'[f] = slot[f] /\ queue'[Owner(f)] = queue[Owner(f)] /\ new[Owner(f)] = put[Owner(f)]
      BY <1>0, <1>3, <1>4, <1>6 DEF PutsAfter
    <2>2. Queued(f)' <=> Queued(f)
      BY <1>4, <2>1 DEF Queued
    <2> QED
      BY <1>1, <1>4, <2>1, <2>2 DEF SlotInv
  <1>7. CASE Owner(f) = p /\ f # h
    <2>1. slot'[f] = slot[f] /\ queue'[p] = Tail(q)
      BY <1>0, <1>3, <1>7
    <2>2. Queued(f)' <=> Queued(f)
      <3>1. ASSUME Queued(f) PROVE Queued(f)'
        <4>1. PICK i \in 1 .. Len(q) : q[i].field = f
          BY <1>7, <3>1 DEF Queued
        <4>2. i # 1
          BY <1>2, <1>7, <4>1
        <4>3. i - 1 \in 1 .. Len(q) - 1 /\ Tail(q)[i - 1] = q[(i - 1) + 1] /\ (i - 1) + 1 = i
          BY <1>2, <4>1, <4>2
        <4>4. i - 1 \in 1 .. Len(queue'[p]) /\ queue'[p][i - 1].field = f
          BY <1>2, <2>1, <4>1, <4>3
        <4> QED
          BY <1>4, <1>7, <4>4 DEF Queued
      <3>2. ASSUME Queued(f)' PROVE Queued(f)
        <4>1. PICK i \in 1 .. Len(Tail(q)) : Tail(q)[i].field = f
          BY <1>4, <1>7, <2>1, <3>2 DEF Queued
        <4>2. i + 1 \in 1 .. Len(q) /\ q[i + 1].field = f
          BY <1>2, <4>1
        <4> QED
          BY <1>7, <4>2 DEF Queued
      <3> QED
        BY <3>1, <3>2
    <2>3. CASE Len(q) # 1
      <3>1. new[p] = put[p] /\ queue'[p] # <<>>
        BY <1>2, <2>1, <2>3 DEF PutsAfter
      <3> QED
        BY <1>0, <1>1, <1>4, <1>7, <2>1, <2>2, <3>1 DEF SlotInv
    <2>4. CASE Len(q) = 1
      <3>1. new[p] = put[p] + 1 /\ queue'[p] = <<>> /\ put[p] \in Nat
        BY <1>2, <2>1, <2>4 DEF PutsAfter
      <3>2. ~Queued(f)
        BY <1>2, <1>7, <2>4 DEF Queued
      <3> QED
        BY <1>0, <1>1, <1>4, <1>5, <1>7, <2>1, <3>1, <3>2 DEF SlotInv
    <2> QED
      BY <2>3, <2>4
  <1>8. CASE f = h
    <2>1. slot'[f] = Append(slot[f], Head(q).data) /\ queue'[p] = Tail(q)
      BY <1>0, <1>3, <1>8
    <2>2. /\ Len(slot'[f]) = Len(slot[f]) + 1
          /\ \A i \in 1 .. Len(slot[f]) : slot'[f][i] = slot[f][i]
          /\ slot'[f][Len(slot[f]) + 1] = Head(q).data
      BY <1>3, <1>5, <2>1, AppendOf
    <2>3. Queued(f)
      <3>1. 1 \in 1 .. Len(q) /\ q[1].field = f
        BY <1>2, <1>8
      <3> QED
        BY <1>3, <1>8, <3>1 DEF Queued
    <2>4. ~Queued(f)'
      <3>1. SUFFICES ASSUME NEW i \in 1 .. Len(Tail(q)), Tail(q)[i].field = f PROVE FALSE
        BY <1>3, <1>4, <1>8, <2>1 DEF Queued
      <3>2. i + 1 \in 1 .. Len(q) /\ 1 \in 1 .. Len(q) /\ q[i + 1].field = q[1].field
        BY <1>2, <1>8, <3>1
      <3>3. i + 1 = 1
        BY <1>1, <3>2 DEF QueueInv
      <3> QED
        BY <1>2, <3>3
    <2>5. Due(f, g) + Len(slot[f]) = put[p] /\ put[p] \in Nat
      BY <1>1, <1>3, <1>8, <2>3 DEF SlotInv
    <2>6. Due(f, g) + Len(slot'[f]) = new[p] + (IF queue'[p] # <<>> THEN 1 ELSE 0)
      <3>1. CASE Len(q) = 1
        <4>1. new[p] = put[p] + 1 /\ queue'[p] = <<>>
          BY <1>2, <2>1, <3>1 DEF PutsAfter
        <4> QED
          BY <1>4, <1>5, <2>2, <2>5, <4>1
      <3>2. CASE Len(q) # 1
        <4>1. new[p] = put[p] /\ queue'[p] # <<>>
          BY <1>2, <2>1, <3>2 DEF PutsAfter
        <4> QED
          BY <1>4, <1>5, <2>2, <2>5, <4>1
      <3> QED
        BY <3>1, <3>2
    <2>7. ASSUME NEW i \in 1 .. Len(slot'[f])
          PROVE  RightAt(f, Due(f, g) + (i - 1), slot'[f][i])
      <3>1. CASE i = Len(slot[f]) + 1
        <4>1. Due(f, g) + (i - 1) = put[p]
          BY <1>4, <1>5, <2>5, <3>1
        <4> QED
          BY <1>3, <1>8, <2>2, <3>1, <4>1
      <3>2. CASE i # Len(slot[f]) + 1
        <4>1. i \in 1 .. Len(slot[f])
          BY <1>5, <2>2, <3>2
        <4> QED
          BY <1>1, <2>2, <4>1 DEF SlotInv
      <3> QED
        BY <3>1, <3>2
    <2> QED
      BY <1>3, <1>4, <1>8, <2>4, <2>6, <2>7 DEF SlotInv
  <1> QED
    BY <1>6, <1>7, <1>8

LEMMA PutFlow ==
    ASSUME TypeInv, NEW put \in [Providers -> Nat], NEW g \in Nat, Flow(put, g),
           NEW p \in Providers, Put(p)
    PROVE  \E new \in [Providers -> Nat] : Flow(new, g)'
  <1>1. PICK new \in [Providers -> Nat] : new = PutsAfter(put, p)
    <2>1. put[p] + 1 \in Nat
      OBVIOUS
    <2>2. [put EXCEPT ![p] = put[p] + 1] \in [Providers -> Nat]
      BY <2>1
    <2>3. PutsAfter(put, p) \in [Providers -> Nat]
      BY <2>2 DEF PutsAfter
    <2> QED
      BY <2>3
  <1>2. setup' = setup /\ now' = now /\ todo' = todo
    BY DEF Put
  <1>3. \A r \in Providers : Placed(r, new[r])' /\ Counted(r, new[r])' /\ QueueInv(r, new[r])'
    BY <1>1, PutMoves, PutQueues
  <1>4. \A f \in Fields : SlotInv(new, g, f)'
    BY <1>1, PutSlots
  <1>5. ModelAt(g)' /\ Distinct(todo)'
    <2>1. ModelAt(g) /\ Distinct(todo)
      BY DEF Flow
    <2> QED
      BY <1>2, <2>1, SetupKept DEF ModelAt
  <1>6. Providers' = Providers /\ Fields' = Fields
    BY <1>2, SetupKept
  <1>7. Flow(new, g)'
    BY <1>3, <1>4, <1>5, <1>6 DEF Flow
  <1> QED
    BY <1>1, <1>7

(* Where the model has something to get, it is at the minute of that       *)
(* exchange.                                                               *)
LEMMA ModelTime ==
    ASSUME setup \in Setups, NEW g \in Nat, ModelAt(g), todo # <<>>
    PROVE  FromEpoch(now.date) = Minutes(g)
  <1>1. CASE ~Nwp
    BY <1>1 DEF ModelAt
  <1>2. CASE Nwp /\ now.call < 2 /\ g = now.call /\ now.date = setup.start
    BY <1>2, MinutesStep
  <1>3. CASE Nwp /\ ~(now.call < 2 /\ g = now.call /\ now.date = setup.start)
    <2>1. FromEpoch(now.date) = Minutes(g) + 0 * setup.dt_rad
      BY <1>3 DEF ModelAt
    <2>4. setup.dt_rad \in 1 .. 1440
      BY <1>3, SetupIs
    <2>2. PICK k \in 1 .. 1440 : k = setup.dt_rad
      <3> USE <2>4
      <3> WITNESS setup.dt_rad \in 1 .. 1440
      <3> QED
        OBVIOUS
    <2>3. Minutes(g) \in Int
      BY MinutesStep
    <2> QED
      BY <2>1, <2>2, <2>3
  <1> QED
    BY <1>1, <1>2, <1>3

LEMMA GetSlots ==
    ASSUME TypeInv, NEW put \in [Providers -> Nat], NEW g \in Nat, Flow(put, g), Get,
           NEW f \in Fields
    PROVE  SlotInv(put, g, f)'
  <1> DEFINE h == Head(todo)
  <1>0. /\ todo # <<>> /\ todo \in Seq(Fields) /\ todo' = Tail(todo) /\ slot[h] # <<>>
        /\ slot' = [slot EXCEPT ![h] = Tail(@)] /\ slot \in [Fields -> Seq(Data)]
        /\ setup' = setup /\ queue' = queue
    BY DEF Get, TypeInv
  <1>1. SlotInv(put, g, f) /\ Distinct(todo)
    BY DEF Flow
  <1>2. h \in Fields /\ In(todo, h) /\ \A x : In(Tail(todo), x) <=> In(todo, x) /\ x # h
    BY <1>0, <1>1, TailOf, TailOfDistinct
  <1>3. Owner(f)' = Owner(f) /\ \A n, x : RightAt(f, n, x)' <=> RightAt(f, n, x)
    BY <1>0, SetupKept
  <1>4. (queue'[Owner(f)'] # <<>> /\ ~Queued(f)') <=> (queue[Owner(f)] # <<>> /\ ~Queued(f))
    BY <1>0, <1>3 DEF Queued
  <1>5. CASE f # h
    <2>1. Due(f, g)' = Due(f, g)
      BY <1>0, <1>2, <1>5 DEF Due
    <2>2. slot'[f] = slot[f]
      BY <1>0, <1>2, <1>5
    <2> QED
      BY <1>0, <1>1, <1>3, <1>4, <2>1, <2>2 DEF SlotInv
  <1>6. CASE f = h
    <2>1. Due(f, g) = g /\ Due(f, g)' = g + 1
      BY <1>0, <1>2, <1>6 DEF Due
    <2>2. slot[f] \in Seq(Data) /\ slot[f] # <<>> /\ slot'[f] = Tail(slot[f])
      BY <1>0, <1>2, <1>6
    <2>3. /\ Len(slot[f]) \in Nat /\ Len(slot[f]) >= 1 /\ Len(slot'[f]) = Len(slot[f]) - 1
          /\ \A i \in 1 .. Len(slot[f]) - 1 : slot'[f][i] = slot[f][i + 1]
      BY <2>2, TailOf
    <2>4. (g + 1) + Len(slot'[f]) = g + Len(slot[f])
      <3>1. PICK n \in Nat : n = Len(slot[f]) /\ Len(slot'[f]) = n - 1
        BY <2>3
      <3>2. (g + 1) + (n - 1) = g + n
        OBVIOUS
      <3> QED
        BY <3>1, <3>2
    <2>5. ASSUME NEW i \in 1 .. Len(slot'[f])
          PROVE  RightAt(f, (g + 1) + (i - 1), slot'[f][i])
      <3>1. i + 1 \in 1 .. Len(slot[f]) /\ (g + 1) + (i - 1) = g + ((i + 1) - 1)
            /\ slot'[f][i] = slot[f][i + 1]
        BY <2>3
      <3>2. RightAt(f, g + ((i + 1) - 1), slot[f][i + 1])
        BY <1>1, <2>1, <3>1 DEF SlotInv
      <3> QED
        BY <3>1, <3>2
    <2>6. g + Len(slot[f])
            = put[Owner(f)] + (IF queue[Owner(f)] # <<>> /\ ~Queued(f) THEN 1 ELSE 0)
      BY <1>1, <2>1 DEF SlotInv
    <2> QED
      BY <1>0, <1>3, <1>4, <2>1, <2>4, <2>5, <2>6 DEF SlotInv
  <1> QED
    BY <1>5, <1>6

(* What the model gets is the datum of the exchange it counts, and right.  *)
LEMMA GetFlow ==
    ASSUME TypeInv, NEW put \in [Providers -> Nat], NEW g \in Nat, Flow(put, g), Received, Get
    PROVE  Flow(put, g)' /\ Received'
  <1> DEFINE h == Head(todo)
  <1>0. /\ todo # <<>> /\ todo \in Seq(Fields) /\ todo' = Tail(todo) /\ slot[h] # <<>>
        /\ got' = [got EXCEPT ![h] = [date |-> now.date, data |-> Head(slot[h])]]
        /\ slot \in [Fields -> Seq(Data)] /\ DOMAIN got = Fields
        /\ setup' = setup /\ queue' = queue /\ at' = at /\ case' = case /\ now' = now
        /\ setup \in Setups /\ IsDate(now.date)
    BY DEF Get, TypeInv
  <1>1. \A f \in Fields : SlotInv(put, g, f)'
    BY GetSlots
  <1>2. ASSUME NEW r \in Providers
        PROVE  Placed(r, put[r])' /\ Counted(r, put[r])' /\ QueueInv(r, put[r])'
    <2>1. Placed(r, put[r]) /\ Counted(r, put[r]) /\ QueueInv(r, put[r])
      BY DEF Flow
    <2>2. /\ \A f, n, x : RightAt(f, n, x)' <=> RightAt(f, n, x)
          /\ \A f : Owner(f)' = Owner(f)
          /\ Atmosphere' <=> Atmosphere
      BY <1>0, SetupKept
    <2>3. QueueInv(r, put[r])'
      BY <1>0, <2>1, <2>2 DEF QueueInv
    <2> QED
      BY <1>0, <2>1, <2>3, SetupKept DEF Placed, Counted
  <1>3. Distinct(todo) /\ ModelAt(g)
    BY DEF Flow
  <1>4. Distinct(todo')
    BY <1>0, <1>3, TailOfDistinct
  <1>5. ModelAt(g)'
    <2>1. (Nwp' <=> Nwp) /\ Minutes(g)' = Minutes(g)
      BY <1>0, SetupKept
    <2> QED
      BY <1>0, <1>3, <2>1 DEF ModelAt
  <1>6. Flow(put, g)'
    <2>1. Providers' = Providers /\ Fields' = Fields
      BY <1>0, SetupKept
    <2> QED
      BY <1>1, <1>2, <1>4, <1>5, <2>1 DEF Flow
  <1>7. ASSUME NEW f \in Fields, got'[f] # <<>>
        PROVE  Good(f, got'[f].date, got'[f].data)
    <2>1. h \in Fields /\ In(todo, h)
      BY <1>0, <1>3, TailOf, TailOfDistinct
    <2>2. CASE f # h
      <3>1. got'[f] = got[f]
        BY <1>0, <2>1, <2>2
      <3> QED
        BY <1>7, <3>1 DEF Received
    <2>3. CASE f = h
      <3>1. got'[f].date = now.date /\ got'[f].data = Head(slot[f])
        BY <1>0, <2>1, <2>3
      <3>2. FromEpoch(now.date) = Minutes(g)
        BY <1>0, <1>3, ModelTime
      <3>3. SlotInv(put, g, f) /\ Due(f, g) = g
        BY <2>1, <2>3 DEF Flow, Due
      <3>4. Head(slot[f]) = slot[f][1] /\ 1 \in 1 .. Len(slot[f]) /\ g + (1 - 1) = g
        BY <1>0, <2>1, <2>3, TailOf
      <3>5. RightAt(f, g, Head(slot[f]))
        <4>1. RightAt(f, g + (1 - 1), slot[f][1])
          BY <3>3, <3>4 DEF SlotInv
        <4> QED
          BY <3>4, <4>1
      <3> QED
        BY <1>0, <3>1, <3>2, <3>5 DEF RightAt
    <2> QED
      BY <2>2, <2>3
  <1>8. Received'
    <2>1. Fields' = Fields /\ \A f, d, x : Good(f, d, x)' <=> Good(f, d, x)
      BY <1>0, SetupKept
    <2> QED
      BY <1>7, <2>1 DEF Received
  <1> QED
    BY <1>6, <1>8

(* ----------------------------- the model steps ------------------------- *)

LEMMA ConcatThree ==
    ASSUME NEW S, NEW a \in S, NEW b \in S, NEW c \in S
    PROVE  /\ <<a>> \o <<b, c>> \in Seq(S) /\ <<a, b>> \o <<c>> \in Seq(S)
           /\ Len(<<a>> \o <<b, c>>) = 3 /\ Len(<<a, b>> \o <<c>>) = 3
           /\ (<<a>> \o <<b, c>>)[1] = a /\ (<<a, b>> \o <<c>>)[1] = a
           /\ (<<a>> \o <<b, c>>)[2] = b /\ (<<a, b>> \o <<c>>)[2] = b
           /\ (<<a>> \o <<b, c>>)[3] = c /\ (<<a, b>> \o <<c>>)[3] = c
  <1> DEFINE x == <<a>>
             y == <<b, c>>
             u == <<a, b>>
             v == <<c>>
  <1>1. /\ x \in Seq(S) /\ Len(x) = 1 /\ x[1] = a
        /\ y \in Seq(S) /\ Len(y) = 2 /\ y[1] = b /\ y[2] = c
        /\ u \in Seq(S) /\ Len(u) = 2 /\ u[1] = a /\ u[2] = b
        /\ v \in Seq(S) /\ Len(v) = 1 /\ v[1] = c
    OBVIOUS
  <1> HIDE DEF x, y, u, v
  <1>2. /\ x \o y \in Seq(S) /\ Len(x \o y) = 3
        /\ (x \o y)[1] = a /\ (x \o y)[2] = b /\ (x \o y)[3] = c
    <2>1. /\ x \o y \in Seq(S) /\ Len(x \o y) = Len(x) + Len(y)
          /\ \A i \in 1 .. Len(x) + Len(y) :
               (x \o y)[i] = IF i <= Len(x) THEN x[i] ELSE y[i - Len(x)]
      <3>1. x \in Seq(S) /\ y \in Seq(S)
        BY <1>1
      <3> QED
        BY <3>1, ConcatProperties
    <2> QED
      BY <1>1, <2>1
  <1>3. /\ u \o v \in Seq(S) /\ Len(u \o v) = 3
        /\ (u \o v)[1] = a /\ (u \o v)[2] = b /\ (u \o v)[3] = c
    <2>1. /\ u \o v \in Seq(S) /\ Len(u \o v) = Len(u) + Len(v)
          /\ \A i \in 1 .. Len(u) + Len(v) :
               (u \o v)[i] = IF i <= Len(u) THEN u[i] ELSE v[i - Len(u)]
      <3>1. u \in Seq(S) /\ v \in Seq(S)
        BY <1>1
      <3> QED
        BY <3>1, ConcatProperties
    <2> QED
      BY <1>1, <2>1
  <1> QED
    BY <1>2, <1>3 DEF x, y, u, v

DayFields == AeroFields \o <<OzoneField>>

LEMMA GetsAll ==
    ASSUME setup \in Setups, NEW s,
           \/ ~Atmosphere /\ s = [i \in 1 .. Variables + 1 |-> ForcingField(i - 1)]
           \/ Atmosphere /\ (s = <<OzoneField>> \o AeroFields \/ s = AeroFields \o <<OzoneField>>)
    PROVE  s \in Seq(Fields) /\ Distinct(s) /\ \A f \in Fields : In(s, f)
  <1>1. CASE ~Atmosphere
    <2>1. s = [i \in 1 .. Variables + 1 |-> ForcingField(i - 1)] /\ Variables \in Nat
      BY <1>1, ProviderAssumption
    <2>2. /\ \A v \in 0 .. Variables : ForcingField(v) \in Fields
          /\ \A f \in Fields : \E v \in 0 .. Variables : f = ForcingField(v)
      BY <1>1, Owners
    <2>3. \A i \in 1 .. Variables + 1 : ForcingField(i - 1) \in Fields
      BY <2>1, <2>2
    <2>4. s \in Seq(Fields) /\ Len(s) = Variables + 1
      BY <2>1, <2>3
    <2>5. Distinct(s)
      BY <2>1, <2>4 DEF Distinct, ForcingField
    <2>6. ASSUME NEW f \in Fields PROVE In(s, f)
      <3>1. PICK v \in 0 .. Variables : f = ForcingField(v)
        BY <2>2
      <3>2. v + 1 \in 1 .. Variables + 1 /\ (v + 1) - 1 = v
        BY <2>1
      <3> QED
        BY <2>1, <2>4, <3>1, <3>2 DEF In
    <2> QED
      BY <2>4, <2>5, <2>6
  <1>2. CASE Atmosphere
    <2>1. Fields = {CoarseField, FineField, OzoneField}
      BY <1>2, Owners
    <2>2. CASE s = <<OzoneField>> \o AeroFields
      <3>1. s = <<OzoneField>> \o <<CoarseField, FineField>>
        BY <2>2 DEF AeroFields
      <3>2. s \in Seq(Fields) /\ Len(s) = 3 /\ s[1] = OzoneField /\ s[2] = CoarseField
            /\ s[3] = FineField
        BY <2>1, <3>1, ConcatThree
      <3>3. Distinct(s)
        BY <3>2, FieldsDiffer DEF Distinct
      <3>4. \A f \in Fields : In(s, f)
        BY <2>1, <3>2 DEF In
      <3> QED
        BY <3>2, <3>3, <3>4
    <2>3. CASE s = AeroFields \o <<OzoneField>>
      <3>1. s = <<CoarseField, FineField>> \o <<OzoneField>>
        BY <2>3 DEF AeroFields
      <3>2. s \in Seq(Fields) /\ Len(s) = 3 /\ s[3] = OzoneField /\ s[1] = CoarseField
            /\ s[2] = FineField
        BY <2>1, <3>1, ConcatThree
      <3>3. Distinct(s)
        BY <3>2, FieldsDiffer DEF Distinct
      <3>4. \A f \in Fields : In(s, f)
        BY <2>1, <3>2 DEF In
      <3> QED
        BY <3>2, <3>3, <3>4
    <2> QED
      BY <1>2, <2>2, <2>3
  <1> QED
    BY <1>1, <1>2

(* The minutes of the day.                                                 *)
LEMMA MinuteOfDay ==
    ASSUME NEW d, IsDate(d)
    PROVE  d.minute \in Nat /\ d.minute % 1440 = FromEpoch(d) % 1440
  <1>1. /\ d.year \in Int /\ d.month \in Months /\ d.minute \in Nat
    BY DateIs
  <1>2. FromEpoch(d) = Start(d.year, d.month) + d.minute
    BY StartOfMonth
  <1>3. PICK k \in Int : Start(d.year, d.month) = 1440 * k
    <2>1. Start(d.year, d.month) = 1440 * (DaysToYear(d.year) + DaysTo(d.year, d.month))
          /\ DaysToYear(d.year) + DaysTo(d.year, d.month) \in Int
      BY <1>1, StartIs
    <2> QED
      BY <2>1
  <1>4. PICK m \in Nat : m = d.minute
    BY <1>1
  <1>5. FromEpoch(d) = 1440 * k + m
    BY <1>2, <1>3, <1>4
  <1>6. (1440 * k + m) % 1440 = m % 1440
    OBVIOUS
  <1> QED
    BY <1>4, <1>5, <1>6

(* A run of the NWP physics that is in phase starts with day s, and makes  *)
(* time steps of t and radiation steps of r minutes.                       *)
DayMinutes == 1 .. 1440

Phase(s, t, r) ==
  /\ t = setup.dtime /\ r = setup.dt_rad /\ FromEpoch(setup.start) = 1440 * s
  /\ t < r /\ 1440 % r = 0 /\ ~setup.restart

LEMMA PhaseIs ==
    ASSUME setup \in Setups, InPhase, Nwp
    PROVE  \E s \in Int, t \in DayMinutes, r \in DayMinutes : Phase(s, t, r)
  <1>1. /\ setup.start.minute % 1440 = 0 /\ ~setup.restart
        /\ 1440 % setup.dt_rad = 0 /\ setup.dtime < setup.dt_rad
    BY DEF InPhase, Day, Hour
  <1>2. setup.dtime \in DayMinutes /\ setup.dt_rad \in DayMinutes /\ IsDate(setup.start)
        /\ FromEpoch(setup.start) \in Int
    <2>1. Atmosphere
      BY SetupIs
    <2> QED
      BY <2>1, SetupIs DEF DayMinutes
  <1>3. FromEpoch(setup.start) % 1440 = 0
    BY <1>1, <1>2, MinuteOfDay
  <1>4. PICK e \in Int : e = FromEpoch(setup.start)
    BY <1>2
  <1>5. e = 1440 * (e \div 1440) /\ e \div 1440 \in Int
    BY <1>3, <1>4
  <1>6. Phase(e \div 1440, setup.dtime, setup.dt_rad)
    BY <1>1, <1>4, <1>5 DEF Phase
  <1> QED
    BY <1>2, <1>5, <1>6

(* A radiation step after k others of the same day: the next one still is  *)
(* of that day, or it is the first of the next.                            *)
LEMMA RadiationSteps ==
    ASSUME NEW r \in 1 .. 1440, 1440 % r = 0, NEW k \in Nat, (k + 1) * r <= 1440
    PROVE  /\ (k + 2) * r <= 1440 \/ (k + 1) * r = 1440
           /\ (k + 1) * r = k * r + r /\ (k + 2) * r = k * r + r + r /\ k * r \in Nat
  <1>1. (k + 1) * r = k * r + r /\ (k + 2) * r = k * r + r + r /\ k * r \in Nat
    OBVIOUS
  <1> DEFINE j == 1440 \div r
  <1>2. j \in Nat /\ 1440 = j * r
    <2>1. 1440 = (1440 \div r) * r + (1440 % r) /\ 1440 \div r \in Nat
      OBVIOUS
    <2> QED
      BY <2>1
  <1> HIDE DEF j
  <1>3. CASE j >= k + 2
    <2> DEFINE i == j - (k + 2)
    <2>1. i \in Nat /\ j = (k + 2) + i
      BY <1>2, <1>3
    <2> HIDE DEF i
    <2>2. j * r = (k + 2) * r + i * r /\ i * r \in Nat /\ (k + 2) * r \in Nat
      BY <2>1
    <2> QED
      BY <1>1, <1>2, <2>2
  <1>4. CASE j < k + 1
    <2>1. PICK i \in Nat : k = j + i
      <3>1. k - j \in Nat /\ k = j + (k - j)
        BY <1>2, <1>4
      <3> QED
        BY <3>1
    <2>2. (k + 1) * r = j * r + i * r + r /\ i * r \in Nat
      BY <1>2, <2>1
    <2> QED
      BY <1>2, <2>2
  <1>5. CASE j = k + 1
    BY <1>1, <1>2, <1>5
  <1> QED
    BY <1>1, <1>2, <1>3, <1>4, <1>5

(* A day's first radiation step is one that fetches data.                  *)
LEMMA GetsNwp ==
    ASSUME setup \in Setups, Nwp, NEW call, call # 0, NEW d, IsDate(d)
    PROVE  /\ FromEpoch(d) % 1440 < setup.dt_rad => Gets(call, d) = DayFields
           /\ ~(FromEpoch(d) % 1440 < setup.dt_rad) => Gets(call, d) = <<>>
  <1>1. d.minute % 1440 = FromEpoch(d) % 1440
    BY MinuteOfDay
  <1>2. FirstOfDay(d) <=> FromEpoch(d) % 1440 < setup.dt_rad
    BY <1>1 DEF FirstOfDay, Day, Hour
  <1>3. Atmosphere
    BY SetupIs
  <1> QED
    BY <1>2, <1>3 DEF Gets, DayFields

LEMMA Remainder ==
    ASSUME NEW i \in Int, NEW t \in Nat, t < 1440, NEW x, x = 1440 * i + t
    PROVE  x % 1440 = t
  OBVIOUS

(* The model makes a step: to its next exchange, or, with the NWP physics, *)
(* to a radiation step without one.                                        *)
LEMMA NextCall ==
    ASSUME TypeInv, InPhase, NEW g \in Nat, ModelAt(g), Step
    PROVE  /\ now' = [call |-> now'.call, date |-> now'.date] /\ now'.call \in Nat
           /\ IsDate(now'.date) /\ todo' \in Seq(Fields) /\ Distinct(todo')
           /\ \/ ModelAt(g + 1)' /\ \A f \in Fields : In(todo', f)
              \/ ModelAt(g)' /\ todo' = <<>>
  <1>0. /\ now' = CallAfter(now) /\ todo' = Gets(now'.call, now'.date) /\ setup' = setup
        /\ setup \in Setups /\ now.call \in Nat /\ IsDate(now.date)
    BY DEF Step, TypeInv
  <1>1. \A k \in Nat : k <= 1440 =>
          IsDate(Later(now.date, k)) /\ FromEpoch(Later(now.date, k)) = FromEpoch(now.date) + k
    BY <1>0, LaterDate
  <1>2. (Nwp' <=> Nwp) /\ (\A n : Minutes(n)' = Minutes(n)) /\ (Nwp => Atmosphere)
    BY <1>0, SetupKept, SetupIs
  <1>3. CASE ~Atmosphere
    <2>1. now' = [call |-> now.call + 1, date |-> Later(now.date, 60)]
      BY <1>0, <1>2, <1>3 DEF CallAfter, Hour
    <2>2. now'.call = now.call + 1 /\ now'.date = Later(now.date, 60)
      BY <2>1
    <2>3. IsDate(now'.date) /\ FromEpoch(now'.date) = FromEpoch(now.date) + 60
      BY <1>1, <2>2
    <2>4. FromEpoch(now.date) = Minutes(g) /\ Minutes(g + 1) = Minutes(g) + 60
      BY <1>0, <1>2, <1>3, MinutesStep DEF ModelAt
    <2>5. ModelAt(g + 1)'
      BY <1>2, <1>3, <2>3, <2>4 DEF ModelAt
    <2>6. todo' = [i \in 1 .. Variables + 1 |-> ForcingField(i - 1)]
      BY <1>0, <1>2, <1>3 DEF Gets
    <2>7. todo' \in Seq(Fields) /\ Distinct(todo') /\ \A f \in Fields : In(todo', f)
      BY <1>0, <1>3, <2>6, GetsAll
    <2> QED
      BY <1>0, <2>1, <2>2, <2>3, <2>5, <2>7
  <1>4. CASE Atmosphere /\ ~Nwp
    <2>1. now' = [call |-> now.call + 1, date |-> Later(now.date, setup.dt_rad)]
      BY <1>0, <1>4 DEF CallAfter
    <2>2. now'.call = now.call + 1 /\ now'.date = Later(now.date, setup.dt_rad)
      BY <2>1
    <2>3. setup.dt_rad \in Nat /\ setup.dt_rad <= 1440
      <3>1. setup.dt_rad \in 1 .. 1440
        BY <1>0, <1>4, SetupIs
      <3>2. PICK r \in 1 .. 1440 : r = setup.dt_rad
        BY <3>1
      <3>3. r \in Nat /\ r <= 1440
        OBVIOUS
      <3> QED
        BY ONLY <3>2, <3>3
    <2>4. IsDate(now'.date) /\ FromEpoch(now'.date) = FromEpoch(now.date) + setup.dt_rad
      BY <1>1, <2>2, <2>3
    <2>5. FromEpoch(now.date) = Minutes(g) /\ Minutes(g + 1) = Minutes(g) + setup.dt_rad
      BY <1>0, <1>4, MinutesStep DEF ModelAt
    <2>6. ModelAt(g + 1)'
      BY <1>2, <1>4, <2>4, <2>5 DEF ModelAt
    <2>7. todo' = <<OzoneField>> \o AeroFields
      BY <1>0, <1>4 DEF Gets
    <2>8. todo' \in Seq(Fields) /\ Distinct(todo') /\ \A f \in Fields : In(todo', f)
      BY <1>0, <1>4, <2>7, GetsAll
    <2> QED
      BY <1>0, <2>1, <2>2, <2>4, <2>6, <2>8
  <1>5. CASE Nwp
    <2>1. PICK s \in Int, t \in 1 .. 1440, r \in 1 .. 1440 : Phase(s, t, r)
      BY <1>0, <1>5, PhaseIs DEF DayMinutes
    <2>2. t = setup.dtime /\ r = setup.dt_rad /\ ~setup.restart
      BY <2>1 DEF Phase
    <2>day. FromEpoch(setup.start) = 1440 * s
      BY <2>1 DEF Phase
    <2>tr. t < r
      BY <2>1 DEF Phase
    <2>mod. 1440 % r = 0
      BY <2>1 DEF Phase
    <2>3. IsDate(setup.start) /\ Atmosphere
      BY <1>0, <1>5, SetupIs
    <2>all. ASSUME todo' = DayFields
            PROVE  todo' \in Seq(Fields) /\ Distinct(todo') /\ \A f \in Fields : In(todo', f)
      <3>1. ASSUME NEW s1, s1 = DayFields
            PROVE  s1 \in Seq(Fields) /\ Distinct(s1) /\ \A f \in Fields : In(s1, f)
        <4>1. s1 = AeroFields \o <<OzoneField>>
          BY <3>1 DEF DayFields
        <4>2. s1 = <<OzoneField>> \o AeroFields \/ s1 = AeroFields \o <<OzoneField>>
          BY <4>1
        <4> QED
          BY ONLY <1>0, <2>3, <4>2, GetsAll
      <3> QED
        BY <2>all, <3>1
    <2>4. CASE now.call = 0
      <3>1. now' = [call |-> 1, date |-> setup.start]
        BY <1>0, <1>5, <2>2, <2>3, <2>4 DEF CallAfter
      <3>2. now'.call = 1 /\ now'.date = setup.start
        BY <3>1
      <3>3. todo' = DayFields
        <4>1. FromEpoch(setup.start) = 1440 * s + 0
          BY <2>day
        <4>2. 0 < r /\ 0 \in Nat /\ 1 \in Nat \ {0} /\ 0 < 1440
          OBVIOUS
        <4>3. FromEpoch(setup.start) % 1440 = 0
          BY <4>1, <4>2, Remainder
        <4>4. FromEpoch(setup.start) % 1440 < setup.dt_rad
          BY <2>2, <4>2, <4>3
        <4> QED
          BY <1>0, <1>5, <2>3, <3>2, <4>2, <4>4, GetsNwp
      <3>4. g = 0
        BY <1>5, <2>4 DEF ModelAt
      <3>5. ModelAt(g + 1)'
        BY <1>0, <1>2, <1>5, <3>2, <3>4 DEF ModelAt
      <3> QED
        BY <2>3, <2>all, <3>1, <3>2, <3>3, <3>5
    <2>5. CASE now.call = 1
      <3>1. now' = [call |-> 2, date |-> Later(setup.start, t)]
        BY <1>0, <1>5, <2>2, <2>3, <2>5 DEF CallAfter
      <3>2. now'.call = 2 /\ now'.date = Later(setup.start, t)
        BY <3>1
      <3>3. IsDate(now'.date) /\ FromEpoch(now'.date) = FromEpoch(setup.start) + t
        <4>1. t \in Nat /\ t <= 1440
          OBVIOUS
        <4>2. IsDate(Later(setup.start, t)) /\ FromEpoch(Later(setup.start, t)) = FromEpoch(setup.start) + t
          BY ONLY <2>3, <4>1, LaterDate
        <4> QED
          BY ONLY <3>2, <4>2
      <3>4. todo' = DayFields
        <4>1. FromEpoch(now'.date) = 1440 * s + t
          BY <2>day, <3>3
        <4>2. t < 1440 /\ t \in Nat /\ 2 \in Nat \ {0}
          BY <2>tr
        <4>3. FromEpoch(now'.date) % 1440 = t
          BY <4>1, <4>2, Remainder
        <4>4. FromEpoch(now'.date) % 1440 < setup.dt_rad
          BY <2>2, <2>tr, <4>3
        <4> QED
          BY <1>0, <1>5, <3>2, <3>3, <4>2, <4>4, GetsNwp
      <3>5. g = 1
        BY <1>5, <2>5 DEF ModelAt
      <3>6. FromEpoch(now'.date) = Minutes(2) + 0 * r /\ (0 + 1) * r <= 1440
        <4>1. Minutes(2) = FromEpoch(setup.start) + setup.dtime + (2 - 2) * 1440
          BY <1>0, <1>5, MinutesStep
        <4>2. Minutes(2) = 1440 * s + t + (2 - 2) * 1440
          BY <2>2, <2>day, <4>1
        <4>3. FromEpoch(now'.date) = 1440 * s + t
          BY <2>day, <3>3
        <4>4. (2 - 2) * 1440 = 0 /\ 0 * r = 0 /\ (0 + 1) * r <= 1440
          OBVIOUS
        <4> QED
          BY <4>2, <4>3, <4>4
      <3>7. ModelAt(g + 1)'
        <4>1. (setup.dt_rad)' = r /\ g + 1 = 2 /\ Minutes(2)' = Minutes(2) /\ now'.call >= 2
          BY <1>0, <1>2, <2>2, <3>2, <3>5
        <4>2. \E k \in Nat : /\ FromEpoch(now'.date) = Minutes(2) + k * r
                             /\ (k + 1) * r <= 1440
                             /\ todo' # <<>> => k = 0
          BY <3>6
        <4> QED
          BY <1>2, <1>5, <4>1, <4>2 DEF ModelAt, Day, Hour
      <3> QED
        BY <2>all, <3>1, <3>2, <3>3, <3>4, <3>7
    <2>6. CASE now.call >= 2
      <3>1. now' = [call |-> now.call + 1, date |-> Later(now.date, r)]
        BY <1>0, <1>5, <2>2, <2>3, <2>6 DEF CallAfter
      <3>2. now'.call = now.call + 1 /\ now'.date = Later(now.date, r)
        BY <3>1
      <3>3. IsDate(now'.date) /\ FromEpoch(now'.date) = FromEpoch(now.date) + r
        <4>1. r \in Nat /\ r <= 1440
          OBVIOUS
        <4> QED
          BY ONLY <1>1, <3>2, <4>1
      <3>4. g >= 2 /\ \E k \in Nat : FromEpoch(now.date) = Minutes(g) + k * r /\ (k + 1) * r <= 1440
        BY <1>5, <2>2, <2>6 DEF ModelAt, Day, Hour
      <3>5. PICK k \in Nat : FromEpoch(now.date) = Minutes(g) + k * r /\ (k + 1) * r <= 1440
        BY <3>4
      <3>6. /\ (k + 2) * r <= 1440 \/ (k + 1) * r = 1440
            /\ (k + 1) * r = k * r + r /\ (k + 2) * r = k * r + r + r /\ k * r \in Nat
        <4>1. r \in 1 .. 1440 /\ k \in Nat /\ (k + 1) * r <= 1440
          BY ONLY <2>1, <3>5
        <4> QED
          BY ONLY <2>mod, <4>1, RadiationSteps, SMTT(30)
      <3>7. Minutes(g) = FromEpoch(setup.start) + setup.dtime + (g - 2) * 1440
            /\ Minutes(g + 1) = Minutes(g) + 1440 /\ Minutes(g) \in Int
        BY <1>0, <1>5, <3>4, MinutesStep
      <3>8. PICK m \in Nat : m = k * r
        BY <3>6
      <3>9. FromEpoch(now'.date) = Minutes(g) + m + r
        BY <3>3, <3>5, <3>7, <3>8
      <3>10. now'.call \in Nat \ {0} /\ now'.call >= 2 /\ todo' = Gets(now'.call, now'.date)
             /\ (setup.dt_rad)' = r
        BY <1>0, <2>2, <2>6, <3>2
      <3>11. PICK i \in Int : Minutes(g) = 1440 * i + t
        <4> DEFINE i == s + g - 2
        <4>1. i \in Int
          OBVIOUS
        <4>2. Minutes(g) = 1440 * s + t + (g - 2) * 1440
          BY <2>2, <2>day, <3>7
        <4>3. 1440 * s + t + (g - 2) * 1440 = 1440 * i + t
          OBVIOUS
        <4> HIDE DEF i
        <4> QED
          BY <4>1, <4>2, <4>3
      <3>12. CASE (k + 1) * r = 1440
        <4>1. m + r = 1440
          BY <3>6, <3>8, <3>12
        <4>2. FromEpoch(now'.date) = Minutes(g) + 1440
          <5>1. PICK n \in Int : n = Minutes(g)
            BY <3>7
          <5>2. PICK l \in 1 .. 1440 : l = r
            OBVIOUS
          <5>3. FromEpoch(now'.date) = n + m + l /\ m + l = 1440
            BY <3>9, <4>1, <5>1, <5>2
          <5>4. n + m + l = n + 1440
            BY <5>3
          <5> QED
            BY <5>1, <5>3, <5>4
        <4>3. FromEpoch(now'.date) = 1440 * (i + 1) + t
          BY <3>11, <4>2
        <4>4. t < 1440 /\ t \in Nat /\ i + 1 \in Int
          BY <2>tr
        <4>5. todo' = DayFields
          <5>1. FromEpoch(now'.date) % 1440 = t
            BY <4>3, <4>4, Remainder
          <5>2. FromEpoch(now'.date) % 1440 < setup.dt_rad
            BY <2>2, <2>tr, <5>1
          <5>3. now'.call # 0
            BY <3>10
          <5> QED
            BY <1>0, <1>5, <3>3, <3>10, <5>2, <5>3, GetsNwp
        <4>6. FromEpoch(now'.date) = Minutes(g + 1) + 0 * r /\ (0 + 1) * r <= 1440
          <5>1. 0 * r = 0 /\ (0 + 1) * r <= 1440
            OBVIOUS
          <5> QED
            BY <3>7, <4>2, <5>1
        <4>7. ModelAt(g + 1)'
          <5>1. \E n \in Nat : /\ FromEpoch(now'.date) = Minutes(g + 1) + n * r
                               /\ (n + 1) * r <= 1440
                               /\ todo' # <<>> => n = 0
            BY <4>6
          <5>2. g + 1 >= 2 /\ Minutes(g + 1)' = Minutes(g + 1)
            BY <1>2, <3>4
          <5> QED
            BY <1>2, <1>5, <3>10, <5>1, <5>2 DEF ModelAt, Day, Hour
        <4> QED
          BY <2>all, <3>1, <3>2, <3>3, <3>10, <4>5, <4>7
      <3>13. CASE (k + 1) * r # 1440
        <4>1. m + r + r <= 1440
          BY <3>6, <3>8, <3>13
        <4>2. PICK u \in Nat : u = m + r + t
          OBVIOUS
        <4>3. u < 1440 /\ ~(u < r)
          BY <2>tr, <4>1, <4>2
        <4>4. FromEpoch(now'.date) = 1440 * i + u
          BY <3>9, <3>11, <4>2
        <4>5. todo' = <<>>
          <5>1. FromEpoch(now'.date) % 1440 = u
            BY <4>3, <4>4, Remainder
          <5>2. ~(FromEpoch(now'.date) % 1440 < setup.dt_rad)
            BY <2>2, <4>3, <5>1
          <5>3. now'.call # 0
            BY <3>10
          <5> QED
            BY <1>0, <1>5, <3>3, <3>10, <5>2, <5>3, GetsNwp
        <4>6. FromEpoch(now'.date) = Minutes(g) + (k + 1) * r /\ ((k + 1) + 1) * r <= 1440
          <5>1. (k + 1) * r = m + r
            BY <3>6, <3>8
          <5>2. (k + 1) + 1 = k + 2
            OBVIOUS
          <5>3. ((k + 1) + 1) * r <= 1440
            BY <3>6, <3>8, <4>1, <5>2
          <5>4. FromEpoch(now'.date) = Minutes(g) + (m + r)
            BY <3>7, <3>9
          <5> QED
            BY <5>1, <5>3, <5>4
        <4>7. ModelAt(g)'
          <5>1. \E n \in Nat : /\ FromEpoch(now'.date) = Minutes(g) + n * r
                               /\ (n + 1) * r <= 1440
                               /\ todo' # <<>> => n = 0
            <6>1. PICK n \in Nat : n = k + 1
              OBVIOUS
            <6>2. FromEpoch(now'.date) = Minutes(g) + n * r /\ (n + 1) * r <= 1440
              BY <4>6, <6>1
            <6> QED
              BY <4>5, <6>2
          <5>2. Minutes(g)' = Minutes(g)
            BY <1>2
          <5> QED
            BY <1>2, <1>5, <3>4, <3>10, <5>1, <5>2 DEF ModelAt, Day, Hour
        <4>8. todo' \in Seq(Fields) /\ Distinct(todo')
          <5>1. <<>> \in Seq(Fields) /\ Len(<<>>) = 0
            BY EmptySeq
          <5> QED
            BY <4>5, <5>1 DEF Distinct
        <4> QED
          BY <3>1, <3>2, <3>3, <3>10, <4>5, <4>7, <4>8
      <3> QED
        BY <3>12, <3>13
    <2> QED
      BY <1>0, <2>4, <2>5, <2>6
  <1> QED
    BY <1>3, <1>4, <1>5

(* A step asks for every field once more, or for none.                     *)
LEMMA StepFlow ==
    ASSUME TypeInv, InPhase, NEW put \in [Providers -> Nat], NEW g \in Nat, Flow(put, g), Step
    PROVE  \E h \in Nat : Flow(put, h)'
  <1>0. /\ todo = <<>> /\ setup' = setup /\ setup \in Setups
        /\ UNCHANGED <<status, at, case, queue, cache, slot, got>>
    BY DEF Step, TypeInv
  <1>1. ModelAt(g)
    BY DEF Flow
  <1>2. Distinct(todo') /\ \/ ModelAt(g + 1)' /\ \A f \in Fields : In(todo', f)
                           \/ ModelAt(g)' /\ todo' = <<>>
    BY <1>1, NextCall
  <1>3. ASSUME NEW r \in Providers
        PROVE  Placed(r, put[r])' /\ Counted(r, put[r])' /\ QueueInv(r, put[r])'
    <2>1. Placed(r, put[r]) /\ Counted(r, put[r]) /\ QueueInv(r, put[r])
      BY DEF Flow
    <2>2. /\ \A f, n, x : RightAt(f, n, x)' <=> RightAt(f, n, x)
          /\ \A f : Owner(f)' = Owner(f)
          /\ Atmosphere' <=> Atmosphere
      BY <1>0, SetupKept
    <2>3. QueueInv(r, put[r])'
      BY <1>0, <2>1, <2>2 DEF QueueInv
    <2> QED
      BY <1>0, <2>1, <2>3, SetupKept DEF Placed, Counted
  <1>4. \A f : ~In(todo, f)
    <2>1. Len(<<>>) = 0
      BY EmptySeq
    <2> QED
      BY <1>0, <2>1 DEF In
  <1>5. ASSUME NEW h \in Nat,
               \/ h = g + 1 /\ \A f \in Fields : In(todo', f)
               \/ h = g /\ todo' = <<>>,
               NEW f \in Fields
        PROVE  SlotInv(put, h, f)'
    <2>1. Due(f, g) = g + 1
      BY <1>4 DEF Due
    <2>2. Due(f, h)' = g + 1
      <3>1. CASE h = g + 1 /\ \A e \in Fields : In(todo', e)
        BY <3>1 DEF Due
      <3>2. CASE h = g /\ todo' = <<>>
        <4>1. ~In(todo', f)
          <5>1. Len(<<>>) = 0
            BY EmptySeq
          <5> QED
            BY <3>2, <5>1 DEF In
        <4> QED
          BY <3>2, <4>1 DEF Due
      <3> QED
        BY <1>5, <3>1, <3>2
    <2>3. SlotInv(put, g, f)
      BY DEF Flow
    <2>4. Owner(f)' = Owner(f) /\ \A n, x : RightAt(f, n, x)' <=> RightAt(f, n, x)
      BY <1>0, SetupKept
    <2>5. Queued(f)' <=> Queued(f)
      BY <1>0, <2>4 DEF Queued
    <2> QED
      BY <1>0, <2>1, <2>2, <2>3, <2>4, <2>5 DEF SlotInv
  <1>6. Providers' = Providers /\ Fields' = Fields
    BY <1>0, SetupKept
  <1>7. ASSUME NEW h \in Nat,
               \/ h = g + 1 /\ \A f \in Fields : In(todo', f)
               \/ h = g /\ todo' = <<>>,
               ModelAt(h)'
        PROVE  Flow(put, h)'
    <2>1. \A f \in Fields : SlotInv(put, h, f)'
      BY <1>5, <1>7
    <2> QED
      BY <1>2, <1>3, <1>6, <1>7, <2>1 DEF Flow
  <1>8. CASE ModelAt(g + 1)' /\ \A f \in Fields : In(todo', f)
    <2>1. g + 1 \in Nat
      OBVIOUS
    <2>2. PICK h \in Nat : h = g + 1
      BY <2>1
    <2>3. ModelAt(h)'
      BY <1>8, <2>2
    <2> QED
      BY <1>7, <1>8, <2>2, <2>3
  <1>9. CASE ModelAt(g)' /\ todo' = <<>>
    BY <1>7, <1>9
  <1> QED
    BY <1>2, <1>8, <1>9

(* ------------------------------- data and types ------------------------ *)

(* Setup, providers and fields of a state are those of the next one.       *)
LEMMA TypeStep ==
    ASSUME TypeInv, setup' = setup, DOMAIN at' = Providers, DOMAIN got' = Fields,
           status' \in [Providers -> {"running", "ended", "failed"}],
           case' \in [Providers -> 1 .. 3], queue' \in [Providers -> Seq(Item)],
           slot' \in [Fields -> Seq(Data)], todo' \in Seq(Fields),
           now' = [call |-> now'.call, date |-> now'.date], now'.call \in Nat, IsDate(now'.date)
    PROVE  TypeInv'
  <1>1. Providers' = Providers /\ Fields' = Fields /\ Item' = Item
    BY SetupKept
  <1> QED
    BY <1>1 DEF TypeInv

LEMMA PutTypes ==
    ASSUME TypeInv, NEW p \in Providers, Put(p)
    PROVE  TypeInv'
  <1>0. /\ queue[p] # <<>> /\ queue \in [Providers -> Seq(Item)] /\ slot \in [Fields -> Seq(Data)]
        /\ queue' = [queue EXCEPT ![p] = Tail(@)] /\ setup' = setup
        /\ slot' = [slot EXCEPT ![Head(queue[p]).field] = Append(@, Head(queue[p]).data)]
        /\ UNCHANGED <<status, now, todo, got>> /\ DOMAIN at = Providers
        /\ case \in [Providers -> 1 .. 3]
    BY DEF Put, TypeInv
  <1>1. Head(queue[p]) \in Item /\ Tail(queue[p]) \in Seq(Item)
    BY <1>0, TailOf
  <1>2. Head(queue[p]).field \in Fields /\ Head(queue[p]).data \in Data
    BY <1>1 DEF Item
  <1>3. queue' \in [Providers -> Seq(Item)]
    BY <1>0, <1>1
  <1>4. slot' \in [Fields -> Seq(Data)]
    <2>1. Append(slot[Head(queue[p]).field], Head(queue[p]).data) \in Seq(Data)
      BY <1>0, <1>2, AppendOf
    <2> QED
      BY <1>0, <1>2, <2>1
  <1>5. DOMAIN at' = Providers
    BY <1>0 DEF Put
  <1>6. case' \in [Providers -> 1 .. 3]
    <2>1. CASE Len(queue[p]) = 1
      <3>1. case' = [case EXCEPT ![p] = IF Nwp /\ case[p] < 3 THEN case[p] + 1 ELSE case[p]]
        BY <2>1 DEF Put
      <3>2. case[p] \in 1 .. 3
        BY <1>0
      <3>3. (IF Nwp /\ case[p] < 3 THEN case[p] + 1 ELSE case[p]) \in 1 .. 3
        BY <3>2
      <3> QED
        BY <1>0, <3>1, <3>3
    <2>2. CASE Len(queue[p]) # 1
      BY <1>0, <2>2 DEF Put
    <2> QED
      BY <2>1, <2>2
  <1> QED
    BY <1>0, <1>3, <1>4, <1>5, <1>6, TypeStep DEF TypeInv

LEMMA GetTypes ==
    ASSUME TypeInv, Get
    PROVE  TypeInv'
  <1>0. /\ todo # <<>> /\ todo \in Seq(Fields) /\ todo' = Tail(todo) /\ slot[Head(todo)] # <<>>
        /\ slot \in [Fields -> Seq(Data)] /\ slot' = [slot EXCEPT ![Head(todo)] = Tail(@)]
        /\ setup' = setup /\ UNCHANGED <<status, at, case, queue, cache, now>>
    BY DEF Get, TypeInv
  <1>1. Head(todo) \in Fields /\ Tail(todo) \in Seq(Fields)
    BY <1>0, TailOf
  <1>2. slot' \in [Fields -> Seq(Data)]
    <2>1. Tail(slot[Head(todo)]) \in Seq(Data)
      BY <1>0, <1>1, TailOf
    <2> QED
      BY <1>0, <1>1, <2>1
  <1>3. DOMAIN got' = Fields
    BY DEF Get, TypeInv
  <1> QED
    BY <1>0, <1>1, <1>2, <1>3, TypeStep DEF TypeInv

(* --------------------------- the ocean's forcing ------------------------ *)

(* The hour of a year determines the date.                                 *)
LEMMA HourGivesYear ==
    ASSUME NEW y \in Int, NEW h \in Nat, h < HoursIn(y), NEW d, IsDate(d),
           FromEpoch(d) = Start(y, 1) + 60 * h
    PROVE  d.year = y /\ HourOfYear(d) = h
  <1>1. d.year \in Int /\ 1 \in Months
    BY DateIs DEF Months
  <1>2. /\ HourOfYear(d) = (FromEpoch(d) - Start(d.year, 1)) \div 60
        /\ Start(d.year, 1) <= FromEpoch(d) /\ FromEpoch(d) < Start(d.year + 1, 1)
    BY HourOfDate
  <1>3. /\ Start(y + 1, 1) = Start(y, 1) + 60 * HoursIn(y) /\ Start(y, 1) \in Int
        /\ HoursIn(y) \in Nat
    BY FirstOfYear
  <1>4. Start(y, 1) <= FromEpoch(d) /\ FromEpoch(d) < Start(y + 1, 1)
    BY <1>3
  <1>5. ASSUME NEW a \in Int, NEW b \in Int, a < b
        PROVE  Start(a + 1, 1) <= Start(b, 1)
    <2>1. CASE b = a + 1
      <3>1. Start(b, 1) \in Int
        BY FirstOfYear
      <3> QED
        BY <2>1, <3>1
    <2>2. CASE b # a + 1
      <3>1. a + 1 \in Int /\ a + 1 < b
        BY <1>5, <2>2
      <3>2. Start(a + 1, 1) + Length(a + 1, 1) <= Start(b, 1)
        BY <1>1, <3>1, MonthsApart
      <3>3. Start(a + 1, 1) \in Int /\ Start(b, 1) \in Int /\ Length(a + 1, 1) \in Nat
        BY <1>1, <3>1, FirstOfYear, LengthIs
      <3> QED
        BY <3>2, <3>3
    <2> QED
      BY <2>1, <2>2
  <1>6. FromEpoch(d) \in Int /\ Start(d.year, 1) \in Int /\ Start(d.year + 1, 1) \in Int
        /\ Start(y + 1, 1) \in Int
    <2>1. d.year + 1 \in Int /\ y + 1 \in Int
      BY <1>1
    <2> QED
      BY <1>1, <2>1, StartOfMonth, FirstOfYear
  <1>7. d.year = y
    <2>1. ~(d.year < y)
      <3>1. SUFFICES ASSUME d.year < y PROVE FALSE
        OBVIOUS
      <3>2. Start(d.year + 1, 1) <= Start(y, 1)
        BY <1>1, <1>5, <3>1
      <3> QED
        BY <1>2, <1>3, <1>4, <1>6, <3>2
    <2>2. ~(y < d.year)
      <3>1. SUFFICES ASSUME y < d.year PROVE FALSE
        OBVIOUS
      <3>2. Start(y + 1, 1) <= Start(d.year, 1)
        BY <1>1, <1>5, <3>1
      <3> QED
        BY <1>2, <1>4, <1>6, <3>2
    <2> QED
      BY <1>1, <2>1, <2>2
  <1>8. HourOfYear(d) = h
    <2>1. PICK s \in Int : s = Start(y, 1)
      BY <1>3
    <2>2. HourOfYear(d) = ((s + 60 * h) - s) \div 60
      BY <1>2, <1>7, <2>1
    <2>3. ((s + 60 * h) - s) \div 60 = h
      OBVIOUS
    <2> QED
      BY <2>2, <2>3
  <1> QED
    BY <1>7, <1>8

LEMMA ForcingIsGood ==
    ASSUME setup \in Setups, ~Atmosphere, NEW n \in Nat, NEW a, AtHour(a, Minutes(n)),
           NEW v \in 0 .. Variables
    PROVE  ForcingData(v, a) \in Data /\ RightAt(ForcingField(v), n, ForcingData(v, a))
  <1>1. /\ a \in [year : Int, hour : Nat] /\ a.year \in Int /\ a.hour \in Nat
        /\ a.hour < HoursIn(a.year) /\ Start(a.year, 1) + 60 * a.hour = Minutes(n)
    BY DEF AtHour, Hour
  <1>2. ForcingData(v, a) \in Data
    <2>1. CASE v = Runoff
      <3>1. RunoffDay(a.year, a.hour) \in Int
        BY <1>1 DEF RunoffDay
      <3>2. ForcingData(v, a) = [day |-> RunoffDay(a.year, a.hour)]
        BY <2>1 DEF ForcingData
      <3> QED
        BY <3>1, <3>2 DEF Data
    <2>2. CASE v # Runoff
      <3>1. ForcingData(v, a) = [year |-> a.year, hour |-> a.hour]
        BY <2>2 DEF ForcingData
      <3>2. [year |-> a.year, hour |-> a.hour] \in [year : Int, hour : Int]
        BY <1>1
      <3> QED
        BY <3>1, <3>2 DEF Data
    <2> QED
      BY <2>1, <2>2
  <1>3. ASSUME NEW d, IsDate(d), FromEpoch(d) = Minutes(n)
        PROVE  Good(ForcingField(v), d, ForcingData(v, a))
    <2>1. d.year = a.year /\ HourOfYear(d) = a.hour
      BY <1>1, <1>3, HourGivesYear
    <2>2. CASE v = Runoff
      <3>1. ForcingData(v, a).day = RunoffDay(a.year, a.hour)
        BY <2>2 DEF ForcingData
      <3>2. OnLeapDay(d) \/ RunoffDay(a.year, a.hour) = CommonDay(d)
        <4>1. PICK k \in Nat : k = a.hour \div 24
          BY <1>1
        <4>2. RunoffDay(a.year, a.hour) = IF Leap(a.year) /\ k > 59 THEN k - 1 ELSE k
          BY <4>1 DEF RunoffDay
        <4> QED
          BY <1>3, <2>1, <4>1, <4>2, DayOfDate
      <3> QED
        BY <2>2, <3>1, <3>2 DEF Good
    <2>3. CASE v # Runoff
      <3>1. ForcingData(v, a) = [year |-> d.year, hour |-> HourOfYear(d)]
        BY <2>1, <2>3 DEF ForcingData
      <3>2. ForcingField(v) # ForcingField(Runoff)
        BY <2>3 DEF ForcingField
      <3> QED
        BY <3>1, <3>2 DEF Good
    <2> QED
      BY <2>2, <2>3
  <1> QED
    BY <1>2, <1>3 DEF RightAt

(* A rank sends its own fields, each of them once.                         *)
LEMMA ForcingOrder ==
    ASSUME NEW r \in 0 .. Ranks - 1, NEW order \in SetToSeqs(OwnFields(r) \ {Runoff}),
           NEW s, s = order \o (IF r = 0 THEN <<Runoff>> ELSE <<>>)
    PROVE  /\ s \in Seq(OwnFields(r)) /\ DOMAIN s = 1 .. Len(s)
           /\ Distinct(s) /\ \A v \in OwnFields(r) : In(s, v)
  <1> DEFINE own == OwnFields(r) \ {Runoff}
             n == Cardinality(own)
             runoff == IF r = 0 THEN <<Runoff>> ELSE <<>>
  <1>1. IsFiniteSet(own) /\ n \in Nat
    <2>1. own \in SUBSET (0 .. Variables)
      BY ProviderAssumption DEF OwnFields, Runoff
    <2>2. IsFiniteSet(0 .. Variables)
      BY ProviderAssumption, FS_Interval
    <2> HIDE DEF own
    <2>3. IsFiniteSet(own)
      BY <2>1, <2>2, FS_Subset
    <2> QED
      BY <2>3, FS_CardinalityType
  <1>2. order \in [1 .. n -> own] /\ \A i, j \in 1 .. n : i # j => order[i] # order[j]
    BY DEF SetToSeqs
  <1> HIDE DEF own, n
  <1>3. \A v \in own : \E i \in 1 .. n : order[i] = v
    <2>1. order \in Injection(1 .. n, own)
      BY <1>2 DEF Injection, IsInjective
    <2>2. Cardinality(1 .. n) = n
      BY <1>1, FS_Interval
    <2>3. order \in Surjection(1 .. n, own)
      BY <1>1, <2>1, <2>2, FS_Injection DEF n
    <2> QED
      BY <2>3 DEF Surjection
  <1>4. order \in Seq(own) /\ Len(order) = n
    BY <1>1, <1>2
  <1>5. own \subseteq OwnFields(r) /\ Runoff \notin own /\ (\A v \in OwnFields(r) : v = Runoff \/ v \in own)
    BY DEF own
  <1>6. order \in Seq(OwnFields(r))
    BY <1>4, <1>5, SeqMonotonic
  <1>7. CASE r = 0
    <2> DEFINE z == <<Runoff>>
    <2>1. s = order \o z
      BY <1>7
    <2>2. z \in Seq(OwnFields(r)) /\ Len(z) = 1 /\ z[1] = Runoff
      BY <1>7 DEF OwnFields
    <2> HIDE DEF z
    <2>3. /\ s \in Seq(OwnFields(r)) /\ Len(s) = Len(order) + Len(z)
          /\ \A i \in 1 .. Len(order) + Len(z) :
               s[i] = IF i <= Len(order) THEN order[i] ELSE z[i - Len(order)]
      BY <1>6, <2>1, <2>2, ConcatProperties
    <2>4. Len(s) = n + 1 /\ (\A i \in 1 .. n : s[i] = order[i]) /\ s[n + 1] = Runoff
      BY <1>1, <1>4, <2>2, <2>3
    <2>5. Distinct(s)
      <3>1. SUFFICES ASSUME NEW i \in 1 .. n + 1, NEW j \in 1 .. n + 1, s[i] = s[j] PROVE i = j
        BY <2>4 DEF Distinct
      <3>2. CASE i \in 1 .. n /\ j \in 1 .. n
        BY <1>2, <2>4, <3>1, <3>2
      <3>3. CASE i = n + 1 /\ j \in 1 .. n
        <4>1. s[j] \in own
          BY <1>2, <2>4, <3>3
        <4> QED
          BY <1>5, <2>4, <3>1, <3>3, <4>1
      <3>4. CASE j = n + 1 /\ i \in 1 .. n
        <4>1. s[i] \in own
          BY <1>2, <2>4, <3>4
        <4> QED
          BY <1>5, <2>4, <3>1, <3>4, <4>1
      <3> QED
        BY <1>1, <3>2, <3>3, <3>4
    <2>6. \A v \in OwnFields(r) : In(s, v)
      <3>1. SUFFICES ASSUME NEW v \in OwnFields(r) PROVE In(s, v)
        OBVIOUS
      <3>2. CASE v = Runoff
        BY <1>1, <2>4, <3>2 DEF In
      <3>3. CASE v \in own
        <4>1. PICK i \in 1 .. n : order[i] = v
          BY <1>3, <3>3
        <4>2. i \in 1 .. Len(s) /\ s[i] = v
          BY <1>1, <2>4, <4>1
        <4> QED
          BY <4>2 DEF In
      <3> QED
        BY <1>5, <3>2, <3>3
    <2> QED
      BY <2>3, <2>5, <2>6, LenProperties
  <1>8. CASE r # 0
    <2>1. s = order \o <<>>
      BY <1>8
    <2>2. s = order
      BY <1>6, <2>1, ConcatEmptySeq
    <2>3. Distinct(s)
      BY <1>2, <1>4, <2>2 DEF Distinct
    <2>4. \A v \in OwnFields(r) : v \in own
      BY <1>8 DEF own, OwnFields, Runoff
    <2>5. \A v \in OwnFields(r) : In(s, v)
      BY <1>3, <1>4, <2>2, <2>4 DEF In
    <2> QED
      BY <1>6, <2>2, <2>3, <2>5, LenProperties
  <1> QED
    BY <1>7, <1>8

(* A rank owns the fields that it sends, and no other.                     *)
LEMMA OwnerOfForcing ==
    ASSUME ~Atmosphere, NEW r \in 0 .. Ranks - 1, NEW v \in 0 .. Variables
    PROVE  v \in OwnFields(r) <=> Owner(ForcingField(v)) = Rank(r)
  <1>1. Owner(ForcingField(v)) = Rank(IF v = Runoff THEN 0 ELSE v % Ranks)
    BY Owners
  <1>2. \A i, j : Rank(i) = Rank(j) <=> i = j
    BY DEF Rank
  <1>3. Owner(ForcingField(v)) = Rank(r) <=> (IF v = Runoff THEN 0 ELSE v % Ranks) = r
    BY <1>1, <1>2
  <1>4. v \in OwnFields(r) <=> (IF v = Runoff THEN 0 ELSE v % Ranks) = r
    BY ProviderAssumption DEF OwnFields, Runoff
  <1> QED
    BY <1>3, <1>4

LEMMA ReadForcingFlow ==
    ASSUME TypeInv, NEW put \in [Providers -> Nat], NEW g \in Nat, Flow(put, g),
           NEW r \in 0 .. Ranks - 1, ReadForcing(r)
    PROVE  TypeInv' /\ Flow(put, g)'
  <1> DEFINE p == Rank(r)
             runoff == IF r = 0 THEN <<Runoff>> ELSE <<>>
  <1>0. /\ setup \in Setups /\ queue \in [Providers -> Seq(Item)]
    BY DEF TypeInv
  <1>1. /\ p \in Providers /\ queue[p] = <<>> /\ ~Over(p)
        /\ UNCHANGED <<setup, status, at, case, cache, slot, now, todo, got>>
    BY DEF ReadForcing, CanRead
  <1>2. ~Atmosphere
    <2>1. SUFFICES ASSUME Atmosphere PROVE FALSE
      OBVIOUS
    <2>2. p = Aero \/ p = Ozone
      BY <1>1, <2>1, Owners
    <2> QED
      BY <2>2 DEF Rank, Aero, Ozone
  <1>3. ~ForcingOver(at[p], setup.end)
    BY <1>1, <1>2 DEF Over
  <1>4. AtHour(at[p], Minutes(put[p]))
    BY <1>1, <1>2, <1>3 DEF Flow, Placed
  <1>5. PICK order \in SetToSeqs(OwnFields(r) \ {Runoff}) :
          queue' = [queue EXCEPT ![p] =
                      [i \in DOMAIN (order \o runoff) |->
                         [field |-> ForcingField((order \o runoff)[i]),
                          data |-> ForcingData((order \o runoff)[i], at[p])]]]
    BY DEF ReadForcing
  <1>6. PICK s : s = order \o runoff
    OBVIOUS
  <1>7. /\ s \in Seq(OwnFields(r)) /\ DOMAIN s = 1 .. Len(s) /\ Len(s) \in Nat
        /\ Distinct(s) /\ \A v \in OwnFields(r) : In(s, v)
    <2>1. /\ s \in Seq(OwnFields(r)) /\ DOMAIN s = 1 .. Len(s)
          /\ Distinct(s) /\ \A v \in OwnFields(r) : In(s, v)
      BY <1>6, ForcingOrder
    <2> QED
      BY <2>1, LenProperties
  <1> DEFINE q == [i \in 1 .. Len(s) |-> [field |-> ForcingField(s[i]), data |-> ForcingData(s[i], at[p])]]
  <1>8. queue' = [queue EXCEPT ![p] = q]
    BY <1>5, <1>6, <1>7
  <1>9. ASSUME NEW i \in 1 .. Len(s)
        PROVE  /\ s[i] \in OwnFields(r) /\ s[i] \in 0 .. Variables
               /\ ForcingField(s[i]) \in Fields /\ Owner(ForcingField(s[i])) = p
               /\ ForcingData(s[i], at[p]) \in Data
               /\ RightAt(ForcingField(s[i]), put[p], ForcingData(s[i], at[p]))
    <2>1. s[i] \in OwnFields(r)
      BY <1>7, ElementOfSeq
    <2>2. s[i] \in 0 .. Variables
      BY <2>1, ProviderAssumption DEF OwnFields, Runoff
    <2>3. ForcingField(s[i]) \in Fields
      BY <1>2, <2>2, Owners
    <2>4. Owner(ForcingField(s[i])) = p
      BY <1>2, <2>1, <2>2, OwnerOfForcing
    <2>5. put[p] \in Nat
      BY <1>1
    <2> QED
      BY <1>0, <1>2, <1>4, <2>1, <2>2, <2>3, <2>4, <2>5, ForcingIsGood
  <1>10. q \in Seq(Item) /\ Len(q) = Len(s)
    <2>1. \A i \in 1 .. Len(s) :
            [field |-> ForcingField(s[i]), data |-> ForcingData(s[i], at[p])] \in Item
      BY <1>9 DEF Item
    <2> QED
      BY <1>7, <2>1
  <1>11. \A i \in 1 .. Len(q) : Owner(q[i].field) = p /\ RightAt(q[i].field, put[p], q[i].data)
    BY <1>9, <1>10
  <1>12. \A i, j \in 1 .. Len(q) : q[i].field = q[j].field => i = j
    <2>1. \A v, w : ForcingField(v) = ForcingField(w) => v = w
      BY DEF ForcingField
    <2> QED
      BY <1>7, <1>10, <2>1 DEF Distinct
  <1>13. \A f \in Fields : Owner(f) = p => \E i \in 1 .. Len(q) : q[i].field = f
    <2>1. SUFFICES ASSUME NEW f \in Fields, Owner(f) = p PROVE \E i \in 1 .. Len(q) : q[i].field = f
      OBVIOUS
    <2>2. PICK v \in 0 .. Variables : f = ForcingField(v)
      BY <1>2, Owners
    <2>3. v \in OwnFields(r)
      BY <1>2, <2>1, <2>2, OwnerOfForcing
    <2>4. PICK i \in 1 .. Len(s) : s[i] = v
      BY <1>7, <2>3 DEF In
    <2>5. q[i].field = f /\ i \in 1 .. Len(q)
      BY <1>10, <2>2, <2>4
    <2> QED
      BY <2>5
  <1> HIDE DEF q
  <1>14. Made(p, put[p], q)
    BY <1>3, <1>10, <1>11, <1>12, <1>13 DEF Made
  <1>15. Flow(put, g)' /\ queue' \in [Providers -> Seq(Item)]
    <2> HIDE DEF p
    <2> QED
      BY <1>1, <1>8, <1>14, ReadFlow
  <1>16. TypeInv'
    BY <1>1, <1>15, TypeStep DEF TypeInv
  <1> QED
    BY <1>15, <1>16

(* ---------------------------- the first state -------------------------- *)

LEMMA FirstPlace ==
    ASSUME Init, NEW p \in Providers
    PROVE  Placed(p, 0) /\ Counted(p, 0)
  <1>0. /\ setup \in Setups /\ at[p] = FirstDate(p) /\ case[p] = 1
    BY DEF Init
  <1>1. Minutes(0) = FromEpoch(setup.start)
    BY <1>0, MinutesStep
  <1>2. Counted(p, 0)
    BY <1>0 DEF Counted
  <1>3. CASE Atmosphere
    <2>1. at[p] = setup.start /\ IsDate(setup.start)
      BY <1>0, <1>3, SetupIs DEF FirstDate
    <2> QED
      BY <1>1, <1>2, <1>3, <2>1 DEF Placed
  <1>4. CASE ~Atmosphere
    <2> DEFINE s == setup.start
    <2>1. IsDate(s) /\ s.minute % 60 = 0 /\ s.year \in Int
      BY <1>0, <1>4, SetupIs, DateIs
    <2>2. at[p] = [year |-> s.year, hour |-> HourOfYear(s)]
      BY <1>0, <1>4 DEF FirstDate, ForcingStart, StartHour
    <2>3. /\ HourOfYear(s) \in Nat /\ HourOfYear(s) < HoursIn(s.year)
          /\ FromEpoch(s) = Start(s.year, 1) + 60 * HourOfYear(s)
      BY <2>1, HourOfDate
    <2>4. at[p].year = s.year /\ at[p].hour = HourOfYear(s) /\ at[p] \in [year : Int, hour : Nat]
      BY <2>1, <2>2, <2>3
    <2>5. AtHour(at[p], Minutes(0))
      BY <1>1, <2>1, <2>3, <2>4 DEF AtHour, Hour
    <2> QED
      BY <1>2, <1>4, <2>4, <2>5 DEF Placed
  <1> QED
    BY <1>3, <1>4

LEMMA FirstGets ==
    ASSUME Init
    PROVE  todo \in Seq(Fields) /\ Distinct(todo) /\ \A f \in Fields : In(todo, f)
  <1>0. setup \in Setups /\ todo = Gets(0, setup.start)
    BY DEF Init
  <1>1. Nwp => Atmosphere
    BY DEF Nwp
  <1>2. CASE ~Atmosphere
    <2>1. todo = [i \in 1 .. Variables + 1 |-> ForcingField(i - 1)]
      BY <1>0, <1>1, <1>2 DEF Gets
    <2> QED
      BY <1>0, <1>2, <2>1, GetsAll
  <1>3. CASE Atmosphere /\ ~Nwp
    <2>1. todo = <<OzoneField>> \o AeroFields
      BY <1>0, <1>3 DEF Gets
    <2> QED
      BY <1>0, <1>3, <2>1, GetsAll
  <1>4. CASE Nwp
    <2>1. todo = AeroFields \o <<OzoneField>>
      BY <1>0, <1>1, <1>4 DEF Gets
    <2> QED
      BY <1>0, <1>1, <1>4, <2>1, GetsAll
  <1> QED
    BY <1>1, <1>2, <1>3, <1>4

LEMMA FirstFlow ==
    ASSUME Init
    PROVE  \E put \in [Providers -> Nat], g \in Nat : Flow(put, g)
  <1>1. PICK put : put = [p \in Providers |-> 0]
    OBVIOUS
  <1>2. put \in [Providers -> Nat] /\ \A p \in Providers : put[p] = 0
    BY <1>1
  <1>3. ASSUME NEW p \in Providers
        PROVE  Placed(p, put[p]) /\ Counted(p, put[p]) /\ QueueInv(p, put[p])
    <2>1. queue[p] = <<>> /\ Len(queue[p]) = 0
      BY DEF Init
    <2>2. QueueInv(p, put[p])
      BY <2>1 DEF QueueInv
    <2> QED
      BY <1>2, <2>2, FirstPlace
  <1>4. ASSUME NEW f \in Fields
        PROVE  SlotInv(put, 0, f)
    <2>1. Due(f, 0) = 0
      BY FirstGets DEF Due
    <2>2. Owner(f) \in Providers
      BY Owners
    <2>3. slot[f] = <<>> /\ Len(slot[f]) = 0 /\ queue[Owner(f)] = <<>> /\ put[Owner(f)] = 0
      BY <1>2, <2>2 DEF Init
    <2> QED
      BY <2>1, <2>3 DEF SlotInv
  <1>5. ModelAt(0)
    <2>1. /\ setup \in Setups /\ now.call = 0 /\ now.date = setup.start
      BY DEF Init
    <2>2. Minutes(0) = FromEpoch(setup.start)
      BY <2>1, MinutesStep
    <2> QED
      BY <2>1, <2>2 DEF ModelAt
  <1>6. Flow(put, 0)
    BY <1>3, <1>4, <1>5, FirstGets DEF Flow
  <1> QED
    BY <1>2, <1>6

LEMMA FirstInv ==
    ASSUME Init
    PROVE  ProviderInv
  <1>1. TypeInv
    <2>1. /\ setup \in Setups /\ now = [call |-> 0, date |-> setup.start]
          /\ IsDate(setup.start)
      BY SetupIs DEF Init
    <2>2. queue \in [Providers -> Seq(Item)] /\ slot \in [Fields -> Seq(Data)]
      BY EmptySeq DEF Init
    <2>3. status \in [Providers -> {"running", "ended", "failed"}] /\ case \in [Providers -> 1 .. 3]
          /\ DOMAIN at = Providers /\ DOMAIN got = Fields
      BY DEF Init
    <2> QED
      BY <2>1, <2>2, <2>3, FirstGets DEF TypeInv
  <1>2. CacheInv
    BY Owners DEF Init, CacheInv
  <1>3. Received
    BY DEF Init, Received
  <1>4. Accepted
    <2>1. ASSUME Atmosphere, status[Ozone] = "running"
          PROVE  OzoneScenario(setup.nml) # "refused"
      <3>1. Ozone \in Providers
        BY <2>1, Owners
      <3>2. ~RefusedAtStart(Ozone)
        BY <2>1, <3>1 DEF Init
      <3> QED
        BY <3>2 DEF RefusedAtStart
    <2> QED
      BY <2>1 DEF Accepted
  <1> QED
    BY <1>1, <1>2, <1>3, <1>4, FirstFlow DEF ProviderInv

(* ------------------------ the middles of the months -------------------- *)

LEMMA MonthsBeside ==
    ASSUME NEW y \in Int, NEW m \in Months, NEW b, b = MonthBefore(<<y, m>>),
           NEW a, a = MonthAfter(<<y, m>>)
    PROVE  /\ b[1] \in Int /\ b[2] \in Months /\ b = <<b[1], b[2]>> /\ MonthAfter(b) = <<y, m>>
           /\ a[1] \in Int /\ a[2] \in Months /\ a = <<a[1], a[2]>>
           /\ b[2] # m /\ a[2] # m /\ a[2] # b[2]
           /\ b[1] = (IF m = 1 THEN y - 1 ELSE y) /\ a[1] = (IF m = 12 THEN y + 1 ELSE y)
           /\ b[2] = (IF m = 1 THEN 12 ELSE m - 1) /\ a[2] = (IF m = 12 THEN 1 ELSE m + 1)
  <1>1. b[1] \in Int /\ b[2] \in Months /\ b = <<b[1], b[2]>> /\ MonthAfter(b) = <<y, m>>
    BY PreviousStart
  <1>2. a[1] \in Int /\ a[2] \in Months /\ a = <<a[1], a[2]>>
    BY NextStart
  <1>3. b[1] = (IF m = 1 THEN y - 1 ELSE y) /\ b[2] = (IF m = 1 THEN 12 ELSE m - 1)
    BY DEF MonthBefore, Months
  <1>4. a[1] = (IF m = 12 THEN y + 1 ELSE y) /\ a[2] = (IF m = 12 THEN 1 ELSE m + 1)
    BY DEF MonthAfter, Months
  <1>5. b[2] # m /\ a[2] # m /\ a[2] # b[2]
    BY <1>3, <1>4 DEF Months
  <1> QED
    BY <1>1, <1>2, <1>3, <1>4, <1>5

LEMMA MiddleIs ==
    ASSUME NEW y \in Int, NEW m \in Months
    PROVE  /\ IsDate(Middle(<<y, m>>)) /\ MonthOf(Middle(<<y, m>>)) = <<y, m>>
           /\ Middle(<<y, m>>) = [year |-> y, month |-> m, minute |-> 720 * Days(y, m)]
           /\ FromEpoch(Middle(<<y, m>>)) = Start(y, m) + 720 * Days(y, m)
           /\ FromEpoch(Middle(<<y, m>>)) \in Int
  <1>1. /\ Length(y, m) \div 2 = 720 * Days(y, m) /\ Length(y, m) = 1440 * Days(y, m)
        /\ Days(y, m) \in Nat /\ Days(y, m) \in 28 .. 31
    BY LengthIs, DaysAre
  <1>2. Middle(<<y, m>>) = [year |-> y, month |-> m, minute |-> 720 * Days(y, m)]
    BY <1>1 DEF Middle
  <1>3. 720 * Days(y, m) \in Nat /\ 720 * Days(y, m) < Length(y, m)
    BY <1>1
  <1>4. IsDate(Middle(<<y, m>>))
    BY <1>2, <1>3 DEF IsDate, Months
  <1>5. FromEpoch(Middle(<<y, m>>)) = Start(y, m) + 720 * Days(y, m)
        /\ FromEpoch(Middle(<<y, m>>)) \in Int
    BY <1>2, <1>4, StartOfMonth
  <1> QED
    BY <1>2, <1>4, <1>5 DEF MonthOf

LEMMA MiddleAt ==
    ASSUME NEW y \in Int, NEW m \in Months, NEW x, x = <<y, m>>
    PROVE  /\ FromEpoch(Middle(x)) = Start(x[1], x[2]) + 720 * Days(x[1], x[2])
           /\ FromEpoch(Middle(x)) \in Int /\ Start(x[1], x[2]) \in Int
           /\ Length(x[1], x[2]) = 1440 * Days(x[1], x[2])
           /\ Days(x[1], x[2]) \in Nat /\ Days(x[1], x[2]) >= 28
  <1>1. FromEpoch(Middle(<<y, m>>)) = Start(y, m) + 720 * Days(y, m)
    <2>1. PICK d : d = Middle(<<y, m>>)
      OBVIOUS
    <2>2. IsDate(d) /\ d = [year |-> y, month |-> m, minute |-> 720 * Days(y, m)]
      BY <2>1, MiddleIs
    <2>3. FromEpoch(d) = Start(d.year, d.month) + d.minute
      BY <2>2, StartOfMonth
    <2> QED
      BY <2>1, <2>2, <2>3
  <1>2. FromEpoch(Middle(<<y, m>>)) \in Int
    <2>1. Start(y, m) + 720 * Days(y, m) \in Int
      BY StartIs, DaysAre
    <2> QED
      BY <1>1, <2>1
  <1>3. Start(y, m) \in Int
    BY StartIs
  <1>4. Length(y, m) = 1440 * Days(y, m)
    BY LengthIs
  <1>5. Days(y, m) \in Nat /\ Days(y, m) >= 28
    BY DaysAre
  <1>6. x[1] = y /\ x[2] = m
    OBVIOUS
  <1> QED
    BY <1>1, <1>2, <1>3, <1>4, <1>5, <1>6

LEMMA ValidMonths ==
    ASSUME NEW d, IsDate(d), NEW half, half = 720 * Days(d.year, d.month)
    PROVE  /\ half \in Nat /\ Switch(d) = IF d.minute <= half THEN -1 ELSE 1
           /\ HalfOf(d.year, d.month) = half
           /\ d.minute < half => /\ LastValid(d) = MonthBefore(MonthOf(d))
                                 /\ FirstValid(d) = MonthOf(d)
           /\ d.minute = half => LastValid(d) = MonthOf(d) /\ FirstValid(d) = MonthOf(d)
           /\ d.minute > half => /\ LastValid(d) = MonthOf(d)
                                 /\ FirstValid(d) = MonthAfter(MonthOf(d))
  <1>1. d.year \in Int /\ d.month \in Months /\ d.minute \in Nat
    BY DateIs
  <1>2. Middle(MonthOf(d)) = [year |-> d.year, month |-> d.month, minute |-> half]
    BY <1>1, MiddleIs DEF MonthOf
  <1>3. half \in Nat
    BY <1>1, DaysAre
  <1>4. NotAfter(Middle(MonthOf(d)), d) <=> half <= d.minute
    BY <1>1, <1>2 DEF NotAfter, Months
  <1>5. NotAfter(d, Middle(MonthOf(d))) <=> d.minute <= half
    BY <1>1, <1>2 DEF NotAfter, Months
  <1>6. HalfOf(d.year, d.month) = half
    BY <1>1, LengthIs DEF HalfOf
  <1> QED
    BY <1>1, <1>3, <1>4, <1>5, <1>6 DEF LastValid, FirstValid, Switch

(* Every date is between the middles of two months that follow each other. *)
LEMMA BetweenMiddles ==
    ASSUME NEW d, IsDate(d), NEW a, a = LastValid(d), NEW b, b = MonthAfter(a)
    PROVE  /\ a[1] \in Int /\ a[2] \in Months /\ a = <<a[1], a[2]>>
           /\ b[1] \in Int /\ b[2] \in Months /\ b = <<b[1], b[2]>>
           /\ FromEpoch(Middle(a)) \in Int /\ FromEpoch(Middle(b)) \in Int
           /\ FromEpoch(Middle(a)) <= FromEpoch(d) /\ FromEpoch(d) < FromEpoch(Middle(b))
           /\ FromEpoch(Middle(b)) - FromEpoch(Middle(a))
                = 720 * Days(a[1], a[2]) + 720 * Days(b[1], b[2])
           /\ FirstValid(d) = IF FromEpoch(d) = FromEpoch(Middle(a)) THEN a ELSE b
  <1> DEFINE half == 720 * Days(d.year, d.month)
             before == MonthBefore(<<d.year, d.month>>)
  <1>1. /\ d.year \in Int /\ d.month \in Months /\ d.minute \in Nat
        /\ d.minute < 2 * half /\ half \in Nat /\ MonthOf(d) = <<d.year, d.month>>
    <2>1. d.year \in Int /\ d.month \in Months /\ d.minute \in Nat
          /\ d.minute < Length(d.year, d.month)
      BY DateIs
    <2>2. Length(d.year, d.month) = 1440 * Days(d.year, d.month) /\ Days(d.year, d.month) \in Nat
      BY <2>1, LengthIs, DaysAre
    <2> QED
      BY <2>1, <2>2 DEF MonthOf
  <1>2. FromEpoch(d) = Start(d.year, d.month) + d.minute /\ Start(d.year, d.month) \in Int
    BY StartOfMonth
  <1>3. a[1] \in Int /\ a[2] \in Months /\ a = <<a[1], a[2]>>
    <2>1. a = MonthOf(d) \/ a = before
      BY <1>1 DEF LastValid
    <2>2. before[1] \in Int /\ before[2] \in Months /\ before = <<before[1], before[2]>>
      BY <1>1, PreviousStart
    <2> QED
      BY <1>1, <2>1, <2>2
  <1>4. /\ b[1] \in Int /\ b[2] \in Months /\ b = <<b[1], b[2]>>
        /\ Start(b[1], b[2]) = Start(a[1], a[2]) + Length(a[1], a[2])
    BY <1>3, NextStart
  <1>5. /\ FromEpoch(Middle(a)) = Start(a[1], a[2]) + 720 * Days(a[1], a[2])
        /\ FromEpoch(Middle(a)) \in Int /\ Start(a[1], a[2]) \in Int
        /\ Length(a[1], a[2]) = 1440 * Days(a[1], a[2])
        /\ Days(a[1], a[2]) \in Nat /\ Days(a[1], a[2]) >= 28
    BY <1>3, MiddleAt
  <1>6. /\ FromEpoch(Middle(b)) = Start(b[1], b[2]) + 720 * Days(b[1], b[2])
        /\ FromEpoch(Middle(b)) \in Int /\ Start(b[1], b[2]) \in Int
        /\ Days(b[1], b[2]) \in Nat /\ Days(b[1], b[2]) >= 28
    BY <1>4, MiddleAt
  <1>7. FromEpoch(Middle(b)) - FromEpoch(Middle(a))
          = 720 * Days(a[1], a[2]) + 720 * Days(b[1], b[2])
    BY <1>4, <1>5, <1>6
  <1>8. CASE d.minute >= half
    <2>1. a = <<d.year, d.month>> /\ a[1] = d.year /\ a[2] = d.month
      BY <1>1, <1>8, ValidMonths
    <2>2. FromEpoch(Middle(a)) = Start(d.year, d.month) + half
      BY <1>5, <2>1
    <2>3. FirstValid(d) = IF d.minute = half THEN a ELSE b
      BY <1>1, <1>8, <2>1, ValidMonths
    <2>4. FromEpoch(Middle(a)) <= FromEpoch(d)
          /\ (FromEpoch(d) = FromEpoch(Middle(a)) <=> d.minute = half)
      BY <1>1, <1>2, <1>8, <2>2
    <2>5. FromEpoch(d) < FromEpoch(Middle(b))
      <3>1. FromEpoch(Middle(b)) = Start(d.year, d.month) + 2 * half + 720 * Days(b[1], b[2])
        BY <1>4, <1>5, <1>6, <2>1
      <3> QED
        BY <1>1, <1>2, <1>6, <3>1
    <2> QED
      BY <1>3, <1>4, <1>5, <1>6, <1>7, <2>3, <2>4, <2>5
  <1>9. CASE d.minute < half
    <2>1. a = before /\ FirstValid(d) = <<d.year, d.month>>
      BY <1>1, <1>9, ValidMonths
    <2>2. b = <<d.year, d.month>> /\ b[1] = d.year /\ b[2] = d.month
      BY <1>1, <2>1, MonthsBeside
    <2>3. FromEpoch(Middle(b)) = Start(d.year, d.month) + half
      BY <1>6, <2>2
    <2>4. FromEpoch(d) < FromEpoch(Middle(b))
      BY <1>1, <1>2, <1>9, <2>3
    <2>5. FromEpoch(Middle(a)) < FromEpoch(d)
      <3>1. FromEpoch(Middle(a)) = Start(d.year, d.month) - 720 * Days(a[1], a[2])
        BY <1>4, <1>5, <1>6, <2>2
      <3> QED
        BY <1>1, <1>2, <1>5, <3>1
    <2>6. FromEpoch(d) \in Int
      BY <1>1, <1>2
    <2> QED
      BY <1>3, <1>4, <1>5, <1>6, <1>7, <2>1, <2>2, <2>4, <2>5, <2>6
  <1> QED
    BY <1>1, <1>8, <1>9

(* ----------------------------- the same data --------------------------- *)

LEMMA SameTurned ==
    ASSUME NEW a, NEW b, NEW n \in Int, NEW den \in Int
    PROVE  SameData([a |-> a, b |-> b, num |-> n, den |-> den],
                    [a |-> b, b |-> a, num |-> den - n, den |-> den])
  BY DEF SameData, Share

LEMMA SameAsItself ==
    ASSUME NEW a, NEW b, NEW n \in Int, NEW den \in Int
    PROVE  SameData([a |-> a, b |-> b, num |-> n, den |-> den],
                    [a |-> a, b |-> b, num |-> n, den |-> den])
  BY DEF SameData, Share

LEMMA SameInMiddle ==
    ASSUME NEW a, NEW b, NEW c, NEW den \in Int, NEW e \in Int
    PROVE  /\ SameData([a |-> a, b |-> b, num |-> 0, den |-> den],
                       [a |-> a, b |-> c, num |-> 0, den |-> e])
           /\ SameData([a |-> a, b |-> a, num |-> 1, den |-> 2],
                       [a |-> a, b |-> c, num |-> 0, den |-> e])
  BY DEF SameData, Share

LEMMA SameMonth ==
    ASSUME NEW a, NEW n \in Int, NEW den \in Int
    PROVE  SameData([a |-> a, b |-> a, num |-> 1, den |-> 2],
                    [a |-> a, b |-> a, num |-> n, den |-> den])
  BY DEF SameData, Share

(* ---------------------- what the aerosol provider holds ---------------- *)

LEMMA OtherIs ==
    ASSUME NEW d, IsDate(d), NEW o, o = OtherMonth(d)
    PROVE  /\ o[1] \in Int /\ o[2] \in Months /\ o = <<o[1], o[2]>> /\ o[2] # d.month
           /\ o = IF Switch(d) = -1 THEN MonthBefore(<<d.year, d.month>>)
                  ELSE MonthAfter(<<d.year, d.month>>)
           /\ Switch(d) \in {-1, 1}
  <1>1. d.year \in Int /\ d.month \in Months /\ MonthOf(d) = <<d.year, d.month>>
    BY DateIs DEF MonthOf
  <1>2. o = IF Switch(d) = -1 THEN MonthBefore(<<d.year, d.month>>)
            ELSE MonthAfter(<<d.year, d.month>>)
    BY <1>1 DEF OtherMonth
  <1>3. Switch(d) \in {-1, 1}
    BY DEF Switch
  <1>4. CASE Switch(d) = -1
    <2>1. o = MonthBefore(<<d.year, d.month>>)
      BY <1>2, <1>4
    <2>2. o[1] \in Int /\ o[2] \in Months /\ o = <<o[1], o[2]>> /\ o[2] # d.month
      BY <1>1, <2>1, MonthsBeside
    <2> QED
      BY <1>2, <1>3, <2>2
  <1>5. CASE Switch(d) # -1
    <2>1. o = MonthAfter(<<d.year, d.month>>)
      BY <1>2, <1>5
    <2>2. o[1] \in Int /\ o[2] \in Months /\ o = <<o[1], o[2]>> /\ o[2] # d.month
      BY <1>1, <2>1, MonthsBeside
    <2> QED
      BY <1>2, <1>3, <2>2
  <1> QED
    BY <1>4, <1>5

FilesTurned(k, year, this_year, w) ==
  IF year # this_year
  THEN w.switch_year = TRUE /\ w.other_file = IF k.switch_year THEN k.other_file ELSE year
  ELSE w.switch_year = FALSE /\ w.other_file = IF k.switch_year THEN k.this_file ELSE k.other_file

LEMMA AeroFilesAre ==
    ASSUME NEW k \in AeroCache, NEW e, IsDate(e), NEW o, o = OtherMonth(e),
           NEW w, w = AeroFiles(k, e)
    PROVE  /\ w \in AeroCache /\ w.this_file = k.this_file
           /\ FilesTurned(k, o[1], e.year, w)
  <1> USE DEF FilesTurned
  <1>1. o[1] \in Int /\ e.year \in Int
    BY OtherIs, DateIs
  <1>2. k.switch_year = TRUE \/ k.switch_year = FALSE
    BY DEF AeroCache
  <1>3. CASE o[1] # e.year /\ k.switch_year = FALSE
    <2>1. w = [k EXCEPT !.other_file = o[1], !.switch_year = TRUE]
      BY <1>3 DEF AeroFiles
    <2> QED
      BY <1>1, <1>3, <2>1 DEF AeroCache
  <1>4. CASE o[1] = e.year /\ k.switch_year = TRUE
    <2>1. w = [k EXCEPT !.other_file = k.this_file, !.switch_year = FALSE]
      BY <1>4 DEF AeroFiles
    <2> QED
      BY <1>4, <2>1 DEF AeroCache
  <1>5. CASE o[1] # e.year /\ k.switch_year = TRUE
    <2>1. w = k
      BY <1>5 DEF AeroFiles
    <2> QED
      BY <1>5, <2>1
  <1>6. CASE o[1] = e.year /\ k.switch_year = FALSE
    <2>1. w = k
      BY <1>6 DEF AeroFiles
    <2> QED
      BY <1>6, <2>1
  <1> QED
    BY <1>2, <1>3, <1>4, <1>5, <1>6

LEMMA AeroNextIs ==
    ASSUME NEW k \in AeroCache, NEW e, IsDate(e), NEW o, o = OtherMonth(e),
           NEW c, c = AeroNext(setup.nml, k, e),
           NEW w, w = IF Historical THEN AeroFiles(k, e) ELSE k
    PROVE  /\ c.this_file = k.this_file /\ c.watch_this = e.month /\ c.watch_other = o[2]
           /\ c.this = ThisMonth(k, e) /\ c.other_file = w.other_file
           /\ c.switch_year = w.switch_year
           /\ c.other = IF o[2] = k.watch_other THEN k.other ELSE <<w.other_file, o[2]>>
           /\ c \in AeroCache
  <1>1. /\ o[1] \in Int /\ o[2] \in Int /\ e.month \in Int
    <2>1. o[1] \in Int /\ o[2] \in Months
      BY OtherIs
    <2>2. e.month \in Months
      BY DateIs
    <2> QED
      BY <2>1, <2>2 DEF Months
  <1>2. w \in AeroCache /\ w.this_file = k.this_file
    BY AeroFilesAre
  <1>3. c = [w EXCEPT !.watch_this = e.month, !.this = ThisMonth(k, e), !.watch_other = o[2],
                      !.other = IF o[2] = k.watch_other THEN k.other
                                ELSE <<w.other_file, o[2]>>]
    BY DEF AeroNext, Historical
  <1>4. ThisMonth(k, e) \in Int \X Int
    <2>1. k.this \in Int \X Int /\ k.other \in Int \X Int /\ <<k.this_file, e.month>> \in Int \X Int
      BY <1>1 DEF AeroCache
    <2> QED
      BY <2>1 DEF ThisMonth
  <1>5. (IF o[2] = k.watch_other THEN k.other ELSE <<w.other_file, o[2]>>) \in Int \X Int
    BY <1>1, <1>2 DEF AeroCache
  <1>6. DOMAIN w = {"this_file", "other_file", "switch_year", "watch_this", "watch_other",
                    "this", "other"}
    BY <1>2 DEF AeroCache
  <1> DEFINE x == ThisMonth(k, e)
             y == IF o[2] = k.watch_other THEN k.other ELSE <<w.other_file, o[2]>>
  <1>7. c = [w EXCEPT !.watch_this = e.month, !.this = x, !.watch_other = o[2], !.other = y]
        /\ x \in Int \X Int /\ y \in Int \X Int
    BY <1>3, <1>4, <1>5
  <1> HIDE DEF x, y
  <1>8. /\ c.this_file = w.this_file /\ c.watch_this = e.month /\ c.watch_other = o[2]
        /\ c.this = x /\ c.other_file = w.other_file /\ c.switch_year = w.switch_year
        /\ c.other = y
    BY <1>6, <1>7
  <1>9. c \in AeroCache
    BY <1>1, <1>2, <1>7 DEF AeroCache
  <1> QED
    BY <1>2, <1>8, <1>9 DEF x, y

LEMMA FirstFileIs ==
    ASSUME setup \in Setups, Atmosphere
    PROVE  /\ FirstFile(setup.nml, setup.start) \in Int /\ setup.start.year \in Int
           /\ Historical => FirstFile(setup.nml, setup.start) = setup.start.year
  <1>1. setup.start.year \in Int /\ setup.nml.yr_perp \in Int
    BY SetupIs, DateIs
  <1>2. Historical => FirstFile(setup.nml, setup.start) = setup.start.year
    BY DEF Historical, FirstFile
  <1>3. FirstFile(setup.nml, setup.start) \in Int
    BY <1>1 DEF FirstFile
  <1> QED
    BY <1>1, <1>2, <1>3

LEMMA AeroAtFirst ==
    ASSUME setup \in Setups, Atmosphere, NEW e, IsDate(e),
           NEW c, c = AeroNext(setup.nml, AeroStart(setup.nml, setup.start), e)
    PROVE  AeroFor(c, e)
  <1> DEFINE first == FirstFile(setup.nml, setup.start)
             k == AeroStart(setup.nml, setup.start)
  <1>1. first \in Int /\ (Historical => first = setup.start.year)
    BY FirstFileIs
  <1>2. /\ k \in AeroCache /\ k.this_file = first /\ k.other_file = first
        /\ k.switch_year = FALSE /\ k.watch_this = 0 /\ k.watch_other = 0
    BY <1>1 DEF AeroStart, AeroCache
  <1>3. PICK o : o = OtherMonth(e)
    OBVIOUS
  <1>4. /\ o[1] \in Int /\ o[2] \in Months /\ o = <<o[1], o[2]>> /\ o[2] # 0
        /\ e.month \in Months /\ e.month # 0 /\ e.year \in Int
    <2>1. o[1] \in Int /\ o[2] \in Months /\ o = <<o[1], o[2]>>
      BY <1>3, OtherIs
    <2>2. e.month \in Months /\ e.year \in Int
      BY DateIs
    <2> QED
      BY <2>1, <2>2 DEF Months
  <1>5. PICK w : w = IF Historical THEN AeroFiles(k, e) ELSE k
    OBVIOUS
  <1>6. /\ c.this_file = k.this_file /\ c.watch_this = e.month /\ c.watch_other = o[2]
        /\ c.this = ThisMonth(k, e) /\ c.other_file = w.other_file
        /\ c.switch_year = w.switch_year
        /\ c.other = IF o[2] = k.watch_other THEN k.other ELSE <<w.other_file, o[2]>>
        /\ c \in AeroCache
    <2> HIDE DEF k
    <2> QED
      BY <1>2, <1>3, <1>5, AeroNextIs DEF k
  <1>7. c.this = <<first, e.month>>
    BY <1>2, <1>4, <1>6 DEF ThisMonth
  <1>8. c.other = <<c.other_file, o[2]>>
    BY <1>2, <1>4, <1>6
  <1>9. ~Historical => c.other_file = first
    BY <1>2, <1>5, <1>6
  <1>10. Historical /\ e.year = setup.start.year =>
           /\ c.switch_year = (o[1] # e.year) /\ c.other_file = o[1]
    <2>1. SUFFICES ASSUME Historical, e.year = setup.start.year
                   PROVE  c.switch_year = (o[1] # e.year) /\ c.other_file = o[1]
      OBVIOUS
    <2>2. w = AeroFiles(k, e)
      BY <1>5, <2>1
    <2> HIDE DEF k
    <2>3. FilesTurned(k, o[1], e.year, w)
      BY <1>2, <1>3, <2>2, AeroFilesAre
    <2>4. CASE o[1] # e.year
      BY <1>2, <1>6, <2>3, <2>4 DEF FilesTurned
    <2>5. CASE o[1] = e.year
      BY <1>1, <1>2, <1>6, <2>1, <2>3, <2>5 DEF FilesTurned
    <2> QED
      BY <2>4, <2>5
  <1>11. Historical /\ e.year = setup.start.year => c.this = MonthOf(e) /\ c.other = o
    BY <1>1, <1>4, <1>7, <1>8, <1>10 DEF MonthOf
  <1>12. c.this[2] = e.month /\ c.this[1] = first /\ c.other[2] = o[2] /\ c.other[1] = c.other_file
    BY <1>7, <1>8
  <1> QED
    BY <1>2, <1>3, <1>6, <1>9, <1>10, <1>11, <1>12 DEF AeroFor

(* A date at most a day after d is in the month of d, or it is in the      *)
(* month after and d in the second half of its month.                      *)
LEMMA MonthOfNext ==
    ASSUME NEW d, IsDate(d), NEW n \in Nat, n <= 1440, NEW e, e = Later(d, n)
    PROVE  /\ IsDate(e) /\ FromEpoch(e) = FromEpoch(d) + n
           /\ \/ e.year = d.year /\ e.month = d.month
              \/ /\ MonthOf(e) = MonthAfter(<<d.year, d.month>>)
                 /\ Switch(d) = 1 /\ Switch(e) = -1
                 /\ OtherMonth(d) = MonthOf(e) /\ OtherMonth(e) = MonthOf(d)
                 /\ e.month # d.month
  <1> DEFINE half == 720 * Days(d.year, d.month)
             here == 720 * Days(e.year, e.month)
  <1>1. /\ IsDate(e) /\ FromEpoch(e) = FromEpoch(d) + n
        /\ \/ e = [year |-> d.year, month |-> d.month, minute |-> d.minute + n]
           \/ /\ MonthOf(e) = MonthAfter(MonthOf(d)) /\ e.minute < n
              /\ d.minute + n >= Length(d.year, d.month)
    BY LaterDate
  <1>2. /\ d.year \in Int /\ d.month \in Months /\ d.minute \in Nat
        /\ MonthOf(d) = <<d.year, d.month>>
    BY DateIs DEF MonthOf
  <1>3. /\ e.year \in Int /\ e.month \in Months /\ e.minute \in Nat
        /\ MonthOf(e) = <<e.year, e.month>>
    BY <1>1, DateIs DEF MonthOf
  <1>4. half \in Nat /\ half >= 28 * 720 /\ Length(d.year, d.month) = 2 * half
    <2>1. Days(d.year, d.month) \in Nat /\ Days(d.year, d.month) >= 28
      BY <1>2, DaysAre
    <2>2. Length(d.year, d.month) = 1440 * Days(d.year, d.month)
      BY <1>2, LengthIs
    <2> QED
      BY <2>1, <2>2
  <1>5. here \in Nat /\ here >= 28 * 720
    <2>1. Days(e.year, e.month) \in Nat /\ Days(e.year, e.month) >= 28
      BY <1>3, DaysAre
    <2> QED
      BY <2>1
  <1>6. CASE e = [year |-> d.year, month |-> d.month, minute |-> d.minute + n]
    BY <1>1, <1>6
  <1>7. CASE /\ MonthOf(e) = MonthAfter(MonthOf(d)) /\ e.minute < n
             /\ d.minute + n >= Length(d.year, d.month)
    <2> HIDE DEF half, here
    <2>1. d.minute > half
      BY <1>2, <1>4, <1>7
    <2>2. e.minute <= here
      BY <1>3, <1>5, <1>7
    <2>3. Switch(d) = IF d.minute <= half THEN -1 ELSE 1
      BY ValidMonths DEF half
    <2>4. Switch(e) = IF e.minute <= here THEN -1 ELSE 1
      BY <1>1, ValidMonths DEF here
    <2>5. Switch(d) = 1 /\ Switch(e) = -1
      BY <1>2, <1>4, <2>1, <2>2, <2>3, <2>4
    <2>6. OtherMonth(d) = MonthOf(e)
      BY <1>7, <2>5 DEF OtherMonth
    <2>7. OtherMonth(e) = MonthOf(d)
      <3>1. OtherMonth(e) = MonthBefore(MonthOf(e))
        BY <2>5 DEF OtherMonth
      <3>2. MonthBefore(MonthAfter(<<d.year, d.month>>)) = <<d.year, d.month>>
        BY <1>2 DEF MonthBefore, MonthAfter, Months
      <3> QED
        BY <1>2, <1>7, <3>1, <3>2
    <2>8. e.month # d.month
      <3>1. PICK o : o = OtherMonth(d)
        OBVIOUS
      <3>2. o[2] # d.month
        BY ONLY <3>1, IsDate(d), OtherIs
      <3>3. o = <<e.year, e.month>>
        BY <1>3, <2>6, <3>1
      <3> QED
        BY ONLY <3>2, <3>3
    <2> QED
      BY <1>1, <1>2, <1>7, <2>5, <2>6, <2>7, <2>8
  <1> QED
    BY <1>1, <1>6, <1>7

(* Of two dates of a month the other months are the same if they have the  *)
(* same number, and not both in another year if not.                       *)
LEMMA OthersAgree ==
    ASSUME NEW d, IsDate(d), NEW e, IsDate(e), e.year = d.year, e.month = d.month,
           NEW o, o = OtherMonth(e), NEW p, p = OtherMonth(d)
    PROVE  /\ o[2] = p[2] => o = p
           /\ o[2] # p[2] => o[1] = e.year \/ p[1] = e.year
  <1> DEFINE y == d.year
             m == d.month
  <1>1. y \in Int /\ m \in Months
    BY DateIs
  <1>2. PICK b : b = MonthBefore(<<y, m>>)
    OBVIOUS
  <1>3. PICK a : a = MonthAfter(<<y, m>>)
    OBVIOUS
  <1>4. /\ a[2] # b[2] /\ b[1] = (IF m = 1 THEN y - 1 ELSE y)
        /\ a[1] = (IF m = 12 THEN y + 1 ELSE y)
    BY <1>1, <1>2, <1>3, MonthsBeside
  <1>5. (o = a \/ o = b) /\ (p = a \/ p = b)
    <2>1. o = b \/ o = a
      BY <1>2, <1>3 DEF OtherMonth, MonthOf
    <2>2. p = b \/ p = a
      BY <1>2, <1>3 DEF OtherMonth, MonthOf
    <2> QED
      BY <2>1, <2>2
  <1>6. a[1] = y \/ b[1] = y
    BY <1>4
  <1> QED
    BY <1>4, <1>5, <1>6

LEMMA AeroGoesOn ==
    ASSUME setup \in Setups, Atmosphere, NEW d, IsDate(d), setup.start.year <= d.year,
           NEW n \in Nat, n <= 1440, NEW e, e = Later(d, n),
           NEW k, AeroFor(k, d), NEW c, c = AeroNext(setup.nml, k, e)
    PROVE  AeroFor(c, e) /\ IsDate(e) /\ setup.start.year <= e.year
  <1> DEFINE first == FirstFile(setup.nml, setup.start)
  <1>1. /\ first \in Int /\ setup.start.year \in Int /\ (Historical => first = setup.start.year)
    BY FirstFileIs
  <1>2. PICK o : o = OtherMonth(e)
    OBVIOUS
  <1>3. PICK p : p = OtherMonth(d)
    OBVIOUS
  <1>4. /\ IsDate(e)
        /\ \/ e.year = d.year /\ e.month = d.month
           \/ /\ MonthOf(e) = MonthAfter(<<d.year, d.month>>)
              /\ p = MonthOf(e) /\ o = MonthOf(d) /\ Switch(d) = 1 /\ Switch(e) = -1
              /\ e.month # d.month
    BY <1>2, <1>3, MonthOfNext
  <1>5. /\ d.year \in Int /\ d.month \in Months /\ MonthOf(d) = <<d.year, d.month>>
        /\ e.year \in Int /\ e.month \in Months /\ MonthOf(e) = <<e.year, e.month>>
    BY <1>4, DateIs DEF MonthOf
  <1>6. /\ o[1] \in Int /\ o[2] \in Months /\ o = <<o[1], o[2]>>
    <2>1. IsDate(e)
      BY ONLY <1>4
    <2> QED
      BY ONLY <1>2, <2>1, OtherIs
  <1>7. /\ k \in AeroCache /\ k.this_file = first
        /\ k.watch_this = d.month /\ k.this[2] = d.month
        /\ k.watch_other = p[2] /\ k.other[2] = p[2]
        /\ ~Historical => k.this[1] = first /\ k.other[1] = first /\ k.other_file = first
        /\ Historical /\ d.year = setup.start.year =>
             /\ k.this = MonthOf(d) /\ k.other = p
             /\ k.switch_year = (p[1] # d.year) /\ k.other_file = p[1]
    BY <1>3 DEF AeroFor
  <1>8. PICK w : w = IF Historical THEN AeroFiles(k, e) ELSE k
    OBVIOUS
  <1>9. /\ c.this_file = k.this_file /\ c.watch_this = e.month /\ c.watch_other = o[2]
        /\ c.this = ThisMonth(k, e) /\ c.other_file = w.other_file
        /\ c.switch_year = w.switch_year
        /\ c.other = IF o[2] = k.watch_other THEN k.other ELSE <<w.other_file, o[2]>>
        /\ c \in AeroCache
    BY <1>2, <1>4, <1>7, <1>8, AeroNextIs
  <1>10. c.other[2] = o[2]
    BY <1>7, <1>9
  <1>11. d.month # 0
    BY <1>5 DEF Months
  <1>12. ~Historical => c.this[1] = first /\ c.other[1] = first /\ c.other_file = first
    <2>1. SUFFICES ASSUME ~Historical
                   PROVE  c.this[1] = first /\ c.other[1] = first /\ c.other_file = first
      OBVIOUS
    <2>2. c.other_file = first /\ c.other[1] = first
      BY <1>7, <1>8, <1>9, <2>1
    <2>3. c.this[1] = first
      BY <1>7, <1>9, <1>11, <2>1 DEF ThisMonth
    <2> QED
      BY <2>2, <2>3
  <1>13. /\ setup.start.year <= e.year /\ c.this[2] = e.month
         /\ e.year = setup.start.year => d.year = setup.start.year
         /\ Historical /\ e.year = setup.start.year => c.this = MonthOf(e)
    <2>1. CASE e.year = d.year /\ e.month = d.month
      <3>1. c.this = k.this
        BY <1>7, <1>9, <2>1 DEF ThisMonth
      <3> QED
        BY <1>5, <1>7, <2>1, <3>1
    <2>2. CASE /\ MonthOf(e) = MonthAfter(<<d.year, d.month>>)
               /\ p = MonthOf(e) /\ o = MonthOf(d) /\ Switch(d) = 1 /\ Switch(e) = -1
               /\ e.month # d.month
      <3>1. c.this = k.other
        BY <1>7, <1>9, <1>11, <2>2 DEF ThisMonth
      <3>2. k.other[2] = e.month
        BY <1>5, <1>7, <2>2
      <3>3. e.year = IF d.month = 12 THEN d.year + 1 ELSE d.year
        BY <1>5, <2>2, MonthsBeside
      <3>4. setup.start.year <= e.year /\ (e.year = setup.start.year => d.year = setup.start.year)
        BY <1>1, <1>5, <3>3
      <3> QED
        BY <1>5, <1>7, <2>2, <3>1, <3>2, <3>4
    <2> QED
      BY <1>4, <2>1, <2>2
  <1>14. Historical /\ e.year = setup.start.year =>
           /\ c.other = o /\ c.switch_year = (o[1] # e.year) /\ c.other_file = o[1]
    <2>1. SUFFICES ASSUME Historical, e.year = setup.start.year
                   PROVE  c.other = o /\ c.switch_year = (o[1] # e.year) /\ c.other_file = o[1]
      OBVIOUS
    <2>2. /\ k.this = MonthOf(d) /\ k.other = p /\ k.switch_year = (p[1] # d.year)
          /\ k.other_file = p[1] /\ d.year = e.year /\ first = e.year
      BY <1>1, <1>7, <1>13, <2>1
    <2>3. /\ o[1] # e.year => /\ w.switch_year = TRUE
                              /\ w.other_file = IF k.switch_year THEN k.other_file ELSE o[1]
          /\ o[1] = e.year => /\ w.switch_year = FALSE
                              /\ w.other_file = IF k.switch_year THEN k.this_file ELSE k.other_file
      <3>1. w = AeroFiles(k, e)
        BY ONLY <1>8, <2>1
      <3>2. FilesTurned(k, o[1], e.year, w)
        BY ONLY <1>2, <1>4, <1>7, <3>1, AeroFilesAre
      <3> QED
        BY ONLY <3>2 DEF FilesTurned
    <2>files. k.this_file = e.year /\ k.other_file = p[1]
      BY ONLY <1>7, <2>2
    <2>4. CASE o[2] = p[2] /\ e.month = d.month
      <3>1. o = p
        BY <1>2, <1>3, <1>4, <1>5, <2>2, <2>4, OthersAgree
      <3>2. w.switch_year = (o[1] # e.year) /\ w.other_file = o[1]
        BY ONLY <2>2, <2>3, <3>1
      <3> QED
        BY <1>7, <1>9, <2>2, <2>4, <3>1, <3>2
    <2>5. CASE o[2] # p[2] /\ e.month = d.month
      <3>1. o[1] = e.year \/ p[1] = e.year
        BY <1>2, <1>3, <1>4, <1>5, <2>2, <2>5, OthersAgree
      <3>2. w.switch_year = (o[1] # e.year) /\ w.other_file = o[1]
        <4>1. CASE o[1] # e.year
          BY ONLY <2>2, <2>3, <3>1, <4>1
        <4>2. CASE o[1] = e.year
          BY ONLY <2>2, <2>3, <2>files, <4>2
        <4> QED
          BY ONLY <4>1, <4>2
      <3> QED
        BY <1>6, <1>7, <1>9, <2>5, <3>2
    <2>6. CASE e.month # d.month
      <3>1. p = MonthOf(e) /\ o = MonthOf(d)
        BY <1>4, <2>6
      <3>2. o[1] = e.year /\ p[1] = e.year /\ o[2] # p[2]
        BY <1>5, <2>2, <2>6, <3>1
      <3>3. w.switch_year = (o[1] # e.year) /\ w.other_file = o[1]
        BY ONLY <2>2, <2>3, <3>2
      <3> QED
        BY <1>6, <1>7, <1>9, <3>2, <3>3
    <2> QED
      BY <2>4, <2>5, <2>6
  <1> QED
    BY <1>2, <1>4, <1>7, <1>9, <1>10, <1>12, <1>13, <1>14 DEF AeroFor

(* The weights of this and of the other month are those of the two months  *)
(* around the date, in one order or the other.                             *)
LEMMA AeroWeights ==
    ASSUME NEW d, IsDate(d), NEW a, a = LastValid(d), NEW b, b = MonthAfter(a),
           NEW o, o = OtherMonth(d),
           NEW num, num = Switch(d) * (d.minute - HalfOf(d.year, d.month)),
           NEW den, den = HalfOf(d.year, d.month) + HalfOf(d.year, o[2]),
           NEW n, n = FromEpoch(d) - FromEpoch(Middle(a)),
           NEW w, w = FromEpoch(Middle(b)) - FromEpoch(Middle(a))
    PROVE  /\ num \in Int /\ den \in Int /\ n \in Int /\ w \in Int
           /\ \/ a = o /\ b = MonthOf(d) /\ n = den - num /\ w = den
              \/ a = MonthOf(d) /\ num = 0 /\ n = 0
              \/ a = MonthOf(d) /\ b = o /\ n = num /\ w = den
  <1> DEFINE half == 720 * Days(d.year, d.month)
             far == 720 * Days(o[1], o[2])
  <1>1. /\ d.year \in Int /\ d.month \in Months /\ d.minute \in Nat
        /\ MonthOf(d) = <<d.year, d.month>>
    BY DateIs DEF MonthOf
  <1>2. /\ o[1] \in Int /\ o[2] \in Months /\ o = <<o[1], o[2]>>
        /\ o = IF Switch(d) = -1 THEN MonthBefore(<<d.year, d.month>>)
               ELSE MonthAfter(<<d.year, d.month>>)
    BY OtherIs
  <1>3. o[1] = d.year \/ o[2] = 12 \/ o[2] = 1
    <2>1. PICK p : p = MonthBefore(<<d.year, d.month>>)
      OBVIOUS
    <2>2. PICK q : q = MonthAfter(<<d.year, d.month>>)
      OBVIOUS
    <2>3. /\ p[1] = (IF d.month = 1 THEN d.year - 1 ELSE d.year)
          /\ q[1] = (IF d.month = 12 THEN d.year + 1 ELSE d.year)
          /\ p[2] = (IF d.month = 1 THEN 12 ELSE d.month - 1)
          /\ q[2] = (IF d.month = 12 THEN 1 ELSE d.month + 1)
      BY <1>1, <2>1, <2>2, MonthsBeside
    <2> QED
      BY <1>2, <2>1, <2>2, <2>3
  <1>4. Days(d.year, o[2]) = Days(o[1], o[2])
    BY <1>3 DEF Days
  <1>5. HalfOf(d.year, o[2]) = far /\ far \in Nat
    <2>1. HalfOf(d.year, o[2]) = 720 * Days(d.year, o[2]) /\ Days(d.year, o[2]) \in Nat
      BY <1>1, <1>2, LengthIs, DaysAre DEF HalfOf
    <2> QED
      BY <1>4, <2>1
  <1>6. /\ half \in Nat /\ Switch(d) = (IF d.minute <= half THEN -1 ELSE 1)
        /\ HalfOf(d.year, d.month) = half
        /\ d.minute < half => LastValid(d) = MonthBefore(MonthOf(d))
        /\ d.minute >= half => LastValid(d) = MonthOf(d)
    <2>1. /\ half \in Nat /\ Switch(d) = (IF d.minute <= half THEN -1 ELSE 1)
          /\ HalfOf(d.year, d.month) = half
          /\ d.minute < half => LastValid(d) = MonthBefore(MonthOf(d))
          /\ d.minute = half => LastValid(d) = MonthOf(d)
          /\ d.minute > half => LastValid(d) = MonthOf(d)
      BY ValidMonths
    <2> QED
      BY <1>1, <2>1
  <1>7. /\ a[1] \in Int /\ a[2] \in Months /\ a = <<a[1], a[2]>>
        /\ b[1] \in Int /\ b[2] \in Months /\ b = <<b[1], b[2]>>
        /\ w = 720 * Days(a[1], a[2]) + 720 * Days(b[1], b[2])
        /\ FromEpoch(Middle(a)) \in Int /\ FromEpoch(Middle(b)) \in Int
    BY BetweenMiddles
  <1>8. FromEpoch(d) = Start(d.year, d.month) + d.minute /\ Start(d.year, d.month) \in Int
    BY StartOfMonth
  <1>9. FromEpoch(Middle(MonthOf(d))) = Start(d.year, d.month) + half
    BY <1>1, MiddleAt
  <1>10. den = half + far
    BY <1>5, <1>6
  <1> HIDE DEF half, far
  <1>11. n \in Int /\ w \in Int /\ den \in Int
    BY <1>1, <1>5, <1>6, <1>7, <1>8, <1>10
  <1>12. num = IF d.minute <= half THEN half - d.minute ELSE d.minute - half
    BY <1>1, <1>6
  <1>13. CASE d.minute < half
    <2>1. a = MonthBefore(<<d.year, d.month>>) /\ o = a
      BY <1>1, <1>2, <1>6, <1>13
    <2>2. b = MonthOf(d) /\ b[1] = d.year /\ b[2] = d.month
      <3>1. MonthAfter(a) = <<d.year, d.month>>
        BY <1>1, <2>1, PreviousStart
      <3> QED
        BY <1>1, <3>1
    <2>3. w = den
      BY <1>7, <1>5, <1>6, <1>10, <2>1, <2>2 DEF half, far
    <2>4. FromEpoch(Middle(b)) = Start(d.year, d.month) + half
      BY <1>9, <2>2
    <2>5. n = (d.minute - half) + w
      BY <1>1, <1>6, <1>7, <1>8, <1>11, <2>4
    <2> QED
      BY <1>1, <1>6, <1>11, <1>12, <1>13, <2>1, <2>2, <2>3, <2>5
  <1>14. CASE d.minute = half
    <2>1. a = MonthOf(d)
      BY <1>1, <1>6, <1>14
    <2>2. n = 0
      BY <1>6, <1>8, <1>9, <1>14, <2>1
    <2>3. num = 0
      BY <1>1, <1>6, <1>12, <1>14
    <2> QED
      BY <1>11, <2>1, <2>2, <2>3
  <1>15. CASE d.minute > half
    <2>1. a = MonthOf(d) /\ b = o /\ a[1] = d.year /\ a[2] = d.month
      BY <1>1, <1>2, <1>6, <1>15
    <2>2. n = d.minute - half
      BY <1>1, <1>6, <1>8, <1>9, <2>1
    <2>3. num = d.minute - half
      BY <1>1, <1>6, <1>12, <1>15
    <2>4. w = den
      BY <1>7, <1>10, <2>1 DEF half, far
    <2> QED
      BY <1>1, <1>6, <1>11, <2>1, <2>2, <2>3, <2>4
  <1> QED
    BY <1>1, <1>6, <1>13, <1>14, <1>15

LEMMA AeroShares ==
    ASSUME NEW d, IsDate(d), NEW a, a = LastValid(d), NEW b, b = MonthAfter(a),
           NEW o, o = OtherMonth(d), NEW this, NEW other, NEW first, NEW second,
           a = MonthOf(d) => first = this, a = o => first = other,
           b = MonthOf(d) => second = this, b = o => second = other,
           NEW num, num = Switch(d) * (d.minute - HalfOf(d.year, d.month)),
           NEW den, den = HalfOf(d.year, d.month) + HalfOf(d.year, o[2]),
           NEW n, n = FromEpoch(d) - FromEpoch(Middle(a)),
           NEW w, w = FromEpoch(Middle(b)) - FromEpoch(Middle(a))
    PROVE  SameData([a |-> this, b |-> other, num |-> num, den |-> den],
                    [a |-> first, b |-> second, num |-> n, den |-> w])
  <1>1. /\ num \in Int /\ den \in Int /\ n \in Int /\ w \in Int
        /\ \/ a = o /\ b = MonthOf(d) /\ n = den - num /\ w = den
           \/ a = MonthOf(d) /\ num = 0 /\ n = 0
           \/ a = MonthOf(d) /\ b = o /\ n = num /\ w = den
    BY AeroWeights
  <1>2. CASE a = o /\ b = MonthOf(d) /\ n = den - num /\ w = den
    BY <1>1, <1>2, SameTurned
  <1>3. CASE a = MonthOf(d) /\ num = 0 /\ n = 0
    BY <1>1, <1>3, SameInMiddle
  <1>4. CASE a = MonthOf(d) /\ b = o /\ n = num /\ w = den
    BY <1>1, <1>4, SameAsItself
  <1> QED
    BY <1>1, <1>2, <1>3, <1>4

LEMMA AeroIsRight ==
    ASSUME setup \in Setups, Atmosphere, NEW d, IsDate(d), NEW c, AeroFor(c, d),
           NEW x, x = AeroData(c, d)
    PROVE  /\ x \in Data /\ Coarse(x) \in Data
           /\ SameData(Coarse(x), Expected(CoarseField, d))
           /\ FirstYear(d) => SameData(x, Expected(FineField, d))
  <1>1. PICK o : o = OtherMonth(d)
    OBVIOUS
  <1>2. PICK a : a = LastValid(d)
    OBVIOUS
  <1>3. PICK b : b = MonthAfter(a)
    OBVIOUS
  <1>4. PICK num : num = Switch(d) * (d.minute - HalfOf(d.year, d.month))
    OBVIOUS
  <1>5. PICK den : den = HalfOf(d.year, d.month) + HalfOf(d.year, o[2])
    OBVIOUS
  <1>6. PICK n : n = FromEpoch(d) - FromEpoch(Middle(a))
    OBVIOUS
  <1>7. PICK w : w = FromEpoch(Middle(b)) - FromEpoch(Middle(a))
    OBVIOUS
  <1>8. num \in Int /\ den \in Int
    BY <1>1, <1>2, <1>3, <1>4, <1>5, <1>6, <1>7, AeroWeights
  <1>9. x = [a |-> c.this, b |-> c.other, num |-> num, den |-> den]
    BY <1>1, <1>4, <1>5 DEF AeroData
  <1>10. Coarse(x) = [a |-> <<Climatology, c.this[2]>>, b |-> <<Climatology, c.other[2]>>,
                      num |-> num, den |-> den]
    <2>1. x.a[2] = c.this[2] /\ x.b[2] = c.other[2]
      BY <1>9
    <2>2. PICK p : p = <<Climatology, c.this[2]>>
      OBVIOUS
    <2>3. PICK q : q = <<Climatology, c.other[2]>>
      OBVIOUS
    <2>4. Coarse(x) = [x EXCEPT !.a = p, !.b = q]
      BY <2>1, <2>2, <2>3 DEF Coarse
    <2>5. [x EXCEPT !.a = p] = [a |-> p, b |-> c.other, num |-> num, den |-> den]
      BY <1>9
    <2>6. Coarse(x) = [a |-> p, b |-> q, num |-> num, den |-> den]
      BY <2>4, <2>5
    <2> QED
      BY <2>2, <2>3, <2>6
  <1>11. /\ c \in AeroCache /\ c.this[2] = d.month /\ c.other[2] = o[2]
         /\ ~Historical => /\ c.this[1] = FirstFile(setup.nml, setup.start)
                           /\ c.other[1] = FirstFile(setup.nml, setup.start)
         /\ Historical /\ d.year = setup.start.year => c.this = MonthOf(d) /\ c.other = o
    BY <1>1 DEF AeroFor
  <1>12. /\ d.month \in Months /\ d.year \in Int /\ o[2] \in Months /\ o[1] \in Int
         /\ MonthOf(d) = <<d.year, d.month>>
    BY <1>1, DateIs, OtherIs DEF MonthOf
  <1>13. /\ c.this \in Mean /\ c.other \in Mean
         /\ c.this = <<c.this[1], c.this[2]>> /\ c.other = <<c.other[1], c.other[2]>>
    <2>1. /\ c.this \in Int \X Int /\ c.other \in Int \X Int
      BY <1>11 DEF AeroCache
    <2> QED
      BY <1>11, <1>12, <2>1 DEF Mean
  <1>14. x \in Data /\ Coarse(x) \in Data
    <2>1. Climatology \in Int
      BY DEF Climatology
    <2>2. <<Climatology, c.this[2]>> \in Mean /\ <<Climatology, c.other[2]>> \in Mean
      BY <1>11, <1>12, <2>1 DEF Mean
    <2>3. x \in [a : Mean, b : Mean, num : Int, den : Int]
      BY <1>8, <1>9, <1>13
    <2>4. Coarse(x) \in [a : Mean, b : Mean, num : Int, den : Int]
      BY <1>8, <1>10, <2>2
    <2> QED
      BY <2>3, <2>4 DEF Data
  <1>15. SameData(Coarse(x), Expected(CoarseField, d))
    <2>1. Expected(CoarseField, d) = Interpolated(d, CoarseName)
      BY FieldsDiffer DEF Expected
    <2>2. Interpolated(d, CoarseName) = [a |-> CoarseName(a), b |-> CoarseName(b), num |-> n, den |-> w]
      BY <1>2, <1>3, <1>6, <1>7 DEF Interpolated
    <2>3. /\ a = MonthOf(d) => CoarseName(a) = <<Climatology, c.this[2]>>
          /\ a = o => CoarseName(a) = <<Climatology, c.other[2]>>
          /\ b = MonthOf(d) => CoarseName(b) = <<Climatology, c.this[2]>>
          /\ b = o => CoarseName(b) = <<Climatology, c.other[2]>>
      BY <1>11, <1>12 DEF CoarseName
    <2>4. SameData([a |-> <<Climatology, c.this[2]>>, b |-> <<Climatology, c.other[2]>>,
                    num |-> num, den |-> den],
                   [a |-> CoarseName(a), b |-> CoarseName(b), num |-> n, den |-> w])
      BY <1>1, <1>2, <1>3, <1>4, <1>5, <1>6, <1>7, <2>3, AeroShares
    <2> QED
      BY <1>10, <2>1, <2>2, <2>4
  <1>16. ASSUME FirstYear(d) PROVE SameData(x, Expected(FineField, d))
    <2>1. Expected(FineField, d) = Interpolated(d, FineName)
      BY FieldsDiffer DEF Expected
    <2>2. Interpolated(d, FineName) = [a |-> FineName(a), b |-> FineName(b), num |-> n, den |-> w]
      BY <1>2, <1>3, <1>6, <1>7 DEF Interpolated
    <2>3. d.year = setup.start.year
      BY <1>16 DEF FirstYear
    <2>4. /\ a = MonthOf(d) => FineName(a) = c.this
          /\ a = o => FineName(a) = c.other
          /\ b = MonthOf(d) => FineName(b) = c.this
          /\ b = o => FineName(b) = c.other
      BY <1>11, <1>12, <1>13, <2>3 DEF FineName, Historical
    <2>5. PICK this, other, first, second :
            this = c.this /\ other = c.other /\ first = FineName(a) /\ second = FineName(b)
      OBVIOUS
    <2>6. /\ a = MonthOf(d) => first = this
          /\ a = o => first = other
          /\ b = MonthOf(d) => second = this
          /\ b = o => second = other
      BY <2>4, <2>5
    <2>7. SameData([a |-> this, b |-> other, num |-> num, den |-> den],
                   [a |-> first, b |-> second, num |-> n, den |-> w])
      BY <1>1, <1>2, <1>3, <1>4, <1>5, <1>6, <1>7, <2>6, AeroShares
    <2>8. SameData([a |-> c.this, b |-> c.other, num |-> num, den |-> den],
                   [a |-> FineName(a), b |-> FineName(b), num |-> n, den |-> w])
      BY <2>5, <2>7
    <2> QED
      BY <1>9, <2>1, <2>2, <2>8
  <1> QED
    BY <1>14, <1>15, <1>16

(* ------------------- steps of the atmosphere's providers ---------------- *)

LEMMA YearsInOrder ==
    ASSUME NEW d, IsDate(d), NEW e, IsDate(e), FromEpoch(d) <= FromEpoch(e)
    PROVE  d.year <= e.year
  <1>1. d.year \in Int /\ e.year \in Int
    BY DateIs
  <1>2. ~(e.year < d.year)
    <2>1. SUFFICES ASSUME e.year < d.year PROVE FALSE
      OBVIOUS
    <2>2. FromEpoch(e) < FromEpoch(d)
      BY <2>1, EarlierMonth
    <2>3. FromEpoch(e) \in Int /\ FromEpoch(d) \in Int
      BY StartOfMonth
    <2> QED
      BY <2>2, <2>3
  <1> QED
    BY <1>1, <1>2

(* A provider's date is that of its exchange, and within the run.          *)
LEMMA DateOfPut ==
    ASSUME setup \in Setups, Atmosphere, NEW p \in Providers, NEW n \in Nat, Placed(p, n)
    PROVE  /\ IsDate(at[p]) /\ setup.start.year <= at[p].year
           /\ \A date : IsDate(date) /\ FromEpoch(date) = Minutes(n) => date = at[p]
           /\ ~Over(p) => at[p].year <= setup.end.year
  <1>1. IsDate(at[p]) /\ FromEpoch(at[p]) = Minutes(n)
    BY DEF Placed
  <1>2. IsDate(setup.start) /\ IsDate(setup.end)
    BY SetupIs
  <1>3. FromEpoch(setup.start) <= FromEpoch(at[p])
    <2>1. Minutes(n) \in Int /\ Minutes(n) >= FromEpoch(setup.start)
      BY MinutesStep
    <2>2. FromEpoch(setup.start) \in Int
      BY <1>2, StartOfMonth
    <2> QED
      BY <1>1, <2>1, <2>2
  <1>4. setup.start.year <= at[p].year
    BY <1>1, <1>2, <1>3, YearsInOrder
  <1>5. \A date : IsDate(date) /\ FromEpoch(date) = Minutes(n) => date = at[p]
    BY <1>1, OrderOfDates
  <1>6. ASSUME ~Over(p) PROVE at[p].year <= setup.end.year
    <2>1. NotAfter(at[p], setup.end)
      BY <1>6 DEF Over, Before
    <2>2. FromEpoch(at[p]) <= FromEpoch(setup.end)
      BY <1>1, <1>2, <2>1, OrderOfDates
    <2> QED
      BY <1>1, <1>2, <2>2, YearsInOrder
  <1> QED
    BY <1>1, <1>4, <1>5, <1>6

LEMMA LaterByNone ==
    ASSUME NEW d, IsDate(d)
    PROVE  d = Later(d, 0)
  <1>1. PICK e : e = Later(d, 0)
    OBVIOUS
  <1>2. 0 \in Nat /\ 0 <= 1440
    OBVIOUS
  <1>3. IsDate(e) /\ FromEpoch(e) = FromEpoch(d) + 0
    <2>1. IsDate(Later(d, 0)) /\ FromEpoch(Later(d, 0)) = FromEpoch(d) + 0
      BY <1>2, LaterDate
    <2> QED
      BY ONLY <1>1, <2>1
  <1>4. FromEpoch(d) \in Int
    BY StartOfMonth
  <1>5. FromEpoch(d) = FromEpoch(e)
    BY <1>3, <1>4
  <1> QED
    BY <1>1, <1>3, <1>5, OrderOfDates

LEMMA FlowKept ==
    ASSUME NEW put \in [Providers -> Nat], NEW g \in Nat, Flow(put, g),
           UNCHANGED <<setup, at, case, queue, slot, now, todo>>
    PROVE  Flow(put, g)'
  <1>1. /\ setup' = setup /\ at' = at /\ case' = case /\ queue' = queue /\ slot' = slot
        /\ now' = now /\ todo' = todo
    OBVIOUS
  <1>2. /\ Providers' = Providers /\ Fields' = Fields /\ (Atmosphere' <=> Atmosphere)
        /\ (Nwp' <=> Nwp)
        /\ \A f : Owner(f)' = Owner(f)
        /\ \A f, n, x : RightAt(f, n, x)' <=> RightAt(f, n, x)
    BY <1>1, SetupKept
  <1>3. \A p \in Providers : Placed(p, put[p])' /\ Counted(p, put[p])' /\ QueueInv(p, put[p])'
    <2>1. SUFFICES ASSUME NEW p \in Providers
                   PROVE  Placed(p, put[p])' /\ Counted(p, put[p])' /\ QueueInv(p, put[p])'
      OBVIOUS
    <2>2. Placed(p, put[p]) /\ Counted(p, put[p]) /\ QueueInv(p, put[p])
      BY DEF Flow
    <2>3. QueueInv(p, put[p])'
      BY <1>1, <1>2, <2>2 DEF QueueInv
    <2> QED
      BY <1>1, <2>2, <2>3, SetupKept DEF Placed, Counted
  <1>4. \A f \in Fields : SlotInv(put, g, f)'
    <2>1. SUFFICES ASSUME NEW f \in Fields PROVE SlotInv(put, g, f)'
      OBVIOUS
    <2>2. SlotInv(put, g, f)
      BY DEF Flow
    <2>3. (Queued(f)' <=> Queued(f)) /\ Due(f, g)' = Due(f, g)
      BY <1>1, <1>2 DEF Queued, Due, In
    <2> QED
      BY <1>1, <1>2, <2>2, <2>3 DEF SlotInv
  <1>5. ModelAt(g)' /\ Distinct(todo)'
    <2>1. ModelAt(g) /\ Distinct(todo)
      BY DEF Flow
    <2> QED
      BY <1>1, <2>1, SetupKept DEF ModelAt
  <1> QED
    BY <1>2, <1>3, <1>4, <1>5 DEF Flow

LEMMA ReadAeroFlow ==
    ASSUME TypeInv, NEW put \in [Providers -> Nat], NEW g \in Nat, Flow(put, g), CacheInv,
           ReadAero
    PROVE  TypeInv' /\ Flow(put, g)' /\ CacheInv'
  <1>0. /\ setup \in Setups /\ queue \in [Providers -> Seq(Item)]
        /\ status \in [Providers -> {"running", "ended", "failed"}]
    BY DEF TypeInv
  <1>1. /\ Aero \in Providers /\ queue[Aero] = <<>> /\ ~Over(Aero)
        /\ UNCHANGED <<setup, at, case, slot, now, todo, got>>
    BY DEF ReadAero, CanRead
  <1>2. Atmosphere
    <2>1. SUFFICES ASSUME ~Atmosphere PROVE FALSE
      OBVIOUS
    <2>2. PICK r : Aero = Rank(r)
      BY <1>1, <2>1 DEF Providers
    <2> QED
      BY <2>2 DEF Rank, Aero
  <1>3. PICK d : d = at[Aero]
    OBVIOUS
  <1>4. PICK c : c = AeroNext(setup.nml, cache, d)
    OBVIOUS
  <1>5. Placed(Aero, put[Aero]) /\ put[Aero] \in Nat
    BY <1>1 DEF Flow
  <1>6. /\ IsDate(d) /\ setup.start.year <= d.year
        /\ \A date : IsDate(date) /\ FromEpoch(date) = Minutes(put[Aero]) => date = d
    BY <1>0, <1>1, <1>2, <1>3, <1>5, DateOfPut
  <1>7. CASE ~HasFile(c.other_file)
    <2>1. status' = [status EXCEPT ![Aero] = "failed"] /\ UNCHANGED <<queue, cache>>
      BY <1>3, <1>4, <1>7 DEF ReadAero
    <2>2. status' \in [Providers -> {"running", "ended", "failed"}]
      BY <1>0, <2>1
    <2>3. TypeInv'
      BY <1>1, <2>1, <2>2, TypeStep DEF TypeInv
    <2>4. Flow(put, g)'
      BY <1>1, <2>1, FlowKept
    <2>5. CacheInv'
      BY <1>1, <2>1, SetupKept DEF CacheInv
    <2> QED
      BY <2>3, <2>4, <2>5
  <1>8. CASE HasFile(c.other_file)
    <2>1. PICK x : x = AeroData(c, d)
      OBVIOUS
    <2> DEFINE q == <<[field |-> CoarseField, data |-> Coarse(x)],
                      [field |-> FineField, data |-> x]>>
    <2>2. /\ queue' = [queue EXCEPT ![Aero] = q] /\ cache' = c /\ status' = status
      BY <1>3, <1>4, <1>8, <2>1 DEF ReadAero
    <2>3. AeroFor(c, d)
      <3>1. CASE cache = AeroStart(setup.nml, setup.start)
        <4>1. c = AeroNext(setup.nml, AeroStart(setup.nml, setup.start), d)
          BY <1>4, <3>1
        <4> QED
          BY <1>0, <1>2, <1>6, <4>1, AeroAtFirst
      <3>2. CASE cache # AeroStart(setup.nml, setup.start)
        <4>1. PICK e : /\ IsDate(e) /\ setup.start.year <= e.year /\ AeroFor(cache, e)
                       /\ \E n \in 0 .. Day : d = Later(e, n)
          BY <1>2, <1>3, <3>2 DEF CacheInv
        <4>2. PICK n \in 0 .. Day : d = Later(e, n)
          BY <4>1
        <4>3. n \in Nat /\ n <= 1440
          BY DEF Day, Hour
        <4> QED
          BY <1>0, <1>2, <1>4, <4>1, <4>2, <4>3, AeroGoesOn
      <3> QED
        BY <3>1, <3>2
    <2>4. /\ x \in Data /\ Coarse(x) \in Data
          /\ SameData(Coarse(x), Expected(CoarseField, d))
          /\ FirstYear(d) => SameData(x, Expected(FineField, d))
      BY <1>0, <1>2, <1>6, <2>1, <2>3, AeroIsRight
    <2>5. /\ Fields = {CoarseField, FineField, OzoneField}
          /\ Owner(CoarseField) = Aero /\ Owner(FineField) = Aero /\ Owner(OzoneField) = Ozone
      BY <1>2, Owners
    <2>6. Good(CoarseField, d, Coarse(x)) /\ Good(FineField, d, x)
      BY <1>2, <2>4, FieldsDiffer DEF Good
    <2>7. RightAt(CoarseField, put[Aero], Coarse(x)) /\ RightAt(FineField, put[Aero], x)
      BY <1>6, <2>6 DEF RightAt
    <2>8. /\ q \in Seq(Item) /\ Len(q) = 2 /\ q[1].field = CoarseField /\ q[2].field = FineField
          /\ q[1].data = Coarse(x) /\ q[2].data = x
      <3>1. /\ [field |-> CoarseField, data |-> Coarse(x)] \in Item
            /\ [field |-> FineField, data |-> x] \in Item
        BY <2>4, <2>5 DEF Item
      <3> QED
        BY <3>1
    <2> HIDE DEF q
    <2>9. Made(Aero, put[Aero], q)
      <3>1. \A i \in 1 .. Len(q) : i = 1 \/ i = 2
        BY <2>8
      <3>2. \A i \in 1 .. Len(q) : /\ Owner(q[i].field) = Aero
                                   /\ RightAt(q[i].field, put[Aero], q[i].data)
        BY <2>5, <2>7, <2>8, <3>1
      <3>3. \A i, j \in 1 .. Len(q) : q[i].field = q[j].field => i = j
        BY <2>8, <3>1, FieldsDiffer
      <3>4. \A f \in Fields : Owner(f) = Aero => \E i \in 1 .. Len(q) : q[i].field = f
        <4>1. 1 \in 1 .. Len(q) /\ 2 \in 1 .. Len(q)
          BY <2>8
        <4> QED
          BY <2>5, <2>8, <4>1, FieldsDiffer
      <3> QED
        BY <1>2, <2>8, <3>2, <3>3, <3>4 DEF Made
    <2>10. Flow(put, g)' /\ queue' \in [Providers -> Seq(Item)]
      BY <1>1, <2>2, <2>9, ReadFlow
    <2>11. TypeInv'
      BY <1>1, <2>2, <2>10, TypeStep DEF TypeInv
    <2>12. CacheInv'
      <3>1. d = Later(d, 0)
        BY <1>6, LaterByNone
      <3>2. AeroFor(c, d)' /\ setup' = setup /\ at'[Aero] = d /\ cache' = c
        BY <1>1, <1>3, <2>2, <2>3, SetupKept
      <3>3. 0 \in 0 .. Day
        BY DEF Day, Hour
      <3> QED
        BY <1>6, <3>1, <3>2, <3>3 DEF CacheInv
    <2> QED
      BY <2>10, <2>11, <2>12
  <1> QED
    BY <1>7, <1>8

(* ----------------------- the years of ozone that are read ---------------- *)

LEMMA LeastAndGreatest ==
    ASSUME NEW lo \in Int, NEW hi \in Int, lo <= hi, NEW S, S = lo .. hi
    PROVE  Min(S) = lo /\ Max(S) = hi
  <1>1. Min(S) = lo
    <2>1. lo \in S /\ \A y \in S : lo <= y
      OBVIOUS
    <2>2. \A x \in S : (\A y \in S : x <= y) => x = lo
      BY <2>1
    <2> QED
      BY <2>1, <2>2 DEF Min
  <1>2. Max(S) = hi
    <2>1. hi \in S /\ \A y \in S : hi >= y
      OBVIOUS
    <2>2. \A x \in S : (\A y \in S : x >= y) => x = hi
      BY <2>1
    <2> QED
      BY <2>1, <2>2 DEF Max
  <1> QED
    BY <1>1, <1>2

LastInFile == IF OzoneScenario(setup.nml) = "historical" THEN 2099 ELSE 1899

LEMMA YearsReadAre ==
    ASSUME NEW run, run = RunYears(setup.nml, setup.start, setup.end), run \subseteq Int,
           NEW years, years = YearsRead(setup.nml, setup.start, setup.end), years # {}
    PROVE  years = run \intersect (1850 .. LastInFile)
  <1> DEFINE listed == run \intersect (1850 .. 2099)
  <1>1. years = {y \in run : \E x \in listed : y \in InputFile(setup.nml, x)}
    BY DEF YearsRead
  <1>2. CASE OzoneScenario(setup.nml) = "historical"
    <2>1. ASSUME NEW x \in listed
          PROVE  /\ x \in InputFile(setup.nml, x)
                 /\ \A y \in InputFile(setup.nml, x) : y \in 1850 .. 2099
      <3>1. InputFile(setup.nml, x) = FileOf(x)
        BY <1>2 DEF InputFile
      <3>2. x \in Int /\ 1850 <= x /\ x <= 2099
        OBVIOUS
      <3>3. CASE x \in 1850 .. 1899
        BY <3>1, <3>2, <3>3 DEF FileOf
      <3>4. CASE x \in 1900 .. 1949
        BY <3>1, <3>2, <3>4 DEF FileOf
      <3>5. CASE x \in 1950 .. 1999
        BY <3>1, <3>2, <3>5 DEF FileOf
      <3>6. CASE x \in 2000 .. 2014
        BY <3>1, <3>2, <3>6 DEF FileOf
      <3>7. CASE x \in 2015 .. 2049
        BY <3>1, <3>2, <3>7 DEF FileOf
      <3>8. CASE x \in 2050 .. 2099
        BY <3>1, <3>2, <3>8 DEF FileOf
      <3> QED
        BY <3>2, <3>3, <3>4, <3>5, <3>6, <3>7, <3>8
    <2>2. \A y \in run : y \in years <=> y \in 1850 .. 2099
      <3>1. SUFFICES ASSUME NEW y \in run PROVE y \in years <=> y \in 1850 .. 2099
        OBVIOUS
      <3>2. ASSUME y \in years PROVE y \in 1850 .. 2099
        <4>1. PICK x \in listed : y \in InputFile(setup.nml, x)
          BY <1>1, <3>2
        <4> QED
          BY <2>1, <4>1
      <3>3. ASSUME y \in 1850 .. 2099 PROVE y \in years
        <4>1. y \in listed
          BY <3>3
        <4>2. y \in InputFile(setup.nml, y)
          BY <2>1, <4>1
        <4> QED
          BY <1>1, <4>1, <4>2
      <3> QED
        BY <3>2, <3>3
    <2>3. LastInFile = 2099
      BY <1>2 DEF LastInFile
    <2>4. years \subseteq run
      BY <1>1
    <2> QED
      BY <2>2, <2>3, <2>4
  <1>3. CASE OzoneScenario(setup.nml) # "historical"
    <2>1. \A x : InputFile(setup.nml, x) = 1850 .. 1899
      BY <1>3 DEF InputFile, FileOf, PERP_YEAR
    <2>2. PICK x \in listed : TRUE
      BY <1>1
    <2>3. LastInFile = 1899
      BY <1>3 DEF LastInFile
    <2> QED
      BY <1>1, <2>1, <2>2, <2>3
  <1> QED
    BY <1>2, <1>3

LEMMA OzoneYears ==
    ASSUME setup \in Setups, Atmosphere,
           NEW years, years = YearsRead(setup.nml, setup.start, setup.end), years # {}
    PROVE  \E lo, hi \in Int :
             /\ Min(years) = lo /\ Max(years) = hi /\ years = lo .. hi
             /\ 1850 <= lo /\ lo <= hi /\ hi <= LastInFile
             /\ OzoneScenario(setup.nml) = "historical" =>
                  /\ lo = IF setup.start.year - 1 <= 1850 THEN 1850 ELSE setup.start.year - 1
                  /\ hi = IF setup.end.year + 1 >= 2099 THEN 2099 ELSE setup.end.year + 1
             /\ /\ OzoneScenario(setup.nml) \in {"picontrol", "perpetual"}
                /\ PerpetualYearRead
                => lo <= PerpetualYear(setup.nml) /\ PerpetualYear(setup.nml) <= hi
  <1> DEFINE a == IF OzoneScenario(setup.nml) = "picontrol" THEN 1850 ELSE setup.start.year - 1
             b == IF OzoneScenario(setup.nml) = "picontrol" THEN 1850 ELSE setup.end.year + 1
             z == LastInFile
             lo == IF a <= 1850 THEN 1850 ELSE a
             hi == IF b >= z THEN z ELSE b
  <1>1. setup.start.year \in Int /\ setup.end.year \in Int
    BY SetupIs, DateIs
  <1>2. /\ a \in Int /\ b \in Int /\ z \in Int /\ z \in {1899, 2099}
        /\ RunYears(setup.nml, setup.start, setup.end) = a .. b
    <2>1. z \in {1899, 2099} /\ z \in Int
      BY DEF LastInFile
    <2>2. CASE OzoneScenario(setup.nml) = "picontrol"
      <3>1. RunYears(setup.nml, setup.start, setup.end) = {1850}
        BY <2>2 DEF RunYears, PERP_YEAR
      <3>2. a = 1850 /\ b = 1850
        BY <2>2
      <3> QED
        BY <2>1, <3>1, <3>2
    <2>3. CASE OzoneScenario(setup.nml) # "picontrol"
      <3>1. RunYears(setup.nml, setup.start, setup.end) = setup.start.year - 1 .. setup.end.year + 1
        BY <2>3 DEF RunYears
      <3>2. a = setup.start.year - 1 /\ b = setup.end.year + 1
        BY <2>3
      <3> QED
        BY <1>1, <2>1, <3>1, <3>2
    <2> QED
      BY <2>2, <2>3
  <1>3. years = (a .. b) \intersect (1850 .. z)
    BY <1>2, YearsReadAre
  <1>4. OzoneScenario(setup.nml) = "historical" =>
          a = setup.start.year - 1 /\ b = setup.end.year + 1 /\ z = 2099
    BY DEF LastInFile
  <1>5. OzoneScenario(setup.nml) \in {"picontrol", "perpetual"} /\ PerpetualYearRead =>
          /\ PerpetualYear(setup.nml) \in a .. b /\ PerpetualYear(setup.nml) \in 1850 .. 1899
          /\ z = 1899
    BY <1>1 DEF PerpetualYear, PERP_YEAR, PerpetualYearRead, LastInFile
  <1> HIDE DEF a, b, z
  <1>6. years = lo .. hi /\ lo \in Int /\ hi \in Int /\ lo <= hi /\ 1850 <= lo /\ hi <= z
    BY <1>2, <1>3
  <1>7. Min(years) = lo /\ Max(years) = hi
    BY <1>6, LeastAndGreatest
  <1>8. OzoneScenario(setup.nml) = "historical" =>
             /\ lo = IF setup.start.year - 1 <= 1850 THEN 1850 ELSE setup.start.year - 1
             /\ hi = IF setup.end.year + 1 >= 2099 THEN 2099 ELSE setup.end.year + 1
    BY <1>4
  <1>9. OzoneScenario(setup.nml) \in {"picontrol", "perpetual"} /\ PerpetualYearRead =>
          lo <= PerpetualYear(setup.nml) /\ PerpetualYear(setup.nml) <= hi
    <2>1. PICK p : p = PerpetualYear(setup.nml)
      OBVIOUS
    <2>2. p \in a .. b /\ p \in 1850 .. 1899 /\ z = 1899 => lo <= p /\ p <= hi
      BY <1>2
    <2> HIDE DEF lo, hi
    <2> QED
      BY <1>5, <2>1, <2>2
  <1> HIDE DEF lo, hi
  <1> QED
    BY <1>6, <1>7, <1>8, <1>9 DEF z

(* ----------------------------- what ozone is sent ----------------------- *)

LEMMA NearestIs ==
    ASSUME NEW years, NEW lo \in Int, NEW hi \in Int, lo <= hi,
           Min(years) = lo, Max(years) = hi, NEW ym \in Mean
    PROVE  /\ Nearest(years, ym) = IF ym[1] < lo THEN <<lo, 1>>
                                   ELSE IF ym[1] > hi THEN <<hi, 12>> ELSE ym
           /\ Nearest(years, ym) \in Mean
  <1>1. ym[1] \in Int
    BY DEF Mean
  <1>2. Nearest(years, ym) = IF ym[1] < lo THEN <<lo, 1>>
                             ELSE IF ym[1] > hi THEN <<hi, 12>> ELSE ym
    BY <1>1 DEF Nearest
  <1>3. <<lo, 1>> \in Mean /\ <<hi, 12>> \in Mean
    BY DEF Mean, Months
  <1> QED
    BY <1>2, <1>3

(* The months around a date, and how they relate to its own month.         *)
LEMMA AroundDate ==
    ASSUME NEW v, IsDate(v), NEW a, a = LastValid(v), NEW b, b = MonthAfter(a),
           NEW f, f = FirstValid(v)
    PROVE  /\ a \in Mean /\ b \in Mean /\ f \in Mean /\ MonthOf(v) \in Mean
           /\ a = <<a[1], a[2]>> /\ b = <<b[1], b[2]>>
           /\ f = a \/ f = b
           /\ a = MonthOf(v) \/ (b = MonthOf(v) /\ f = b)
           /\ (a[2] = 12 => b[1] = a[1] + 1 /\ b[2] = 1) /\ (a[2] # 12 => b[1] = a[1])
           /\ MonthOf(v)[1] = v.year /\ MonthOf(v)[2] = v.month
  <1>1. /\ a[1] \in Int /\ a[2] \in Months /\ a = <<a[1], a[2]>>
        /\ b[1] \in Int /\ b[2] \in Months /\ b = <<b[1], b[2]>>
        /\ f = a \/ f = b
    BY BetweenMiddles
  <1>2. v.year \in Int /\ v.month \in Months /\ v.minute \in Nat
        /\ MonthOf(v) = <<v.year, v.month>>
    BY DateIs DEF MonthOf
  <1>3. a \in Mean /\ b \in Mean /\ f \in Mean /\ MonthOf(v) \in Mean
    BY <1>1, <1>2 DEF Mean
  <1>4. (a[2] = 12 => b[1] = a[1] + 1 /\ b[2] = 1) /\ (a[2] # 12 => b[1] = a[1])
    <2>1. b = IF a[2] = 12 THEN <<a[1] + 1, 1>> ELSE <<a[1], a[2] + 1>>
      BY DEF MonthAfter
    <2> QED
      BY <2>1
  <1>5. a = MonthOf(v) \/ (b = MonthOf(v) /\ f = b)
    <2>1. PICK half : half = 720 * Days(v.year, v.month)
      OBVIOUS
    <2>2. half \in Nat
      BY <2>1, ValidMonths
    <2>3. CASE v.minute >= half
      BY <1>2, <2>1, <2>2, <2>3, ValidMonths
    <2>4. CASE v.minute < half
      <3>1. a = MonthBefore(<<v.year, v.month>>) /\ f = MonthOf(v)
        BY <1>2, <2>1, <2>4, ValidMonths
      <3>2. b = <<v.year, v.month>>
        BY <1>2, <3>1, MonthsBeside
      <3> QED
        BY <1>2, <3>1, <3>2
    <2> QED
      BY <1>2, <2>2, <2>3, <2>4
  <1> QED
    BY <1>1, <1>2, <1>3, <1>4, <1>5

LEMMA AfterLastNoon ==
    ASSUME NEW v, IsDate(v), Before(Date(2099, 12, 31, 12 * Hour), v)
    PROVE  v.year > 2099 \/ (v.year = 2099 /\ v.month = 12 /\ v.minute > 30 * 1440 + 720)
  <1>1. Date(2099, 12, 31, 12 * Hour) = [year |-> 2099, month |-> 12, minute |-> 43920]
    BY DEF Date, Day, Hour
  <1>2. v = [year |-> v.year, month |-> v.month, minute |-> v.minute]
    BY DEF IsDate
  <1>3. v.year \in Int /\ v.month \in Months /\ v.minute \in Nat
    BY DateIs
  <1> QED
    BY <1>1, <1>2, <1>3 DEF Before, NotAfter, Months

(* What is sent is data, whatever months were found.                       *)
LEMMA OzoneTyped ==
    ASSUME NEW nml, NEW years, NEW lo \in Int, NEW hi \in Int, lo <= hi,
           Min(years) = lo, Max(years) = hi, NEW v, IsDate(v),
           NEW prev, prev = PrevMonth(nml, years, v),
           NEW next, next = NextMonth(nml, years, v)
    PROVE  prev \in Mean /\ next \in Mean /\ OzoneData(nml, v, prev, next) \in Data
  <1>1. PICK a : a = LastValid(v)
    OBVIOUS
  <1>2. PICK b : b = MonthAfter(a)
    OBVIOUS
  <1>3. PICK f : f = FirstValid(v)
    OBVIOUS
  <1>4. a \in Mean /\ f \in Mean /\ MonthOf(v) \in Mean
    BY <1>1, <1>2, <1>3, AroundDate
  <1>5. v.year \in Int
    BY DateIs
  <1>6. /\ <<lo, 1>> \in Mean /\ <<hi, 12>> \in Mean
        /\ <<v.year, 12>> \in Mean /\ <<v.year, 1>> \in Mean
    BY <1>5 DEF Mean, Months
  <1>7. /\ Nearest(years, <<v.year, 12>>) \in Mean /\ Nearest(years, <<v.year, 1>>) \in Mean
        /\ Nearest(years, MonthOf(v)) \in Mean
    BY <1>4, <1>6, NearestIs
  <1>8. prev \in Mean
    BY <1>1, <1>4, <1>6, <1>7 DEF PrevMonth
  <1>9. next \in Mean
    BY <1>3, <1>4, <1>6, <1>7 DEF NextMonth
  <1>10. PICK p : p = IF WrapsBack(nml, v) THEN <<v.year - 1, prev[2]>> ELSE prev
    OBVIOUS
  <1>11. PICK n : n = IF WrapsOn(nml, v) THEN <<v.year + 1, next[2]>> ELSE next
    OBVIOUS
  <1>12. /\ p[1] \in Int /\ p[2] \in Months /\ p = <<p[1], p[2]>>
         /\ n[1] \in Int /\ n[2] \in Months /\ n = <<n[1], n[2]>>
    BY <1>5, <1>8, <1>9, <1>10, <1>11 DEF Mean
  <1>13. FromEpoch(Middle(p)) \in Int /\ FromEpoch(Middle(n)) \in Int
    BY <1>12, MiddleAt
  <1>14. FromEpoch(v) \in Int
    BY StartOfMonth
  <1>15. OzoneData(nml, v, prev, next) =
           IF FromEpoch(Middle(p)) = FromEpoch(Middle(n))
           THEN [a |-> prev, b |-> next, num |-> 1, den |-> 2]
           ELSE [a |-> prev, b |-> next, num |-> FromEpoch(v) - FromEpoch(Middle(p)),
                 den |-> FromEpoch(Middle(n)) - FromEpoch(Middle(p))]
    BY <1>10, <1>11 DEF OzoneData
  <1>16. OzoneData(nml, v, prev, next) \in [a : Mean, b : Mean, num : Int, den : Int]
    <2>1. PICK from : from = FromEpoch(Middle(p))
      OBVIOUS
    <2>2. PICK to : to = FromEpoch(Middle(n))
      OBVIOUS
    <2>3. PICK at_v : at_v = FromEpoch(v)
      OBVIOUS
    <2>4. from \in Int /\ to \in Int /\ at_v \in Int
      BY <1>13, <1>14, <2>1, <2>2, <2>3
    <2>5. OzoneData(nml, v, prev, next) =
           IF from = to THEN [a |-> prev, b |-> next, num |-> 1, den |-> 2]
           ELSE [a |-> prev, b |-> next, num |-> at_v - from, den |-> to - from]
      BY <1>15, <2>1, <2>2, <2>3
    <2> QED
      BY <1>8, <1>9, <2>4, <2>5
  <1> QED
    BY <1>8, <1>9, <1>16 DEF Data

(* The data are those interpolated when the months have the right names:   *)
(* that before the date always, that after it unless the date is a middle. *)
LEMMA OzoneShares ==
    ASSUME NEW v, IsDate(v), NEW a, a = LastValid(v), NEW b, b = MonthAfter(a),
           NEW n, n = FromEpoch(v) - FromEpoch(Middle(a)),
           NEW w, w = FromEpoch(Middle(b)) - FromEpoch(Middle(a)),
           NEW first, NEW second, NEW prev, NEW next, NEW p, NEW q, NEW x,
           x = IF FromEpoch(Middle(p)) = FromEpoch(Middle(q))
               THEN [a |-> prev, b |-> next, num |-> 1, den |-> 2]
               ELSE [a |-> prev, b |-> next, num |-> FromEpoch(v) - FromEpoch(Middle(p)),
                     den |-> FromEpoch(Middle(q)) - FromEpoch(Middle(p))],
           prev = first,
           \/ p = q /\ next = prev /\ (next = second \/ n = 0)
           \/ p = a /\ q = b /\ next = second
    PROVE  SameData(x, [a |-> first, b |-> second, num |-> n, den |-> w])
  <1>1. /\ FromEpoch(Middle(a)) \in Int /\ FromEpoch(Middle(b)) \in Int
        /\ FromEpoch(Middle(a)) <= FromEpoch(v) /\ FromEpoch(v) < FromEpoch(Middle(b))
    BY BetweenMiddles
  <1>2. FromEpoch(v) \in Int
    BY StartOfMonth
  <1>3. n \in Int /\ w \in Int
    BY <1>1, <1>2
  <1>4. CASE p = q /\ next = prev /\ next = second
    <2>1. x = [a |-> first, b |-> first, num |-> 1, den |-> 2] /\ second = first
      BY <1>4
    <2> QED
      BY <1>3, <2>1, SameMonth
  <1>5. CASE p = q /\ next = prev /\ n = 0
    <2>1. x = [a |-> first, b |-> first, num |-> 1, den |-> 2]
      BY <1>5
    <2> QED
      BY <1>3, <1>5, <2>1, SameInMiddle
  <1>6. CASE p = a /\ q = b /\ next = second
    <2>1. FromEpoch(Middle(p)) # FromEpoch(Middle(q))
      BY <1>1, <1>2, <1>6
    <2>2. x = [a |-> first, b |-> second, num |-> n, den |-> w]
      BY <1>6, <2>1
    <2> QED
      BY <1>3, <2>2, SameAsItself
  <1> QED
    BY <1>4, <1>5, <1>6

YearsAre(years, lo, hi) ==
  /\ lo \in Int /\ hi \in Int /\ lo <= hi /\ years = lo .. hi
  /\ Min(years) = lo /\ Max(years) = hi /\ 1850 <= lo

YearsAround(s, e, lo, hi) ==
  /\ s \in Int /\ s = setup.start.year /\ e \in Int /\ e = setup.end.year
  /\ lo = IF s - 1 <= 1850 THEN 1850 ELSE s - 1
  /\ hi = IF e + 1 >= 2099 THEN 2099 ELSE e + 1
  /\ hi <= 2099

Beside(v, a, b, f) ==
  IsDate(v) /\ a = LastValid(v) /\ b = MonthAfter(a) /\ f = FirstValid(v)

LEMMA LeastYear ==
    ASSUME NEW s \in Int, NEW y \in Int, NEW i \in Int, NEW lo,
           lo = IF s - 1 <= 1850 THEN 1850 ELSE s - 1, s <= y, y <= i, i < lo
    PROVE  lo = 1850
  OBVIOUS

Found(years, v, prev, next) ==
  prev = PrevMonth(setup.nml, years, v) /\ next = NextMonth(setup.nml, years, v)

(* Of the historical ozone, the months are taken as they are, and before   *)
(* and after the years that there are the nearest.                         *)
LEMMA HistoricalMonths ==
    ASSUME setup \in Setups, OzoneScenario(setup.nml) = "historical",
           NEW years, NEW lo, NEW hi, YearsAre(years, lo, hi),
           NEW s, NEW e, YearsAround(s, e, lo, hi),
           NEW v, NEW a, NEW b, NEW f, Beside(v, a, b, f), s <= v.year, v.year <= e,
           NEW prev, NEW next, Found(years, v, prev, next), next[1] \in years
    PROVE  /\ prev = OzoneName(a)
           /\ \/ next = OzoneName(b)
              \/ f = a /\ next = prev
           /\ \/ prev = next
              \/ prev = a /\ next = b
  <1>years. /\ lo \in Int /\ hi \in Int /\ lo <= hi /\ years = lo .. hi
            /\ Min(years) = lo /\ Max(years) = hi /\ 1850 <= lo
    BY DEF YearsAre
  <1>span. /\ s \in Int /\ e \in Int /\ hi <= 2099
           /\ lo = IF s - 1 <= 1850 THEN 1850 ELSE s - 1
           /\ hi = IF e + 1 >= 2099 THEN 2099 ELSE e + 1
    BY DEF YearsAround
  <1>date. IsDate(v) /\ a = LastValid(v) /\ b = MonthAfter(a) /\ f = FirstValid(v)
    BY DEF Beside
  <1>found. prev = PrevMonth(setup.nml, years, v) /\ next = NextMonth(setup.nml, years, v)
    BY DEF Found
  <1>run. s <= v.year /\ v.year <= e /\ next[1] \in years
    OBVIOUS
  <1>1. /\ a \in Mean /\ b \in Mean /\ f \in Mean /\ MonthOf(v) \in Mean
        /\ a = <<a[1], a[2]>> /\ b = <<b[1], b[2]>>
        /\ f = a \/ f = b
        /\ a = MonthOf(v) \/ (b = MonthOf(v) /\ f = b)
        /\ (a[2] = 12 => b[1] = a[1] + 1 /\ b[2] = 1) /\ (a[2] # 12 => b[1] = a[1])
        /\ MonthOf(v)[1] = v.year /\ MonthOf(v)[2] = v.month
    BY ONLY <1>date, AroundDate
  <1>2. /\ v.year \in Int /\ v.month \in Months /\ v.minute \in Nat
        /\ MonthOf(v) = <<v.year, v.month>>
    BY ONLY <1>date, DateIs DEF MonthOf
  <1>3. a[1] \in Int /\ b[1] \in Int /\ f[1] \in Int /\ a[2] \in Months /\ b[2] \in Months
    BY ONLY <1>1 DEF Mean
  <1>4. ~WrapsBack(setup.nml, v) /\ ~WrapsOn(setup.nml, v)
    BY DEF WrapsBack, WrapsOn
  <1>5. Nearest(years, MonthOf(v)) = IF v.year < lo THEN <<lo, 1>>
                                     ELSE IF v.year > hi THEN <<hi, 12>> ELSE <<v.year, v.month>>
    <2>1. PICK m : m = MonthOf(v)
      OBVIOUS
    <2>2. m \in Mean
      BY <1>1, <2>1
    <2>3. Nearest(years, m) = IF m[1] < lo THEN <<lo, 1>>
                              ELSE IF m[1] > hi THEN <<hi, 12>> ELSE m
      BY ONLY <1>years, <2>2, NearestIs
    <2>4. m[1] = v.year /\ m = <<v.year, v.month>>
      BY ONLY <1>1, <1>2, <2>1
    <2> QED
      BY ONLY <2>1, <2>3, <2>4
  <1>6. \A m : OzoneName(m) = IF m[1] < 1850 THEN <<1850, 1>>
                              ELSE IF m[1] > 2099 THEN <<2099, 12>> ELSE m
    BY DEF OzoneName
  <1>7. prev = OzoneName(a)
    <2>1. prev = IF a[1] < 1850 THEN Nearest(years, MonthOf(v))
                 ELSE IF a[1] > hi THEN <<hi, 12>> ELSE a
      BY ONLY <1>4, <1>date, <1>found, <1>years DEF PrevMonth
    <2>2. CASE a[1] < 1850
      <3>1. PICK i \in Int : i = a[1]
        BY ONLY <1>3
      <3>2. PICK y \in Int : y = v.year
        BY ONLY <1>2
      <3>3. (y = i \/ y = i + 1) /\ i < 1850 /\ s <= y /\ (y = i + 1 => v.month = 1)
        BY ONLY <1>1, <1>2, <1>3, <1>run, <2>2, <3>1, <3>2
      <3>4. lo = 1850
        BY ONLY <1>span, <3>1, <3>2, <3>3
      <3>5. y < 1850 \/ (y = 1850 /\ v.month = 1)
        BY ONLY <3>1, <3>2, <3>3
      <3>6. hi >= 1850
        BY ONLY <1>years, <3>4
      <3>7. Nearest(years, MonthOf(v)) = <<1850, 1>>
        BY ONLY <1>5, <1>years, <3>2, <3>4, <3>5, <3>6
      <3> QED
        BY ONLY <1>6, <2>1, <2>2, <3>7
    <2>3. CASE ~(a[1] < 1850) /\ a[1] > hi
      <3>1. PICK i \in Int : i = a[1]
        BY ONLY <1>3
      <3>2. PICK y \in Int : y = v.year
        BY ONLY <1>2
      <3>3. (y = i \/ y = i + 1) /\ i > hi /\ y <= e
        BY ONLY <1>1, <1>2, <1>3, <1>run, <2>3, <3>1, <3>2
      <3>4. hi = 2099
        BY ONLY <1>span, <3>1, <3>2, <3>3
      <3> QED
        BY ONLY <1>3, <1>6, <2>1, <2>3, <3>4
    <2>4. CASE ~(a[1] < 1850) /\ ~(a[1] > hi)
      <3>1. PICK i \in Int : i = a[1]
        BY ONLY <1>3
      <3>2. ~(i > 2099) /\ ~(i < 1850)
        BY ONLY <1>years, <1>span, <2>4, <3>1
      <3> QED
        BY ONLY <1>6, <2>1, <2>4, <3>1, <3>2
    <2> QED
      BY ONLY <2>2, <2>3, <2>4
  <1>8. next = OzoneName(b) \/ (f = a /\ next = prev)
    <2> DEFINE late == Before(Date(2099, 12, 31, 12 * Hour), v)
    <2>1. next = IF late THEN Nearest(years, MonthOf(v))
                 ELSE IF f[1] < lo THEN <<lo, 1>> ELSE f
      <3>1. /\ ~WrapsOn(setup.nml, v) /\ Min(years) = lo
            /\ FirstValid(v) = f /\ next = NextMonth(setup.nml, years, v)
        BY ONLY <1>4, <1>date, <1>found, <1>years
      <3> QED
        BY ONLY <3>1 DEF NextMonth
    <2>2. late => v.year > 2099 \/ (v.year = 2099 /\ v.month = 12 /\ v.minute > 30 * 1440 + 720)
      BY ONLY <1>date, AfterLastNoon
    <2> HIDE DEF late
    <2>3. CASE late
      <3>y. PICK y \in Int : y = v.year
        BY ONLY <1>2
      <3>1. y >= 2099 /\ y <= e /\ (y = 2099 => v.month = 12)
        BY ONLY <1>2, <1>run, <2>2, <2>3, <3>y
      <3>hi. hi = 2099 /\ lo <= 2099
        BY ONLY <1>span, <1>years, <3>1, <3>y
      <3>2. Nearest(years, MonthOf(v)) = <<2099, 12>>
        BY ONLY <1>5, <1>years, <3>1, <3>y, <3>hi
      <3>3. CASE v.year > 2099
        <4>1. b[1] > 2099
          BY ONLY <1>1, <1>2, <1>3, <3>3
        <4>2. OzoneName(b) = <<2099, 12>>
          BY ONLY <1>3, <1>6, <4>1
        <4>3. next = <<2099, 12>>
          BY ONLY <2>1, <2>3, <3>2
        <4> QED
          BY <4>2, <4>3
      <3>4. CASE v.year = 2099 /\ v.month = 12 /\ v.minute > 30 * 1440 + 720
        <4>1. PICK half : half = 720 * Days(v.year, v.month)
          OBVIOUS
        <4>2. half = 22320
          BY ONLY <3>4, <4>1 DEF Days
        <4>3. a = MonthOf(v)
          <5>1. v.minute > half
            BY ONLY <1>2, <3>4, <4>2
          <5> QED
            BY ONLY <1>date, <4>1, <5>1, ValidMonths
        <4>4. b[1] > 2099
          BY ONLY <1>1, <1>2, <3>4, <4>3
        <4>5. OzoneName(b) = <<2099, 12>>
          BY ONLY <1>3, <1>6, <4>4
        <4>6. next = <<2099, 12>>
          BY ONLY <2>1, <2>3, <3>2
        <4> QED
          BY <4>5, <4>6
      <3> QED
        BY <2>2, <2>3, <3>3, <3>4
    <2>4. CASE ~late /\ f[1] < lo
      <3>1. lo = 1850 /\ next = <<1850, 1>>
        <4>1. v.year <= f[1]
          BY ONLY <1>1, <1>2, <1>3
        <4>2. lo = 1850
          <5>1. PICK i \in Int : i = f[1]
            BY ONLY <1>3
          <5>2. PICK y \in Int : y = v.year
            BY ONLY <1>2
          <5>3. s <= y /\ y <= i /\ i < lo
            BY ONLY <1>run, <2>4, <4>1, <5>1, <5>2
          <5> QED
            BY ONLY <1>span, <5>3, LeastYear
        <4>3. next = <<lo, 1>>
          BY ONLY <2>1, <2>4
        <4> QED
          BY ONLY <4>2, <4>3
      <3>2. f[1] < 1850
        BY ONLY <2>4, <3>1
      <3>3. CASE f = a
        <4>1. prev = <<1850, 1>>
          BY ONLY <1>6, <1>7, <3>2, <3>3
        <4> QED
          BY ONLY <3>1, <3>3, <4>1
      <3>4. CASE f = b
        BY ONLY <1>6, <3>1, <3>2, <3>4
      <3> QED
        BY <1>1, <3>3, <3>4
    <2>5. CASE ~late /\ ~(f[1] < lo)
      <3>1. next = f /\ 1850 <= f[1] /\ f[1] <= 2099
        <4>1. next = f
          BY ONLY <2>1, <2>5
        <4>2. f[1] \in lo .. hi
          BY ONLY <1>years, <1>run, <4>1
        <4>3. 1850 <= f[1] /\ f[1] <= 2099
          BY ONLY <1>years, <1>span, <4>2
        <4> QED
          BY ONLY <4>1, <4>3
      <3>2. OzoneName(f) = f
        BY ONLY <1>3, <1>6, <3>1
      <3> QED
        BY <1>1, <1>7, <3>1, <3>2
    <2> QED
      BY <2>3, <2>4, <2>5
  <1>9. prev = next \/ (prev = a /\ next = b)
    <2>1. OzoneName(a) = OzoneName(b) \/ (OzoneName(a) = a /\ OzoneName(b) = b)
      <3>1. CASE a[1] < 1850
        <4>1. b[1] < 1850 \/ (b[1] = 1850 /\ b[2] = 1)
          BY ONLY <1>1, <1>3, <3>1
        <4>2. OzoneName(b) = <<1850, 1>>
          BY ONLY <1>1, <1>3, <1>6, <4>1
        <4> QED
          BY ONLY <1>6, <3>1, <4>2
      <3>2. CASE a[1] > 2099
        <4>1. b[1] > 2099
          BY ONLY <1>1, <1>3, <3>2
        <4> QED
          BY ONLY <1>3, <1>6, <3>2, <4>1
      <3>3. CASE 1850 <= a[1] /\ a[1] <= 2099
        <4>1. OzoneName(a) = a
          BY ONLY <1>3, <1>6, <3>3
        <4>2. CASE b[1] <= 2099
          <5>1. OzoneName(b) = b
            BY ONLY <1>1, <1>3, <1>6, <3>3, <4>2
          <5> QED
            BY ONLY <4>1, <5>1
        <4>3. CASE b[1] > 2099
          <5>1. a[1] = 2099 /\ a[2] = 12
            BY ONLY <1>1, <1>3, <3>3, <4>3
          <5>2. OzoneName(b) = <<2099, 12>>
            BY ONLY <1>3, <1>6, <4>3
          <5> QED
            BY ONLY <1>1, <4>1, <5>1, <5>2
        <4> QED
          BY ONLY <1>3, <4>2, <4>3
      <3> QED
        BY ONLY <1>3, <3>1, <3>2, <3>3
    <2> QED
      BY ONLY <1>7, <1>8, <2>1
  <1> QED
    BY ONLY <1>7, <1>8, <1>9

(* Of a perpetual year, the months are those of that year, and the last    *)
(* comes before the first.                                                 *)
LEMMA PerpetualMonths ==
    ASSUME OzoneScenario(setup.nml) # "historical",
           NEW year \in Int, year = PerpetualYear(setup.nml),
           NEW years, NEW lo, NEW hi, YearsAre(years, lo, hi),
           lo <= year, year <= hi, hi <= 1899,
           NEW v, NEW a, NEW b, NEW f, Beside(v, a, b, f), v.year = year,
           NEW prev, NEW next, Found(years, v, prev, next)
    PROVE  /\ prev = OzoneName(a) /\ next = OzoneName(f)
           /\ (IF WrapsBack(setup.nml, v) THEN <<v.year - 1, prev[2]>> ELSE prev) = a
           /\ (IF WrapsOn(setup.nml, v) THEN <<v.year + 1, next[2]>> ELSE next) = f
  <1> USE DEF YearsAre, Beside, Found
  <1>1. /\ a \in Mean /\ b \in Mean /\ f \in Mean /\ MonthOf(v) \in Mean
        /\ a = <<a[1], a[2]>> /\ b = <<b[1], b[2]>>
        /\ f = a \/ f = b
        /\ a = MonthOf(v) \/ (b = MonthOf(v) /\ f = b)
        /\ (a[2] = 12 => b[1] = a[1] + 1 /\ b[2] = 1) /\ (a[2] # 12 => b[1] = a[1])
        /\ MonthOf(v)[1] = v.year /\ MonthOf(v)[2] = v.month
    BY AroundDate
  <1>2. a[1] \in Int /\ b[1] \in Int /\ f[1] \in Int /\ f = <<f[1], f[2]>>
    BY <1>1 DEF Mean
  <1>3. \A m : OzoneName(m) = <<year, m[2]>>
    BY DEF OzoneName
  <1>4. /\ WrapsBack(setup.nml, v) <=> a[1] < year
        /\ WrapsOn(setup.nml, v) <=> f[1] > year
    BY DEF WrapsBack, WrapsOn
  <1>5. /\ a[1] = year \/ (a[1] = year - 1 /\ a[2] = 12)
        /\ f[1] = year \/ (f[1] = year + 1 /\ f[2] = 1)
    BY <1>1, <1>2
  <1>6. Nearest(years, <<year, 12>>) = <<year, 12>> /\ Nearest(years, <<year, 1>>) = <<year, 1>>
    <2>1. <<year, 12>> \in Mean /\ <<year, 1>> \in Mean
      BY DEF Mean, Months
    <2> QED
      BY <2>1, NearestIs
  <1>7. ~Before(Date(2099, 12, 31, 12 * Hour), v)
    <2>1. Date(2099, 12, 31, 12 * Hour) = [year |-> 2099, month |-> 12, minute |-> 43920]
      BY DEF Date, Day, Hour
    <2> QED
      BY <2>1 DEF Before, NotAfter
  <1>8. prev = OzoneName(a)
    <2>1. CASE a[1] < year
      <3>1. prev = Nearest(years, <<year, 12>>) /\ a[2] = 12
        BY <1>4, <1>5, <2>1 DEF PrevMonth
      <3> QED
        BY ONLY <1>3, <1>6, <3>1
    <2>2. CASE a[1] = year
      <3>1. prev = a
        BY <1>4, <2>2 DEF PrevMonth
      <3> QED
        BY <1>1, <1>3, <2>2, <3>1
    <2> QED
      BY <1>5, <2>1, <2>2
  <1>9. next = OzoneName(f)
    <2>1. CASE f[1] > year
      <3>1. next = Nearest(years, <<year, 1>>) /\ f[2] = 1
        BY <1>4, <1>5, <2>1 DEF NextMonth
      <3> QED
        BY ONLY <1>3, <1>6, <3>1
    <2>2. CASE f[1] = year
      <3>1. next = f
        BY <1>4, <1>7, <2>2 DEF NextMonth
      <3> QED
        BY <1>2, <1>3, <2>2, <3>1
    <2> QED
      BY <1>5, <2>1, <2>2
  <1>10. (IF WrapsBack(setup.nml, v) THEN <<v.year - 1, prev[2]>> ELSE prev) = a
    <2>1. prev = <<year, a[2]>> /\ prev[2] = a[2]
      BY <1>3, <1>8
    <2> QED
      BY <1>1, <1>2, <1>4, <1>5, <2>1
  <1>11. (IF WrapsOn(setup.nml, v) THEN <<v.year + 1, next[2]>> ELSE next) = f
    <2>1. next = <<year, f[2]>> /\ next[2] = f[2]
      BY <1>3, <1>9
    <2> QED
      BY <1>2, <1>4, <1>5, <2>1
  <1> QED
    BY <1>8, <1>9, <1>10, <1>11

(* What is sent for a date, unless the provider fails, is right.           *)
LEMMA OzoneIsRight ==
    ASSUME setup \in Setups, Atmosphere, OzoneScenario(setup.nml) # "refused",
           NEW d, IsDate(d), setup.start.year <= d.year, d.year <= setup.end.year,
           NEW years, years = YearsRead(setup.nml, setup.start, setup.end),
           NEW v, v = OzoneDate(setup.nml, d),
           ~OzoneFails(setup.nml, years, v),
           NEW prev, prev = PrevMonth(setup.nml, years, v),
           NEW next, next = NextMonth(setup.nml, years, v),
           NEW x, x = OzoneData(setup.nml, v, prev, next)
    PROVE  x \in Data /\ (PerpetualYearRead => SameData(x, Expected(OzoneField, d)))
  <1>1. years # {} /\ v.minute < Length(v.year, v.month) /\ next[1] \in years
    <2>1. years # {} /\ ~(v.minute >= Length(v.year, v.month)) /\ next[1] \in years
      BY DEF OzoneFails
    <2>2. /\ d.year \in Int /\ d.month \in Months /\ d.minute \in Nat
          /\ d = [year |-> d.year, month |-> d.month, minute |-> d.minute]
      BY DateIs DEF IsDate
    <2>3. PerpetualYear(setup.nml) \in Int
      BY SetupIs DEF PerpetualYear, PERP_YEAR
    <2>4. v.month \in Months /\ v.minute \in Nat /\ v.year \in Int
      BY <2>2, <2>3 DEF OzoneDate
    <2>5. Length(v.year, v.month) \in Int
      BY <2>4, LengthIs, DaysAre
    <2> QED
      BY <2>1, <2>4, <2>5
  <1>2. IsDate(v) /\ PerpetualYear(setup.nml) \in Int
    <2>1. d.year \in Int /\ d \in [year : Int, month : Months, minute : Nat]
      BY DateIs DEF IsDate, Months
    <2>2. PerpetualYear(setup.nml) \in Int
      BY SetupIs DEF PerpetualYear, PERP_YEAR
    <2>3. v \in [year : Int, month : Months, minute : Nat]
      BY <2>1, <2>2 DEF OzoneDate
    <2> QED
      BY <1>1, <2>2, <2>3 DEF IsDate, Months
  <1>3. PICK lo \in Int, hi \in Int :
          /\ Min(years) = lo /\ Max(years) = hi /\ years = lo .. hi
          /\ 1850 <= lo /\ lo <= hi /\ hi <= LastInFile
          /\ OzoneScenario(setup.nml) = "historical" =>
               /\ lo = IF setup.start.year - 1 <= 1850 THEN 1850 ELSE setup.start.year - 1
               /\ hi = IF setup.end.year + 1 >= 2099 THEN 2099 ELSE setup.end.year + 1
          /\ /\ OzoneScenario(setup.nml) \in {"picontrol", "perpetual"}
             /\ PerpetualYearRead
             => lo <= PerpetualYear(setup.nml) /\ PerpetualYear(setup.nml) <= hi
    BY <1>1, OzoneYears
  <1>4. PICK nml : nml = setup.nml
    OBVIOUS
  <1>5. x \in Data
    <2>1. prev = PrevMonth(nml, years, v) /\ next = NextMonth(nml, years, v)
      BY <1>4
    <2>2. OzoneData(nml, v, prev, next) \in Data
      BY <1>2, <1>3, <2>1, OzoneTyped
    <2> QED
      BY <1>4, <2>2
  <1>6. PICK a : a = LastValid(v)
    OBVIOUS
  <1>7. PICK b : b = MonthAfter(a)
    OBVIOUS
  <1>8. PICK f : f = FirstValid(v)
    OBVIOUS
  <1>9. PICK n : n = FromEpoch(v) - FromEpoch(Middle(a))
    OBVIOUS
  <1>10. PICK w : w = FromEpoch(Middle(b)) - FromEpoch(Middle(a))
    OBVIOUS
  <1>11. PICK p : p = IF WrapsBack(setup.nml, v) THEN <<v.year - 1, prev[2]>> ELSE prev
    OBVIOUS
  <1>12. PICK q : q = IF WrapsOn(setup.nml, v) THEN <<v.year + 1, next[2]>> ELSE next
    OBVIOUS
  <1>13. PICK first : first = OzoneName(a)
    OBVIOUS
  <1>14. PICK second : second = OzoneName(b)
    OBVIOUS
  <1>15. x = IF FromEpoch(Middle(p)) = FromEpoch(Middle(q))
             THEN [a |-> prev, b |-> next, num |-> 1, den |-> 2]
             ELSE [a |-> prev, b |-> next, num |-> FromEpoch(v) - FromEpoch(Middle(p)),
                   den |-> FromEpoch(Middle(q)) - FromEpoch(Middle(p))]
    BY <1>11, <1>12 DEF OzoneData
  <1>16. Expected(OzoneField, d) = [a |-> first, b |-> second, num |-> n, den |-> w]
    <2>1. Expected(OzoneField, d) = Interpolated(v, OzoneName)
      BY FieldsDiffer DEF Expected, OzoneDate
    <2> QED
      BY <1>6, <1>7, <1>9, <1>10, <1>13, <1>14, <2>1 DEF Interpolated
  <1>17. f = a => n = 0
    <2>1. /\ FromEpoch(Middle(a)) \in Int
          /\ f = IF FromEpoch(v) = FromEpoch(Middle(a)) THEN a ELSE b
          /\ FromEpoch(v) < FromEpoch(Middle(b))
      BY <1>2, <1>6, <1>7, <1>8, BetweenMiddles
    <2>2. FromEpoch(v) \in Int
      BY <1>2, StartOfMonth
    <2>3. CASE FromEpoch(v) = FromEpoch(Middle(a))
      BY <1>9, <2>1, <2>2, <2>3
    <2>4. CASE FromEpoch(v) # FromEpoch(Middle(a))
      <3>1. f = b
        BY <2>1, <2>4
      <3>2. a # b
        <4>1. b[2] # a[2]
          <5>1. a \in Mean /\ a = <<a[1], a[2]>>
            BY <1>2, <1>6, <1>7, <1>8, AroundDate
          <5>2. a[2] \in Months
            BY <5>1 DEF Mean
          <5> QED
            BY <1>7, <5>2 DEF MonthAfter, Months
        <4> QED
          BY <4>1
      <3> QED
        BY <3>1, <3>2
    <2> QED
      BY <2>3, <2>4
  <1>18. ASSUME PerpetualYearRead
         PROVE  /\ prev = first
                /\ \/ p = q /\ next = prev /\ (next = second \/ n = 0)
                   \/ p = a /\ q = b /\ next = second
    <2>1. CASE OzoneScenario(setup.nml) = "historical"
      <3>1. p = prev /\ q = next
        BY <1>11, <1>12, <2>1 DEF WrapsBack, WrapsOn
      <3>2. v = d /\ LastInFile = 2099
        BY <2>1 DEF OzoneDate, LastInFile
      <3>3. PICK s : s = setup.start.year
        OBVIOUS
      <3>4. PICK e : e = setup.end.year
        OBVIOUS
      <3>5. s \in Int /\ e \in Int
        BY <3>3, <3>4, SetupIs, DateIs
      <3>6. /\ lo = IF s - 1 <= 1850 THEN 1850 ELSE s - 1
            /\ hi = IF e + 1 >= 2099 THEN 2099 ELSE e + 1
            /\ s <= v.year /\ v.year <= e /\ hi <= 2099
        BY <1>3, <2>1, <3>2, <3>3, <3>4
      <3>7. /\ prev = OzoneName(a)
            /\ \/ next = OzoneName(b)
               \/ f = a /\ next = prev
            /\ \/ prev = next
               \/ prev = a /\ next = b
        <4>1. YearsAre(years, lo, hi)
          BY <1>3 DEF YearsAre
        <4>2. YearsAround(s, e, lo, hi)
          BY <3>3, <3>4, <3>5, <3>6 DEF YearsAround
        <4>3. Beside(v, a, b, f) /\ Found(years, v, prev, next)
          BY <1>2, <1>6, <1>7, <1>8 DEF Beside, Found
        <4> QED
          BY <1>1, <2>1, <3>6, <4>1, <4>2, <4>3, HistoricalMonths
      <3> QED
        BY <1>13, <1>14, <1>17, <3>1, <3>7
    <2>2. CASE OzoneScenario(setup.nml) # "historical"
      <3>1. OzoneScenario(setup.nml) \in {"picontrol", "perpetual"} /\ LastInFile = 1899
        BY <2>2 DEF OzoneScenario, LastInFile
      <3>2. PICK year : year = PerpetualYear(setup.nml)
        OBVIOUS
      <3>3. year \in Int /\ lo <= year /\ year <= hi /\ hi <= 1899
        BY <1>2, <1>3, <1>18, <3>1, <3>2
      <3>4. v.year = year
        <4>1. v = [d EXCEPT !.year = year]
          BY <2>2, <3>2 DEF OzoneDate
        <4>2. d \in [year : Int, month : 1 .. 12, minute : Nat]
          BY DEF IsDate
        <4> QED
          BY <4>1, <4>2
      <3>5. prev = OzoneName(a) /\ next = OzoneName(f) /\ p = a /\ q = f
        <4>1. YearsAre(years, lo, hi)
          BY <1>3 DEF YearsAre
        <4>2. Beside(v, a, b, f) /\ Found(years, v, prev, next)
          BY <1>2, <1>6, <1>7, <1>8 DEF Beside, Found
        <4> QED
          BY <1>11, <1>12, <2>2, <3>2, <3>3, <3>4, <4>1, <4>2, PerpetualMonths
      <3>6. f = a \/ f = b
        BY <1>2, <1>6, <1>7, <1>8, AroundDate
      <3> QED
        BY <1>13, <1>14, <1>17, <3>5, <3>6
    <2> QED
      BY <2>1, <2>2
  <1>19. ASSUME PerpetualYearRead PROVE SameData(x, Expected(OzoneField, d))
    <2>1. SameData(x, [a |-> first, b |-> second, num |-> n, den |-> w])
      BY <1>2, <1>6, <1>7, <1>9, <1>10, <1>15, <1>18, <1>19, OzoneShares
    <2> QED
      BY <1>16, <2>1
  <1> QED
    BY <1>5, <1>19

LEMMA ReadOzoneFlow ==
    ASSUME TypeInv, NEW put \in [Providers -> Nat], NEW g \in Nat, Flow(put, g),
           OzoneScenario(setup.nml) # "refused", ReadOzone
    PROVE  TypeInv' /\ Flow(put, g)'
  <1>0. /\ setup \in Setups /\ queue \in [Providers -> Seq(Item)]
        /\ status \in [Providers -> {"running", "ended", "failed"}]
    BY DEF TypeInv
  <1>1. /\ Ozone \in Providers /\ queue[Ozone] = <<>> /\ ~Over(Ozone)
        /\ UNCHANGED <<setup, at, case, slot, now, todo, got>>
    BY DEF ReadOzone, CanRead
  <1>2. Atmosphere
    <2>1. SUFFICES ASSUME ~Atmosphere PROVE FALSE
      OBVIOUS
    <2>2. PICK r : Ozone = Rank(r)
      BY <1>1, <2>1 DEF Providers
    <2> QED
      BY <2>2 DEF Rank, Ozone
  <1>3. PICK d : d = at[Ozone]
    OBVIOUS
  <1>4. PICK years : years = YearsRead(setup.nml, setup.start, setup.end)
    OBVIOUS
  <1>5. PICK v : v = OzoneDate(setup.nml, d)
    OBVIOUS
  <1>6. Placed(Ozone, put[Ozone]) /\ put[Ozone] \in Nat
    BY <1>1 DEF Flow
  <1>7. /\ IsDate(d) /\ setup.start.year <= d.year /\ d.year <= setup.end.year
        /\ \A date : IsDate(date) /\ FromEpoch(date) = Minutes(put[Ozone]) => date = d
    BY <1>0, <1>1, <1>2, <1>3, <1>6, DateOfPut
  <1>8. CASE OzoneFails(setup.nml, years, v)
    <2>1. status' = [status EXCEPT ![Ozone] = "failed"] /\ UNCHANGED queue
      BY <1>3, <1>4, <1>5, <1>8 DEF ReadOzone
    <2>2. status' \in [Providers -> {"running", "ended", "failed"}]
      BY <1>0, <2>1
    <2>3. TypeInv'
      BY <1>1, <2>1, <2>2, TypeStep DEF TypeInv
    <2>4. Flow(put, g)'
      BY <1>1, <2>1, FlowKept
    <2> QED
      BY <2>3, <2>4
  <1>9. CASE ~OzoneFails(setup.nml, years, v)
    <2>1. PICK prev : prev = PrevMonth(setup.nml, years, v)
      OBVIOUS
    <2>2. PICK next : next = NextMonth(setup.nml, years, v)
      OBVIOUS
    <2>3. PICK x : x = OzoneData(setup.nml, v, prev, next)
      OBVIOUS
    <2> DEFINE q == <<[field |-> OzoneField, data |-> x]>>
    <2>4. queue' = [queue EXCEPT ![Ozone] = q] /\ status' = status
      BY <1>3, <1>4, <1>5, <1>9, <2>1, <2>2, <2>3 DEF ReadOzone
    <2>5. x \in Data /\ (PerpetualYearRead => SameData(x, Expected(OzoneField, d)))
      BY <1>0, <1>2, <1>4, <1>5, <1>7, <1>9, <2>1, <2>2, <2>3, OzoneIsRight
    <2>6. /\ Fields = {CoarseField, FineField, OzoneField}
          /\ Owner(CoarseField) = Aero /\ Owner(FineField) = Aero /\ Owner(OzoneField) = Ozone
      BY <1>2, Owners
    <2>7. RightAt(OzoneField, put[Ozone], x)
      <3>1. Good(OzoneField, d, x)
        BY <1>2, <2>5, FieldsDiffer DEF Good
      <3> QED
        BY <1>7, <3>1 DEF RightAt
    <2>8. q \in Seq(Item) /\ Len(q) = 1 /\ q[1].field = OzoneField /\ q[1].data = x
      <3>1. [field |-> OzoneField, data |-> x] \in Item
        BY <2>5, <2>6 DEF Item
      <3> QED
        BY <3>1
    <2> HIDE DEF q
    <2>9. Made(Ozone, put[Ozone], q)
      <3>1. \A i \in 1 .. Len(q) : i = 1
        BY <2>8
      <3>2. 1 \in 1 .. Len(q)
        BY <2>8
      <3>3. \A i \in 1 .. Len(q) : /\ Owner(q[i].field) = Ozone
                                   /\ RightAt(q[i].field, put[Ozone], q[i].data)
        BY <2>6, <2>7, <2>8, <3>1
      <3>4. \A f \in Fields : Owner(f) = Ozone => \E i \in 1 .. Len(q) : q[i].field = f
        BY <2>6, <2>8, <3>2, FieldsDiffer
      <3> QED
        BY <1>2, <2>8, <3>1, <3>3, <3>4 DEF Made
    <2>10. Flow(put, g)' /\ queue' \in [Providers -> Seq(Item)]
      BY <1>1, <2>4, <2>9, ReadFlow
    <2>11. TypeInv'
      BY <1>1, <2>4, <2>10, TypeStep DEF TypeInv
    <2> QED
      BY <2>10, <2>11
  <1> QED
    BY <1>8, <1>9

(* --------------------------- the other conjuncts ------------------------ *)

LEMMA CacheKeptByPut ==
    ASSUME TypeInv, NEW put \in [Providers -> Nat], NEW g \in Nat, Flow(put, g), CacheInv,
           NEW p \in Providers, Put(p)
    PROVE  CacheInv'
  <1>0. /\ setup \in Setups /\ queue \in [Providers -> Seq(Item)] /\ DOMAIN at = Providers
        /\ setup' = setup /\ cache' = cache /\ queue[p] # <<>>
        /\ queue' = [queue EXCEPT ![p] = Tail(@)]
    BY DEF TypeInv, Put
  <1>1. /\ (Atmosphere' <=> Atmosphere)
        /\ \A c, d : AeroFor(c, d)' <=> AeroFor(c, d)
    BY <1>0, SetupKept
  <1>2. SUFFICES ASSUME Atmosphere PROVE CacheInv'
    BY <1>1 DEF CacheInv
  <1>3. Aero \in Providers
    BY <1>2, Owners
  <1>4. CASE p # Aero
    <2>1. queue'[Aero] = queue[Aero]
      BY <1>0, <1>3, <1>4
    <2>2. at'[Aero] = at[Aero]
      <3>1. CASE Len(queue[p]) = 1
        <4>1. at' = [at EXCEPT ![p] = NextDate(p)]
          BY <3>1 DEF Put
        <4> QED
          BY <1>0, <1>3, <1>4, <4>1
      <3>2. CASE Len(queue[p]) # 1
        BY <3>2 DEF Put
      <3> QED
        BY <3>1, <3>2
    <2> QED
      BY <1>0, <1>1, <1>2, <2>1, <2>2 DEF CacheInv
  <1>5. CASE p = Aero
    <2>1. PICK d : /\ IsDate(d) /\ setup.start.year <= d.year /\ AeroFor(cache, d)
                   /\ \E n \in 0 .. Day : at[Aero] = Later(d, n) /\ (queue[Aero] # <<>> => n = 0)
      BY <1>0, <1>2, <1>5 DEF CacheInv
    <2>2. at[Aero] = d /\ d = Later(d, 0)
      BY <1>0, <1>5, <2>1, LaterByNone
    <2>3. queue'[Aero] = Tail(queue[Aero]) /\ (Tail(queue[Aero]) = <<>> <=> Len(queue[Aero]) = 1)
      BY <1>0, <1>3, <1>5, TailOf
    <2>4. \E n \in 0 .. Day : at'[Aero] = Later(d, n) /\ (queue'[Aero] # <<>> => n = 0)
      <3>1. CASE Len(queue[Aero]) = 1
        <4>1. at' = [at EXCEPT ![Aero] = NextDate(Aero)]
          BY <1>5, <3>1 DEF Put
        <4>2. at'[Aero] = NextDate(Aero)
          BY <1>0, <1>3, <4>1
        <4>3. PICK n \in Nat : Placed(p, n) /\ Counted(p, n)
          BY DEF Flow
        <4>4. PICK x, y : x = NextDate(p) /\ y = at[p]
          OBVIOUS
        <4>5. PICK k \in 0 .. 1440 : x = Later(y, k)
          <5>1. setup \in Setups /\ Atmosphere /\ p \in Providers
            BY <1>0, <1>2
          <5>n. n \in Nat /\ Placed(p, n) /\ Counted(p, n)
            BY ONLY <4>3
          <5>2. \E k \in 0 .. 1440 : NextDate(p) = Later(at[p], k)
            BY ONLY <5>n, <5>1, NextDateAtmosphere, SMTT(20)
          <5>3. PICK j \in 0 .. 1440 : NextDate(p) = Later(at[p], j)
            BY ONLY <5>2, SMTT(30)
          <5>4. x = Later(y, j)
            BY ONLY <4>4, <5>3
          <5> QED
            BY ONLY <5>3, <5>4
        <4>next. NextDate(Aero) = Later(at[Aero], k)
          BY ONLY <1>5, <4>4, <4>5
        <4>6. k \in 0 .. Day
          BY DEF Day, Hour
        <4> QED
          BY <2>2, <2>3, <3>1, <4>2, <4>next, <4>6
      <3>2. CASE Len(queue[Aero]) # 1
        <4>1. at' = at
          BY <1>5, <3>2 DEF Put
        <4>2. 0 \in 0 .. Day
          BY DEF Day, Hour
        <4> QED
          BY <2>2, <4>1, <4>2
      <3> QED
        BY <3>1, <3>2
    <2> QED
      BY <1>0, <1>1, <2>1, <2>4 DEF CacheInv
  <1> QED
    BY <1>4, <1>5

(* What the aerosol provider holds changes only when it reads, and its     *)
(* date only when it puts.                                                 *)
LEMMA CacheKept ==
    ASSUME CacheInv, setup' = setup, cache' = cache, at' = at,
           Atmosphere => queue'[Aero] = queue[Aero]
    PROVE  CacheInv'
  <1>1. /\ (Atmosphere' <=> Atmosphere)
        /\ \A c, d : AeroFor(c, d)' <=> AeroFor(c, d)
    BY SetupKept
  <1> QED
    BY <1>1 DEF CacheInv

LEMMA ReceivedKept ==
    ASSUME Received, setup' = setup, got' = got
    PROVE  Received'
  <1>1. Fields' = Fields /\ \A f, d, x : Good(f, d, x)' <=> Good(f, d, x)
    BY SetupKept
  <1> QED
    BY <1>1 DEF Received

LEMMA AcceptedKept ==
    ASSUME TypeInv, Accepted, setup' = setup,
           \/ status' = status
           \/ \E p \in Providers, s \in {"ended", "failed"} : status' = [status EXCEPT ![p] = s]
    PROVE  Accepted'
  <1>1. (Atmosphere' <=> Atmosphere) /\ status \in [Providers -> {"running", "ended", "failed"}]
    BY SetupKept DEF TypeInv
  <1>2. CASE status' = status
    BY <1>1, <1>2 DEF Accepted
  <1>3. ASSUME NEW p \in Providers, NEW s \in {"ended", "failed"},
               status' = [status EXCEPT ![p] = s], Atmosphere
        PROVE  status'[Ozone] = "running" => status[Ozone] = "running"
    <2>1. Ozone \in Providers
      BY <1>3, Owners
    <2> QED
      BY <1>1, <1>3, <2>1
  <1> QED
    BY <1>1, <1>2, <1>3 DEF Accepted

(* ------------------------------- the steps ------------------------------ *)

StepKeeps ==
  /\ TypeInv' /\ CacheInv' /\ Received' /\ Accepted'
  /\ \E put \in [Providers -> Nat], g \in Nat : Flow(put, g)'

LEMMA ReadKeeps ==
    ASSUME TypeInv, CacheInv, Received, Accepted,
           NEW put \in [Providers -> Nat], NEW g \in Nat, Flow(put, g),
           ReadAero \/ ReadOzone \/ \E r \in 0 .. Ranks - 1 : ReadForcing(r)
    PROVE  StepKeeps
  <1>1. CASE ReadAero
    <2>1. TypeInv' /\ Flow(put, g)' /\ CacheInv'
      BY <1>1, ReadAeroFlow
    <2>2. Received'
      BY <1>1, ReceivedKept DEF ReadAero
    <2>3. Accepted'
      <3>1. /\ setup' = setup /\ Aero \in Providers
            /\ status' = status \/ status' = [status EXCEPT ![Aero] = "failed"]
        BY <1>1 DEF ReadAero
      <3> QED
        BY <3>1, AcceptedKept
    <2> QED
      BY <2>1, <2>2, <2>3 DEF StepKeeps
  <1>2. CASE ReadOzone
    <2>1. /\ Ozone \in Providers /\ status[Ozone] = "running"
          /\ UNCHANGED <<setup, at, cache, got>>
      BY <1>2 DEF ReadOzone, CanRead
    <2>2. OzoneScenario(setup.nml) # "refused"
      <3>1. Atmosphere
        <4>1. SUFFICES ASSUME ~Atmosphere PROVE FALSE
          OBVIOUS
        <4>2. PICK r : Ozone = Rank(r)
          BY <2>1, <4>1 DEF Providers
        <4> QED
          BY <4>2 DEF Rank, Ozone
      <3> QED
        BY <2>1, <3>1 DEF Accepted
    <2>3. TypeInv' /\ Flow(put, g)'
      BY <1>2, <2>2, ReadOzoneFlow
    <2>4. Received'
      BY <2>1, ReceivedKept
    <2>5. Accepted'
      <3>1. status' = status \/ status' = [status EXCEPT ![Ozone] = "failed"]
        BY <1>2 DEF ReadOzone
      <3> QED
        BY <2>1, <3>1, AcceptedKept
    <2>6. CacheInv'
      <3>1. \A p \in Providers : p # Ozone => queue'[p] = queue[p]
        <4>1. queue \in [Providers -> Seq(Item)]
          BY DEF TypeInv
        <4>2. queue' = queue \/ \E q : queue' = [queue EXCEPT ![Ozone] = q]
          BY <1>2 DEF ReadOzone
        <4> QED
          BY <4>1, <4>2
      <3>2. Atmosphere => queue'[Aero] = queue[Aero]
        BY <3>1, Owners, FieldsDiffer
      <3> QED
        BY <2>1, <3>2, CacheKept
    <2> QED
      BY <2>3, <2>4, <2>5, <2>6 DEF StepKeeps
  <1>3. ASSUME NEW r \in 0 .. Ranks - 1, ReadForcing(r) PROVE StepKeeps
    <2>1. /\ Rank(r) \in Providers /\ UNCHANGED <<setup, status, at, cache, got>>
      BY <1>3 DEF ReadForcing
    <2>2. ~Atmosphere
      <3>1. SUFFICES ASSUME Atmosphere PROVE FALSE
        OBVIOUS
      <3> QED
        BY <2>1, <3>1 DEF Providers, Rank, Aero, Ozone
    <2>3. TypeInv' /\ Flow(put, g)'
      BY <1>3, ReadForcingFlow
    <2>4. Received' /\ Accepted' /\ CacheInv'
      BY <2>1, <2>2, ReceivedKept, AcceptedKept, CacheKept
    <2> QED
      BY <2>3, <2>4 DEF StepKeeps
  <1> QED
    BY <1>1, <1>2, <1>3

LEMMA PutAndEndKeep ==
    ASSUME TypeInv, CacheInv, Received, Accepted,
           NEW put \in [Providers -> Nat], NEW g \in Nat, Flow(put, g),
           NEW p \in Providers, Put(p) \/ End(p)
    PROVE  StepKeeps
  <1>1. CASE Put(p)
    <2>1. UNCHANGED <<setup, status, got>>
      BY <1>1 DEF Put
    <2>2. TypeInv' /\ CacheInv'
      BY <1>1, PutTypes, CacheKeptByPut
    <2>3. Received' /\ Accepted'
      BY <2>1, ReceivedKept, AcceptedKept
    <2>4. \E new \in [Providers -> Nat] : Flow(new, g)'
      BY <1>1, PutFlow
    <2> QED
      BY <2>2, <2>3, <2>4 DEF StepKeeps
  <1>2. CASE End(p)
    <2>1. /\ status' = [status EXCEPT ![p] = "ended"]
          /\ UNCHANGED <<setup, at, case, queue, cache, slot, now, todo, got>>
      BY <1>2 DEF End
    <2>2. status' \in [Providers -> {"running", "ended", "failed"}]
      BY <2>1 DEF TypeInv
    <2>3. TypeInv'
      BY <2>1, <2>2, TypeStep DEF TypeInv
    <2>4. Received' /\ Accepted' /\ CacheInv'
      BY <2>1, ReceivedKept, AcceptedKept, CacheKept
    <2>5. Flow(put, g)'
      BY <2>1, FlowKept
    <2> QED
      BY <2>3, <2>4, <2>5 DEF StepKeeps
  <1> QED
    BY <1>1, <1>2

LEMMA ModelKeeps ==
    ASSUME InPhase, TypeInv, CacheInv, Received, Accepted,
           NEW put \in [Providers -> Nat], NEW g \in Nat, Flow(put, g),
           Get \/ Step
    PROVE  StepKeeps
  <1>1. CASE Get
    <2>1. UNCHANGED <<setup, status, at, queue, cache>>
      BY <1>1 DEF Get
    <2>2. TypeInv'
      BY <1>1, GetTypes
    <2>3. Accepted' /\ CacheInv'
      BY <2>1, AcceptedKept, CacheKept
    <2>4. Flow(put, g)' /\ Received'
      BY <1>1, GetFlow
    <2> QED
      BY <2>2, <2>3, <2>4 DEF StepKeeps
  <1>2. CASE Step
    <2>1. UNCHANGED <<setup, status, at, case, queue, cache, slot, got>>
      BY <1>2 DEF Step
    <2>2. ModelAt(g)
      BY DEF Flow
    <2>3. /\ now' = [call |-> now'.call, date |-> now'.date] /\ now'.call \in Nat
          /\ IsDate(now'.date) /\ todo' \in Seq(Fields)
      BY <1>2, <2>2, NextCall
    <2>4. TypeInv'
      BY <2>1, <2>3, TypeStep DEF TypeInv
    <2>5. Received' /\ Accepted' /\ CacheInv'
      BY <2>1, ReceivedKept, AcceptedKept, CacheKept
    <2>6. \E h \in Nat : Flow(put, h)'
      BY <1>2, StepFlow
    <2> QED
      BY <2>4, <2>5, <2>6 DEF StepKeeps
  <1> QED
    BY <1>1, <1>2

LEMMA NothingKeeps ==
    ASSUME TypeInv, CacheInv, Received, Accepted,
           NEW put \in [Providers -> Nat], NEW g \in Nat, Flow(put, g), UNCHANGED vars
    PROVE  StepKeeps
  <1>1. UNCHANGED <<setup, status, at, case, queue, cache, slot, now, todo, got>>
    BY DEF vars
  <1>2. TypeInv'
    BY <1>1, TypeStep DEF TypeInv
  <1>3. Received' /\ Accepted' /\ CacheInv'
    BY <1>1, ReceivedKept, AcceptedKept, CacheKept
  <1>4. Flow(put, g)'
    BY <1>1, FlowKept
  <1> QED
    BY <1>2, <1>3, <1>4 DEF StepKeeps

LEMMA ProviderInvKept ==
    ASSUME ProviderInv, [Next]_vars
    PROVE  ProviderInv'
  <1>1. setup' = setup
    BY DEF Next, ProviderStep, ModelStep, ReadAero, ReadOzone, ReadForcing, Put, End, Get, Step,
           vars
  <1>2. (InPhase' <=> InPhase) /\ Providers' = Providers
    BY <1>1, SetupKept
  <1>3. SUFFICES ASSUME InPhase PROVE ProviderInv'
    BY <1>2 DEF ProviderInv
  <1>4. TypeInv /\ CacheInv /\ Received /\ Accepted
    BY <1>3 DEF ProviderInv
  <1>5. PICK put \in [Providers -> Nat], g \in Nat : Flow(put, g)
    BY <1>3 DEF ProviderInv
  <1>6. StepKeeps
    <2>1. CASE ReadAero \/ ReadOzone \/ \E r \in 0 .. Ranks - 1 : ReadForcing(r)
      BY <1>4, <1>5, <2>1, ReadKeeps
    <2>2. CASE \E p \in Providers : Put(p) \/ End(p)
      BY <1>4, <1>5, <2>2, PutAndEndKeep
    <2>3. CASE Get \/ Step
      BY <1>3, <1>4, <1>5, <2>3, ModelKeeps
    <2>4. CASE UNCHANGED vars
      BY <1>4, <1>5, <2>4, NothingKeeps
    <2> QED
      BY <2>1, <2>2, <2>3, <2>4 DEF Next, ProviderStep, ModelStep
  <1> QED
    BY <1>2, <1>6 DEF ProviderInv, StepKeeps

(* -------------------------------- theorems ------------------------------ *)

(* Wherever the exchanges of the model and of the providers are in phase,  *)
(* the providers, what is under way and the model stay numbered alike, and *)
(* what is under way, held or received belongs to its number.              *)
THEOREM ProvidersHold == Spec => []ProviderInv
  <1>1. Init => ProviderInv
    BY FirstInv
  <1>2. ProviderInv /\ [Next]_vars => ProviderInv'
    BY ProviderInvKept
  <1> QED
    BY <1>1, <1>2, PTL DEF Spec

(* The ocean receives at every hour all its forcing of this hour, from     *)
(* whichever rank, in whatever order the fields were read and however far  *)
(* ahead the ranks are, through leap days and the turns of the years       *)
(* (the hour loop of era5g_omip_runoff_provider.py).                         *)
THEOREM ForcingIsRight == Spec => []RightForcing
  <1>1. ProviderInv => RightForcing
    <2>1. SUFFICES ASSUME ProviderInv, ~Atmosphere, NEW v \in 0 .. Variables,
                          got[ForcingField(v)] # <<>>
                   PROVE  IF v = Runoff
                          THEN \/ OnLeapDay(got[ForcingField(v)].date)
                               \/ got[ForcingField(v)].data.day
                                    = CommonDay(got[ForcingField(v)].date)
                          ELSE got[ForcingField(v)].data
                                 = [year |-> got[ForcingField(v)].date.year,
                                    hour |-> HourOfYear(got[ForcingField(v)].date)]
      BY DEF RightForcing
    <2>2. InPhase
      BY <2>1 DEF InPhase, Nwp
    <2>3. Received
      BY <2>1, <2>2 DEF ProviderInv
    <2>4. ForcingField(v) \in Fields
      BY <2>1, Owners
    <2>5. Good(ForcingField(v), got[ForcingField(v)].date, got[ForcingField(v)].data)
      BY <2>1, <2>3, <2>4 DEF Received
    <2>6. ForcingField(v) = ForcingField(Runoff) <=> v = Runoff
      BY DEF ForcingField
    <2> QED
      BY <2>1, <2>5, <2>6 DEF Good
  <1> QED
    BY <1>1, ProvidersHold, PTL

(* What the atmosphere receives for a date is the interpolation at that    *)
(* date between the right months of the right files, however far ahead the *)
(* providers are: the aerosol through all turns of months and years (its   *)
(* fine mode up to the first turn of the year), the ozone of past and      *)
(* future years, of the control run and of perpetual years (the time loops *)
(* of aero_provider.py and o3_cmip_provider.py and the calls of ICON).      *)
THEOREM DataIsRight == Spec => []RightData
  <1>1. ProviderInv => RightData
    <2>1. SUFFICES ASSUME ProviderInv, Atmosphere, InPhase, NEW f \in Fields, got[f] # <<>>,
                          f = FineField => FirstYear(got[f].date),
                          f = OzoneField => PerpetualYearRead
                   PROVE  SameData(got[f].data, Expected(f, got[f].date))
      BY DEF RightData
    <2>2. Good(f, got[f].date, got[f].data)
      BY <2>1 DEF ProviderInv, Received
    <2> QED
      BY <2>1, <2>2 DEF Good
  <1> QED
    BY <1>1, ProvidersHold, PTL
=============================================================================
