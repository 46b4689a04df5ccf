--------------------------- MODULE OzoneProvider ----------------------------
(***************************************************************************)
(* etc/o3_cmip_provider.py: what the provider of ozone makes of the        *)
(* namelist, which monthly means it can read, and what it sends at a date. *)
(* It opens the files of all years it expects to need, selects their       *)
(* years from the one before the run to the one after it, and looks the    *)
(* months before and after a date up in them.                              *)
(*                                                                         *)
(* A file holds the years first .. last of the historical ozone or of a    *)
(* scenario; a monthly mean is named <<year, month>>, and valid in the     *)
(* middle of its month, as in the data and as the dates in the code say.   *)
(***************************************************************************)
EXTENDS Calendar, FiniteSetsExt

PERP_YEAR == 1850

OzoneScenario(nml) ==
  LET refused == \/ nml.iforcing \notin {2, 3}
                 \/ nml.irad_o3 \notin {5, 6}
                 \/ nml.irad_o3 = 6 /\ nml.iforcing = 3
                 \/ ~nml.coupled
      perpetual == nml.iforcing = 2 /\ nml.lyr_perp
  IN CASE refused -> "refused"
       [] ~refused /\ nml.irad_o3 = 6 -> "picontrol"
       [] ~refused /\ nml.irad_o3 # 6 /\ perpetual -> "perpetual"
       [] OTHER -> "historical"

PerpetualYear(nml) ==
  IF OzoneScenario(nml) = "perpetual" THEN nml.yr_perp ELSE PERP_YEAR

\* The years that the file with a given year holds.
FileOf(year) ==
  CASE year \in 1850 .. 1899 -> 1850 .. 1899
    [] year \in 1900 .. 1949 -> 1900 .. 1949
    [] year \in 1950 .. 1999 -> 1950 .. 1999
    [] year \in 2000 .. 2014 -> 2000 .. 2014
    [] year \in 2015 .. 2049 -> 2015 .. 2049
    [] year \in 2050 .. 2099 -> 2050 .. 2099

\* The file for a year of the run.  The call leaves the perpetual year out,
\* so that of a perpetual run is always the file with the year 1850.
InputFile(nml, year) ==
  IF OzoneScenario(nml) = "historical" THEN FileOf(year) ELSE FileOf(PERP_YEAR)

\* The years from start_year to end_year.
RunYears(nml, start, end) ==
  IF OzoneScenario(nml) = "picontrol" THEN {PERP_YEAR}
  ELSE start.year - 1 .. end.year + 1

\* The years selected from the listed files.
YearsRead(nml, start, end) ==
  LET years == RunYears(nml, start, end)
      listed == years \intersect (1850 .. 2099)
  IN {y \in years : \E x \in listed : y \in InputFile(nml, x)}

\* The date whose ozone is wanted.
OzoneDate(nml, d) ==
  IF OzoneScenario(nml) = "historical" THEN d
  ELSE [d EXCEPT !.year = PerpetualYear(nml)]

\* The last month that is valid at d or before, the first at d or after.
LastValid(d) ==
  IF NotAfter(Middle(MonthOf(d)), d) THEN MonthOf(d) ELSE MonthBefore(MonthOf(d))
FirstValid(d) ==
  IF NotAfter(d, Middle(MonthOf(d))) THEN MonthOf(d) ELSE MonthAfter(MonthOf(d))

Nearest(years, ym) ==
  CASE ym[1] < Min(years) -> <<Min(years), 1>>
    [] ym[1] > Max(years) -> <<Max(years), 12>>
    [] OTHER -> ym

\* In a perpetual year December comes before January.
WrapsBack(nml, v) ==
  OzoneScenario(nml) # "historical" /\ LastValid(v)[1] < v.year
WrapsOn(nml, v) ==
  OzoneScenario(nml) # "historical" /\ FirstValid(v)[1] > v.year

\* The months read for the date v.  Before 1850 and after the last noon of
\* 2099 the nearest one is taken.
PrevMonth(nml, years, v) ==
  IF WrapsBack(nml, v) THEN Nearest(years, <<v.year, 12>>)
  ELSE IF LastValid(v)[1] < 1850 THEN Nearest(years, MonthOf(v))
  ELSE IF LastValid(v)[1] > Max(years) THEN <<Max(years), 12>>
  ELSE LastValid(v)

NextMonth(nml, years, v) ==
  IF WrapsOn(nml, v) THEN Nearest(years, <<v.year, 1>>)
  ELSE IF Before(Date(2099, 12, 31, 12 * Hour), v) THEN Nearest(years, MonthOf(v))
  ELSE IF FirstValid(v)[1] < Min(years) THEN <<Min(years), 1>>
  ELSE FirstValid(v)

\* Before its loop the provider moves the start date of a perpetual run to
\* 1850, which has no leap day.
StartFails(nml, start) ==
  /\ OzoneScenario(nml) \in {"perpetual", "picontrol"}
  /\ start.minute >= Length(PERP_YEAR, start.month)

\* Where its loop ends with an error: no data are read, the day does not
\* exist in the perpetual year, or a month is not among the data.
OzoneFails(nml, years, v) ==
  \/ years = {}
  \/ v.minute >= Length(v.year, v.month)
  \/ PrevMonth(nml, years, v)[1] < Min(years)
  \/ NextMonth(nml, years, v)[1] \notin years

\* What is sent for the date v between two months.  Months taken from the
\* other end of a perpetual year count as those of the year before or after.
OzoneData(nml, v, prev, next) ==
  LET from == FromEpoch(Middle(IF WrapsBack(nml, v) THEN <<v.year - 1, prev[2]>> ELSE prev))
      to == FromEpoch(Middle(IF WrapsOn(nml, v) THEN <<v.year + 1, next[2]>> ELSE next))
  IN IF from = to
     THEN [a |-> prev, b |-> next, num |-> 1, den |-> 2]
     ELSE [a |-> prev, b |-> next, num |-> FromEpoch(v) - from, den |-> to - from]
=============================================================================
