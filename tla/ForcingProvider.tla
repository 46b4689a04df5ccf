--------------------------- MODULE ForcingProvider --------------------------
(***************************************************************************)
(* etc/era5g_omip_runoff_provider.py: the provider of the forcing of an    *)
(* ocean run, hour by hour.  It runs on several ranks, which share the     *)
(* fields of ERA5 out among them; rank 0 sends the runoff as well, of      *)
(* which there are 365 days for all years.                                 *)
(*                                                                         *)
(* A rank is at an hour of a year, both counted from the run's start.      *)
(***************************************************************************)
EXTENDS Calendar

CONSTANTS
  Variables,   \* how many variables of ERA5 are provided, numbered from 0
  Ranks        \* how many ranks the provider has, numbered from 0

ASSUME ProviderAssumption == Variables \in Nat /\ Ranks \in Nat \ {0}

Runoff == Variables

\* The fields that a rank reads and sends.
OwnFields(rank) ==
  {v \in 0 .. Variables - 1 : v % Ranks = rank}
    \union (IF rank = 0 THEN {Runoff} ELSE {})

\* The years are processed up to, but not including, this one.
EndYear(end) ==
  IF end.month > 1 \/ end.minute >= Hour THEN end.year + 1 ELSE end.year

HoursOf(d, e) == (FromEpoch(e) - FromEpoch(d)) \div Hour

StartHour(year, start) ==
  IF year = start.year THEN HourOfYear(start) ELSE 0

EndHour(year, start, end) ==
  LET from == IF year = start.year THEN start ELSE Date(year, 1, 1, 0)
      to == IF year = end.year THEN end ELSE Date(year + 1, 1, 1, 0)
  IN StartHour(year, start) + HoursOf(from, to)

RunoffDayUnshifted(year, hour) == hour \div 24

\* The day of the runoff that is sent at an hour.
RunoffDay(year, hour) ==
  LET day == hour \div 24
  IN IF Leap(year) /\ day > 59 THEN day - 1 ELSE day

ForcingStart(start) == [year |-> start.year, hour |-> StartHour(start.year, start)]

\* Past the last year there is nothing to do.
ForcingOver(at, end) == at.year >= EndYear(end)

\* The next hour: a year that is done is followed by the next.
ForcingAdvance(at, start, end) ==
  IF at.hour + 1 < EndHour(at.year, start, end) THEN [at EXCEPT !.hour = @ + 1]
  ELSE [year |-> at.year + 1, hour |-> StartHour(at.year + 1, start)]

ForcingData(field, at) ==
  IF field = Runoff THEN [day |-> RunoffDay(at.year, at.hour)]
  ELSE [year |-> at.year, hour |-> at.hour]
=============================================================================
