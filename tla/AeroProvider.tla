---------------------------- MODULE AeroProvider ----------------------------
(***************************************************************************)
(* etc/aero_provider.py: what the provider of aerosol properties makes of  *)
(* the namelist, and what it sends at a date.  It interpolates between the *)
(* data of two months, "this" and the "other", which it keeps from one     *)
(* date to the next; at the turn of a month the other becomes this.  Of    *)
(* the ten fields the seven coarse ones come from one file for all years,  *)
(* the fine ones from a file per year: one of each kind is modelled.       *)
(*                                                                         *)
(* Data are named <<file, month>>; a file is a year, or Climatology.       *)
(***************************************************************************)
EXTENDS Calendar

Climatology == 0

\* What the namelist asks for, or "refused" where the provider raises or exits.
AeroScenario(nml) ==
  LET perpetual == nml.iforcing = 2 /\ nml.lyr_perp
      refused == \/ nml.iforcing \notin {2, 3}
                 \/ nml.irad_aero \notin {12, 13, 15, 18, 19}
                 \/ ~nml.coupled
                 \/ nml.irad_aero \in {13, 15} /\ perpetual
  IN CASE refused -> "refused"
       [] ~refused /\ perpetual -> "perpetual"
       [] ~refused /\ ~perpetual /\ nml.irad_aero \in {12, 18, 19} -> "picontrol"
       [] OTHER -> "historical"

\* The year whose file is read first.
FirstFile(nml, start) ==
  CASE AeroScenario(nml) = "picontrol" -> 1850
    [] AeroScenario(nml) = "perpetual" -> nml.yr_perp
    [] OTHER -> start.year

HasFile(year) == year \in 1845 .. 2100

AeroStart(nml, start) ==
  [this_file |-> FirstFile(nml, start), other_file |-> FirstFile(nml, start),
   switch_year |-> FALSE,
   watch_this |-> 0, watch_other |-> 0,
   this |-> <<0, 0>>, other |-> <<0, 0>>]

HalfOf(year, month) == Length(year, month) \div 2

\* Before the middle of the month the other month is the one before.
Switch(d) == IF d.minute <= HalfOf(d.year, d.month) THEN -1 ELSE 1

OtherMonth(d) ==
  IF Switch(d) = -1 THEN MonthBefore(MonthOf(d)) ELSE MonthAfter(MonthOf(d))

\* The files that this and the other month are read from at d.
AeroFiles(c, d) ==
  LET other == OtherMonth(d)
  IN CASE other[1] # d.year /\ ~c.switch_year ->
            [c EXCEPT !.other_file = other[1], !.switch_year = TRUE]
       [] other[1] = d.year /\ c.switch_year ->
            [c EXCEPT !.other_file = c.this_file, !.switch_year = FALSE]
       [] OTHER -> c

ThisMonthKept(c, d) == IF c.watch_this = 0 THEN <<c.this_file, d.month>> ELSE c.this

\* This month: read at the first date, the other month at a turn.
ThisMonth(c, d) ==
  CASE d.month = c.watch_this -> c.this
    [] d.month # c.watch_this /\ c.watch_this = 0 -> <<c.this_file, d.month>>
    [] OTHER -> c.other

\* The state of the provider after it has made the data for d.
AeroNext(nml, c, d) ==
  LET open == IF AeroScenario(nml) = "historical" THEN AeroFiles(c, d) ELSE c
      other == OtherMonth(d)[2]
  IN [open EXCEPT !.watch_this = d.month,
                  !.this = ThisMonth(c, d),
                  !.watch_other = other,
                  !.other = IF other = c.watch_other THEN c.other
                            ELSE <<open.other_file, other>>]

\* What is sent at d: the data of two months, and the weight num/den of b.
AeroData(c, d) ==
  LET half == HalfOf(d.year, d.month)
  IN [a |-> c.this, b |-> c.other,
      num |-> Switch(d) * (d.minute - half),
      den |-> half + HalfOf(d.year, OtherMonth(d)[2])]

Coarse(data) ==
  [data EXCEPT !.a = <<Climatology, @[2]>>, !.b = <<Climatology, @[2]>>]
=============================================================================
