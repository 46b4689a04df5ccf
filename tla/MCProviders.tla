----------------------------- MODULE MCProviders ----------------------------
(***************************************************************************)
(* Runs of a few days to six weeks around the dates where something        *)
(* changes: the middle and the turn of a month, the turn of a year and of  *)
(* a file of data, leap days, the first and the last data.                 *)
(***************************************************************************)
EXTENDS Providers

Nml(iforcing, irad_aero, irad_o3, yr_perp) ==
  [iforcing |-> iforcing, irad_aero |-> irad_aero, irad_o3 |-> irad_o3,
   lyr_perp |-> yr_perp # 0, yr_perp |-> yr_perp, coupled |-> TRUE]

Transient == Nml(2, 13, 5, 0)
Control == Nml(2, 18, 6, 0)
PerpetualOf(year) == Nml(2, 12, 5, year)
TransientNwp == Nml(3, 15, 5, 0)

Run(nml, start, end) ==
  [model |-> "atmosphere", nml |-> nml, start |-> start, end |-> end,
   restart |-> FALSE, dtime |-> 30, dt_rad |-> 12 * Hour]

OceanRun(start, end) ==
  [model |-> "ocean", nml |-> <<>>, start |-> start, end |-> end,
   restart |-> FALSE, dtime |-> Hour, dt_rad |-> 0]

NewYear(nml, year) == Run(nml, Date(year - 1, 12, 10, 0), Date(year, 1, 20, 0))

AtmosphereRuns == {
  NewYear(Transient, 2015), NewYear(Transient, 1900), NewYear(Transient, 2000),
  Run(Transient, Date(2012, 1, 28, 0), Date(2012, 3, 20, 0)),
  Run(Transient, Date(1900, 1, 3, 6 * Hour), Date(1900, 3, 5, 0)),
  [Run(Transient, Date(2005, 7, 14, 0), Date(2005, 8, 2, 0)) EXCEPT !.dt_rad = 2 * Hour],
  Run(Transient, Date(1850, 1, 1, 0), Date(1850, 2, 1, 0)),
  NewYear(Control, 1880), Run(Control, Date(1852, 2, 20, 0), Date(1852, 2, 29, 0)),
  NewYear(PerpetualOf(1855), 1855), NewYear(PerpetualOf(1853), 1855),
  NewYear(TransientNwp, 2015), Run(TransientNwp, Date(2012, 2, 10, 0), Date(2012, 3, 20, 0)) }

\* Runs that are refused, lack data or are out of phase.
OddRuns == {
  Run(Control, Date(1852, 2, 20, 0), Date(1852, 3, 5, 0)),
  NewYear(Transient, 2100), NewYear(Transient, 1846),
  Run(Transient, Date(2099, 12, 31, 18 * Hour), Date(2100, 1, 3, 0)),
  NewYear(PerpetualOf(2000), 2001),
  Run(PerpetualOf(1990), Date(1854, 12, 20, 0), Date(1854, 12, 28, 0)),
  Run(PerpetualOf(1852), Date(1852, 2, 29, 0), Date(1852, 3, 2, 0)),
  NewYear(Nml(2, 13, 5, 1855), 1855),
  Run(Nml(3, 13, 6, 0), Date(2000, 1, 1, 0), Date(2000, 1, 3, 0)),
  Run(TransientNwp, Date(2012, 2, 10, 12 * Hour), Date(2012, 2, 20, 0)),
  [Run(TransientNwp, Date(2012, 2, 10, 0), Date(2012, 2, 20, 0)) EXCEPT !.restart = TRUE],
  [Run(TransientNwp, Date(2012, 2, 10, 0), Date(2012, 2, 20, 0)) EXCEPT !.dt_rad = 7 * Hour],
  [Run(TransientNwp, Date(2012, 2, 10, 0), Date(2012, 2, 20, 0)) EXCEPT !.dt_rad = 30] }

OceanRuns == {
  OceanRun(Date(2011, 12, 30, 6 * Hour), Date(2012, 1, 2, 0)),
  OceanRun(Date(2012, 2, 28, 0), Date(2012, 3, 2, 5 * Hour)),
  OceanRun(Date(2012, 12, 30, 0), Date(2013, 1, 1, 0)),
  OceanRun(Date(2013, 2, 28, 0), Date(2013, 3, 2, 0)) }

AllRuns == AtmosphereRuns \union OddRuns \union OceanRuns
=============================================================================
