------------------------------ MODULE Providers -----------------------------
(***************************************************************************)
(* A run of ICON that is coupled to the data providers of etc/: an         *)
(* atmosphere with the providers of aerosol and of ozone, or an ocean with *)
(* the provider of its forcing.  The programs share nothing but the fields *)
(* they exchange through YAC.  YAC is not part of the repository; it is    *)
(* modelled from its use: the n-th get of a field waits for and returns    *)
(* the n-th put, whatever date either side believes it to be, and a put    *)
(* waits while Slots data of its field have not been fetched.              *)
(*                                                                         *)
(* A setup is a record of the model that runs, the namelist, the start and *)
(* the end of the run, whether it is a restart, and, in minutes, the time  *)
(* step and the interval of the radiation.                                 *)
(***************************************************************************)
EXTENDS AeroProvider, OzoneProvider, ForcingProvider, Sequences, SequencesExt

CONSTANTS
  Setups,   \* the setups examined
  Slots     \* how many data of a field may be under way

\* Dates exist, nobody waits longer than a day for the next data, and an
\* ocean run, which gets its forcing hour by hour, starts at a full hour.
ASSUME SetupsAssumption ==
  \A s \in Setups :
    /\ IsDate(s.start) /\ IsDate(s.end)
    /\ s.model = "atmosphere" =>
         s.dtime \in 1 .. Day /\ s.dt_rad \in 1 .. Day /\ s.nml.yr_perp \in Int
    /\ s.model # "atmosphere" => s.start.minute % Hour = 0

VARIABLES
  setup,    \* the setup of this run
  status,   \* per provider: "running", "ended" or "failed"
  at,       \* per provider: the date of the data it sends
  case,     \* per provider: UPDATE_CASE
  queue,    \* per provider: what is still to be sent for that date
  cache,    \* the months that the aerosol provider holds
  slot,     \* per field: the data put and not yet fetched, in order
  now,      \* the model: its call number and its date
  todo,     \* the model: the fields still to get at its date
  got       \* per field: what was fetched last, and the model's date then

vars == <<setup, status, at, case, queue, cache, slot, now, todo, got>>

Aero == <<"aero", 0>>
Ozone == <<"ozone", 0>>
Rank(r) == <<"forcing", r>>
CoarseField == <<"coarse", 0>>
FineField == <<"fine", 0>>
OzoneField == <<"ozone", 0>>
ForcingField(v) == <<"forcing", v>>

Atmosphere == setup.model = "atmosphere"
Nwp == Atmosphere /\ setup.nml.iforcing = 3

Providers == IF Atmosphere THEN {Aero, Ozone} ELSE {Rank(r) : r \in 0 .. Ranks - 1}
Fields == IF Atmosphere THEN {CoarseField, FineField, OzoneField}
          ELSE {ForcingField(v) : v \in 0 .. Variables}

RefusedAtStart(p) ==
  \/ p = Aero /\ \/ AeroScenario(setup.nml) = "refused"
                 \/ ~HasFile(FirstFile(setup.nml, setup.start))
  \/ p = Ozone /\ \/ OzoneScenario(setup.nml) = "refused"
                  \/ StartFails(setup.nml, setup.start)

FirstDate(p) == IF Atmosphere THEN setup.start ELSE ForcingStart(setup.start)

(***************************************************************************)
(* The atmosphere gets the ozone and the aerosol when it computes the      *)
(* radiation: with the AES physics at every radiation step, ozone first;   *)
(* with the NWP physics when it sets the physics up (call 0), and then at  *)
(* the first radiation step of a day, aerosol first.  A run that does not  *)
(* restart has an extra radiation step (call 1) before its time loop.  The *)
(* ocean gets all fields every hour.                                       *)
(***************************************************************************)
AeroFields == <<CoarseField, FineField>>

FirstOfDay(date) == date.minute % Day < setup.dt_rad

Gets(call, date) ==
  CASE ~Atmosphere -> [i \in 1 .. Variables + 1 |-> ForcingField(i - 1)]
    [] Atmosphere /\ ~Nwp -> <<OzoneField>> \o AeroFields
    [] Nwp /\ (call = 0 \/ FirstOfDay(date)) -> AeroFields \o <<OzoneField>>
    [] OTHER -> <<>>

CallAfter(step) ==
  CASE ~Atmosphere -> [call |-> step.call + 1, date |-> Later(step.date, Hour)]
    [] Nwp /\ step.call = 0 /\ ~setup.restart -> [call |-> 1, date |-> setup.start]
    [] Nwp /\ (step.call = 1 \/ (step.call = 0 /\ setup.restart)) ->
         [call |-> 2, date |-> Later(setup.start, setup.dtime)]
    [] OTHER -> [call |-> step.call + 1, date |-> Later(step.date, setup.dt_rad)]

ModelOver == ~Before(now.date, setup.end)

Init ==
  /\ setup \in Setups
  /\ status = [p \in Providers |-> IF RefusedAtStart(p) THEN "failed" ELSE "running"]
  /\ at = [p \in Providers |-> FirstDate(p)]
  /\ case = [p \in Providers |-> 1]
  /\ queue = [p \in Providers |-> <<>>]
  /\ cache = IF Atmosphere THEN AeroStart(setup.nml, setup.start) ELSE <<>>
  /\ slot = [f \in Fields |-> <<>>]
  /\ now = [call |-> 0, date |-> setup.start]
  /\ todo = Gets(0, setup.start)
  /\ got = [f \in Fields |-> <<>>]

Over(p) == IF Atmosphere THEN ~Before(at[p], setup.end)
           ELSE ForcingOver(at[p], setup.end)

CanRead(p) == status[p] = "running" /\ queue[p] = <<>> /\ ~Over(p)

\* The aerosol provider makes the data for its date, or fails.
ReadAero ==
  /\ Aero \in Providers /\ CanRead(Aero)
  /\ \E c \in {AeroNext(setup.nml, cache, at[Aero])} :
       IF ~HasFile(c.other_file)
       THEN /\ status' = [status EXCEPT ![Aero] = "failed"]
            /\ UNCHANGED <<queue, cache>>
       ELSE /\ \E data \in {AeroData(c, at[Aero])} :
                 queue' = [queue EXCEPT ![Aero] =
                             <<[field |-> CoarseField, data |-> Coarse(data)],
                               [field |-> FineField, data |-> data]>>]
            /\ cache' = c
            /\ UNCHANGED status
  /\ UNCHANGED <<setup, at, case, slot, now, todo, got>>

ReadOzone ==
  /\ Ozone \in Providers /\ CanRead(Ozone)
  /\ \E years \in {YearsRead(setup.nml, setup.start, setup.end)},
         v \in {OzoneDate(setup.nml, at[Ozone])} :
       IF OzoneFails(setup.nml, years, v)
       THEN /\ status' = [status EXCEPT ![Ozone] = "failed"]
            /\ UNCHANGED queue
       ELSE /\ \E prev \in {PrevMonth(setup.nml, years, v)},
                  next \in {NextMonth(setup.nml, years, v)} :
                 queue' = [queue EXCEPT ![Ozone] =
                             <<[field |-> OzoneField,
                                data |-> OzoneData(setup.nml, v, prev, next)]>>]
            /\ UNCHANGED status
  /\ UNCHANGED <<setup, at, case, cache, slot, now, todo, got>>

\* A rank reads its fields in parallel and takes them as they come; the
\* runoff is sent last.
ReadForcing(r) ==
  LET p == Rank(r)
      runoff == IF r = 0 THEN <<Runoff>> ELSE <<>>
  IN /\ p \in Providers /\ CanRead(p)
     /\ \E order \in SetToSeqs(OwnFields(r) \ {Runoff}) :
          queue' = [queue EXCEPT ![p] =
                      [i \in DOMAIN (order \o runoff) |->
                         LET v == (order \o runoff)[i]
                         IN [field |-> ForcingField(v), data |-> ForcingData(v, at[p])]]]
     /\ UNCHANGED <<setup, status, at, case, cache, slot, now, todo, got>>

NextDateAtOnce(p) ==
  CASE ~Atmosphere -> ForcingAdvance(at[p], setup.start, setup.end)
    [] Nwp /\ case[p] = 1 -> Later(at[p], setup.dtime)
    [] Nwp /\ case[p] # 1 -> Later(at[p], Day)
    [] OTHER -> Later(at[p], setup.dt_rad)

\* The date that follows: the providers of the atmosphere repeat the first
\* date with the NWP physics, and go on by one time step after it.
NextDate(p) ==
  CASE ~Atmosphere -> ForcingAdvance(at[p], setup.start, setup.end)
    [] Nwp /\ case[p] = 1 -> at[p]
    [] Nwp /\ case[p] = 2 -> Later(at[p], setup.dtime)
    [] Nwp /\ case[p] = 3 -> Later(at[p], Day)
    [] OTHER -> Later(at[p], setup.dt_rad)

Put(p) ==
  /\ queue[p] # <<>>
  /\ LET item == Head(queue[p])
     IN /\ Len(slot[item.field]) < Slots
        /\ slot' = [slot EXCEPT ![item.field] = Append(@, item.data)]
  /\ queue' = [queue EXCEPT ![p] = Tail(@)]
  /\ IF Len(queue[p]) = 1
     THEN /\ at' = [at EXCEPT ![p] = NextDate(p)]
          /\ case' = [case EXCEPT ![p] = IF Nwp /\ @ < 3 THEN @ + 1 ELSE @]
     ELSE UNCHANGED <<at, case>>
  /\ UNCHANGED <<setup, status, cache, now, todo, got>>

End(p) ==
  /\ status[p] = "running" /\ queue[p] = <<>> /\ Over(p)
  /\ status' = [status EXCEPT ![p] = "ended"]
  /\ UNCHANGED <<setup, at, case, queue, cache, slot, now, todo, got>>

Get ==
  /\ ~ModelOver /\ todo # <<>>
  /\ LET f == Head(todo)
     IN /\ slot[f] # <<>>
        /\ got' = [got EXCEPT ![f] = [date |-> now.date, data |-> Head(slot[f])]]
        /\ slot' = [slot EXCEPT ![f] = Tail(@)]
  /\ todo' = Tail(todo)
  /\ UNCHANGED <<setup, status, at, case, queue, cache, now>>

Step ==
  /\ ~ModelOver /\ todo = <<>>
  /\ now' = CallAfter(now)
  /\ todo' = Gets(now'.call, now'.date)
  /\ UNCHANGED <<setup, status, at, case, queue, cache, slot, got>>

ProviderStep ==
  \/ ReadAero
  \/ ReadOzone
  \/ \E r \in 0 .. Ranks - 1 : ReadForcing(r)
  \/ \E p \in Providers : Put(p) \/ End(p)

ModelStep == Get \/ Step

Next == ProviderStep \/ ModelStep

Spec == Init /\ [][Next]_vars

\* The programs of a run keep running.
FairSpec == Spec /\ WF_vars(ProviderStep) /\ WF_vars(ModelStep)

-----------------------------------------------------------------------------
(***************************************************************************)
(* What should be received.                                                *)
(***************************************************************************)

\* The share, of den, that data give to the months called c.
Share(data, c) ==
  (IF data.a = c THEN data.den - data.num ELSE 0) + (IF data.b = c THEN data.num ELSE 0)

SameData(x, y) ==
  \A c \in {x.a, x.b, y.a, y.b} : Share(x, c) * y.den = Share(y, c) * x.den

\* Linear interpolation at a date between the middles of the months around
\* it, the months named by the file that has them.
Interpolated(date, Name(_)) ==
  LET a == LastValid(date)
      b == MonthAfter(a)
  IN [a |-> Name(a), b |-> Name(b),
      num |-> FromEpoch(date) - FromEpoch(Middle(a)),
      den |-> FromEpoch(Middle(b)) - FromEpoch(Middle(a))]

FineName(ym) ==
  IF AeroScenario(setup.nml) = "historical" THEN ym
  ELSE <<FirstFile(setup.nml, setup.start), ym[2]>>
CoarseName(ym) == <<Climatology, ym[2]>>
OzoneName(ym) ==
  IF OzoneScenario(setup.nml) # "historical" THEN <<PerpetualYear(setup.nml), ym[2]>>
  ELSE IF ym[1] < 1850 THEN <<1850, 1>>
  ELSE IF ym[1] > 2099 THEN <<2099, 12>>
  ELSE ym

Expected(f, date) ==
  CASE f = CoarseField -> Interpolated(date, CoarseName)
    [] f = FineField -> Interpolated(date, FineName)
    [] f = OzoneField ->
         IF OzoneScenario(setup.nml) = "historical" THEN Interpolated(date, OzoneName)
         ELSE Interpolated([date EXCEPT !.year = PerpetualYear(setup.nml)], OzoneName)

\* The NWP physics gets new data at the first radiation step of a day.  This is
\* in step with the providers only if the run starts with a day and does not
\* restart, and if the radiation steps of a day are at the same times as those
\* of the day before, with the first of a day after one time step.
InPhase ==
  Nwp => /\ setup.start.minute % Day = 0 /\ ~setup.restart
         /\ Day % setup.dt_rad = 0 /\ setup.dtime < setup.dt_rad

\* After the turn of the year the fine aerosol is read from the wrong files.
FirstYear(date) == date.year = setup.start.year

\* Of a perpetual run only the years around the run are read, and only from
\* the first file.
PerpetualYearRead ==
  OzoneScenario(setup.nml) = "perpetual" =>
    setup.nml.yr_perp \in
      (setup.start.year - 1 .. setup.end.year + 1) \intersect (1850 .. 1899)

\* What the atmosphere receives for a date is the interpolation at that very
\* date, between the right months of the right files, however far ahead the
\* providers are and whatever was read before.
RightData ==
  Atmosphere /\ InPhase =>
    \A f \in Fields :
      /\ got[f] # <<>>
      /\ f = FineField => FirstYear(got[f].date)
      /\ f = OzoneField => PerpetualYearRead
      => SameData(got[f].data, Expected(f, got[f].date))

\* The day, from 0, of a year without leap day that has the same month and
\* day of the month.
CommonDay(date) == DaysBefore[date.month] + date.minute \div Day

\* On the leap day nothing is asked of the runoff: the program's comment
\* gives it that of 28 February, its comparison that of 1 March.
OnLeapDay(date) == date.month = 2 /\ date.minute \div Day = 28

\* The ocean receives at every hour all its forcing of this hour, from
\* whichever rank and in whatever order it was read, through the turn of the
\* year and past a leap day: the runoff is that of the same month and day.
RightForcing ==
  ~Atmosphere =>
    \A v \in 0 .. Variables :
      LET g == got[ForcingField(v)]
      IN g # <<>> =>
           IF v = Runoff THEN OnLeapDay(g.date) \/ g.data.day = CommonDay(g.date)
           ELSE g.data = [year |-> g.date.year, hour |-> HourOfYear(g.date)]

\* The runs that the providers have data for: they are not refused, no day is
\* missing in the perpetual year, and the months around every date are there.
LeapDay(year) == Date(year, 2, 29, 0)
Provided ==
  ~Atmosphere \/
    /\ AeroScenario(setup.nml) # "refused"
    /\ OzoneScenario(setup.nml) # "refused"
    /\ AeroScenario(setup.nml) = "historical" =>
         setup.start.year > 1845 /\ setup.end.year < 2100
    /\ OzoneScenario(setup.nml) = "historical" =>
         NotAfter(setup.end, Middle(<<2099, 12>>))
    /\ OzoneScenario(setup.nml) # "historical" =>
         \A y \in setup.start.year .. setup.end.year :
           Leap(y) => \/ NotAfter(setup.end, LeapDay(y))
                      \/ ~Before(setup.start, Later(LeapDay(y), Day))
    /\ PerpetualYearRead

Ended == ModelOver /\ \A p \in Providers : status[p] = "ended"

\* Providers and model agree on how often each field is exchanged: where the
\* data exist all of them come to their end, and none waits for the others.
AllEnd == Provided /\ InPhase => <>Ended
=============================================================================
