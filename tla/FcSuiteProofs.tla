--------------------------- MODULE FcSuiteProofs ---------------------------
(***************************************************************************)
(* The daily forecasts of the ecFlow suites, for every number of parallel  *)
(* families, every range of dates, and tasks that fail and start again in  *)
(* any order: no forecast starts without its inputs, and the means of a    *)
(* month cover every forecast of the month.                                *)
(***************************************************************************)
EXTENDS FcSuite, WellFoundedInduction, TLAPS

Status == {"queued", "active", "aborted", "complete"}
Events == {"time_eom", "time_domonth", "time_ifs_icon_2", "rerun"}

(* What the suite is asked to forecast, and a family that has begun.       *)
Asked(d)   == Month(d) \in suite.months
Begun(st)  == \E t \in DOMAIN st : st[t] # "queued"

(* The date e of the repeat of f is dealt with.                            *)
Past(f, e) == e < ymd[f] \/ f \in over

(* The k-th date of the forecasts and posts number i.                      *)
Nth(i, k)  == suite.first + i - 1 + k * suite.npar

DiskType == [setup : BOOLEAN, binary : BOOLEAN, flag : BOOLEAN,
             analysis : SUBSET Int, input : SUBSET Int, output : SUBSET Int,
             posted : SUBSET Int, means : SUBSET (Int \X SUBSET Int),
             logged : [Par -> BOOLEAN]]

TypeInv ==
    /\ suite \in Suites
    /\ DOMAIN state = Families
    /\ \A f \in Families : state[f] \in [Tasks(f) -> Status]
    /\ ymd \in [Families -> Int] /\ over \in SUBSET Families
    /\ events \in [Families -> SUBSET Events]
    /\ disk \in DiskType

(* The dates of the repeats, and the last of them once a family is over.   *)
DateInv ==
    /\ ymd[Init0] \in suite.first .. suite.last
    /\ Init0 \in over => ymd[Init0] = suite.last
    /\ \A i \in Par : \A f \in {Fc(i), Post(i)} :
          /\ \E k \in Nat : ymd[f] = Nth(i, k)
          /\ ymd[f] <= suite.last
          /\ f \in over => suite.last < ymd[f] + suite.npar

(* What the tasks of family f, with the states st and the date d, rely on  *)
(* and have left on the disk dk.                                           *)
EventsOf(st, d, ev) ==
    /\ ev \ {"rerun"} \subseteq TestdayEvents(d)
    /\ st[Task("testday")] = "complete" => TestdayEvents(d) \subseteq ev

InitTasks(st, d, dk) ==
    /\ Begun(st) => dk.setup
    /\ st[Task("init_cp_binary")] = "complete" /\ d = suite.first => dk.binary
    /\ st[Task("get_data")] = "complete" /\ Asked(d) =>
          d \in IF Month(d) \in suite.ifs THEN dk.analysis ELSE dk.input
    /\ st[Task("init_data")] = "active" => st[Task("get_data")] = "complete"
    /\ st[Task("init_data")] = "complete" /\ Asked(d) /\ Month(d) \in suite.ifs =>
          d \in dk.input

FcTasks(st, d, dk) ==
    /\ st[Task("model")] \in {"active", "aborted"} => Past(Init0, d) /\ Asked(d)
    /\ st[Task("model")] = "complete" /\ Asked(d) => d \in dk.output

PostTasks(st, d, dk) ==
    /\ Begun(st) /\ Asked(d) => d \in dk.output
    /\ st[Task("post_prepare")] = "complete" /\ Asked(d) => d \in dk.posted

EomTasksOf(st, d, dk) ==
    Begun(st) => \A e \in Wanted : e <= d => e \in dk.output /\ e \in dk.posted

Holds(f, st, ev, dk) ==
    /\ f = Experiment /\ st[Task("once")] = "complete" => dk.setup
    /\ f # Experiment => EventsOf(st, ymd[f], ev)
    /\ f = Init0 => InitTasks(st, ymd[f], dk)
    /\ f \in ForecastAll => FcTasks(st, ymd[f], dk)
    /\ f \in AllPosts => PostTasks(st, ymd[f], dk)
    /\ f = EndOfMonth => EomTasksOf(st, ymd[f], dk)

TaskInv ==
    /\ \A f \in Families : Holds(f, state[f], events[f], disk)
    /\ \A f \in over : \A t \in Tasks(f) : state[f][t] = "complete"

(* What is on the disk for the dates that a family has dealt with.         *)
PastInv ==
    /\ Past(Init0, suite.first) => disk.setup /\ disk.binary
    /\ \A e \in Wanted : Past(Init0, e) => e \in disk.input
    /\ \A i \in Par : \A k \in Nat : Nth(i, k) \in Wanted =>
          /\ Past(Fc(i), Nth(i, k)) => Nth(i, k) \in disk.output
          /\ Past(Post(i), Nth(i, k)) =>
                Nth(i, k) \in disk.output /\ Nth(i, k) \in disk.posted

DiskInv == disk.output \subseteq Wanted /\ MonthComplete

SuiteInv == TypeInv /\ DateInv /\ TaskInv /\ PastInv /\ DiskInv

-----------------------------------------------------------------------------
(* Families and tasks are what their names say.                            *)
LEMMA Kinds ==
    /\ Experiment \in Families /\ Init0 \in Families /\ EndOfMonth \in Families
    /\ \A i \in Par : Fc(i) \in Families /\ Post(i) \in Families
    /\ \A f \in Families : \/ f = Experiment \/ f = Init0 \/ f = EndOfMonth
                           \/ \E i \in Par : f = Fc(i) \/ f = Post(i)
    /\ \A f \in ForecastAll : f[2] \in Par /\ f = Fc(f[2])
    /\ \A f \in AllPosts : f[2] \in Par /\ f = Post(f[2])
    /\ \A i \in Par : Fc(i)[2] = i /\ Post(i)[2] = i
  BY DEF Families, ForecastAll, AllPosts, Experiment, Init0, EndOfMonth, Fc, Post

LEMMA KindsDiffer ==
    /\ Experiment # Init0 /\ Experiment # EndOfMonth /\ Init0 # EndOfMonth
    /\ \A i : /\ Fc(i) \notin {Experiment, Init0, EndOfMonth}
              /\ Post(i) \notin {Experiment, Init0, EndOfMonth}
    /\ \A i, j : Fc(i) # Post(j)
    /\ \A i, j : (Fc(i) = Fc(j) => i = j) /\ (Post(i) = Post(j) => i = j)
    /\ \A f \in ForecastAll : f \notin AllPosts \union {Experiment, Init0, EndOfMonth}
    /\ \A f \in AllPosts : f \notin ForecastAll \union {Experiment, Init0, EndOfMonth}
  BY DEF ForecastAll, AllPosts, Experiment, Init0, EndOfMonth, Fc, Post

LEMMA TaskSets ==
    /\ Tasks(Experiment) = {Task("once")}
    /\ Tasks(Init0) = {Task("testday"), Task("setup"), Task("get_data"),
                       Task("init_cp_binary"), Task("init_data")}
    /\ \A f \in ForecastAll :
          Tasks(f) = {Task("testday"), Task("model"), Task("check_progress")}
    /\ \A f \in AllPosts : Tasks(f) = {Task("testday"), Task("post_prepare")}
    /\ Tasks(EndOfMonth) = {Task("testday")} \union EomTasks
  <1>1. Tasks(EndOfMonth) = {Task("testday")} \union EomTasks
    BY KindsDiffer DEF Tasks
  <1>2. /\ Tasks(Experiment) = {Task("once")}
        /\ Tasks(Init0) = {Task("testday"), Task("setup"), Task("get_data"),
                           Task("init_cp_binary"), Task("init_data")}
    BY KindsDiffer DEF Tasks
  <1>3. \A f \in ForecastAll :
          Tasks(f) = {Task("testday"), Task("model"), Task("check_progress")}
    BY KindsDiffer DEF Tasks
  <1>4. \A f \in AllPosts : Tasks(f) = {Task("testday"), Task("post_prepare")}
    BY KindsDiffer DEF Tasks
  <1> QED
    BY <1>1, <1>2, <1>3, <1>4

LEMMA Testdays == \A f \in Families : f # Experiment => Task("testday") \in Tasks(f)
  BY Kinds, TaskSets DEF ForecastAll, AllPosts

LEMMA TaskNames ==
    /\ \A name : Task(name)[1] = name
    /\ \A m, n : Task(m) = Task(n) => m = n
    /\ \A t \in EomTasks : t[1] \in {"eom_prepare_1", "eom_prepare_2", "eom_prepare_3",
                                     "eom_metview", "eom_getmars", "eom_archive"}
  BY DEF Task, EomTasks, PrepAll, Prep2All, MetAll

LEMMA EventFacts ==
    ASSUME NEW d
    PROVE  /\ TestdayEvents(d) \subseteq Events \ {"rerun"}
           /\ "time_domonth" \in TestdayEvents(d) <=> Asked(d)
           /\ "time_ifs_icon_2" \in TestdayEvents(d) =>
                 Month(d) \in suite.months /\ Month(d) \notin suite.ifs
  BY DEF TestdayEvents, Events, Asked

(* A set of natural numbers has a least element, and Min is it.            *)
LEMMA MinLeast ==
    ASSUME NEW S, S \subseteq Nat, S # {}
    PROVE  Min(S) \in S /\ \A y \in S : Min(S) <= y
  <1> DEFINE Less == {ss \in Nat \X Nat : ss[1] < ss[2]}
  <1>0. IsWellFoundedOn(Less, Nat)
    BY NatLessThanWellFounded, Zenon DEF OpToRel
  <1>1. PICK x \in S : \A y \in S : <<y, x>> \notin Less
    <2> HIDE DEF Less
    <2> QED
      BY <1>0, WFMin
  <1>2. ASSUME NEW y \in S, ~(x <= y) PROVE FALSE
    <2>1. x \in Nat /\ y \in Nat /\ y < x
      BY <1>2
    <2>2. <<y, x>> \in Less
      BY <2>1
    <2> QED
      BY <2>2, <1>1
  <1> QED
    BY <1>2 DEF Min

LEMMA MinOne == ASSUME NEW x \in Int PROVE Min({x}) = x
  BY DEF Min

(* The repeats of a suite.                                                 *)
LEMMA SuiteFacts ==
    ASSUME suite \in Suites
    PROVE  /\ suite.npar \in Nat \ {0} /\ suite.first \in Nat \ {0} /\ suite.last \in Nat
           /\ suite.first + suite.npar - 1 <= suite.last
           /\ Asked(suite.first)
           /\ suite.eom # {} /\ suite.eom \subseteq Nat
           /\ suite.first \in Wanted /\ Wanted \subseteq suite.first .. suite.last
           /\ Par \subseteq Nat \ {0}
           /\ \A i \in Par : Fc(i) \in ForecastAll /\ Post(i) \in AllPosts
  <1>1. /\ suite.npar \in Nat \ {0} /\ suite.first \in Nat \ {0} /\ suite.last \in Nat
        /\ suite.first + suite.npar - 1 <= suite.last /\ Month(suite.first) \in suite.months
        /\ suite.eom # {} /\ suite.eom \subseteq suite.first .. suite.last
    BY SuiteAssumption
  <1>2. suite.eom \subseteq Nat
    BY <1>1
  <1>3. suite.first \in Wanted /\ Wanted \subseteq suite.first .. suite.last
    BY <1>1 DEF Wanted
  <1> QED
    BY <1>1, <1>2, <1>3 DEF Asked, Par, ForecastAll, AllPosts

LEMMA NthType ==
    ASSUME suite \in Suites, NEW i \in Par, NEW k \in Nat
    PROVE  /\ Nth(i, k) \in Int /\ suite.first <= Nth(i, k)
           /\ Nth(i, k) + suite.npar = Nth(i, k + 1)
           /\ Nth(i, 0) = suite.first + i - 1
  <1>1. k * suite.npar \in Nat /\ (k + 1) * suite.npar = k * suite.npar + suite.npar
        /\ 0 * suite.npar = 0
    BY SuiteFacts
  <1>2. i \in Nat \ {0} /\ suite.first \in Nat /\ suite.npar \in Nat
    BY SuiteFacts
  <1> QED
    BY <1>1, <1>2 DEF Nth

(* Between two dates of a family there is none of its own.                 *)
LEMMA NthGap ==
    ASSUME suite \in Suites, NEW i \in Par, NEW k \in Nat, NEW m \in Nat,
           Nth(i, k) < Nth(i, m) + suite.npar
    PROVE  Nth(i, k) < Nth(i, m) \/ Nth(i, k) = Nth(i, m)
  <1>0. suite.npar \in Nat \ {0} /\ suite.first \in Nat /\ i \in Nat
    BY SuiteFacts
  <1>1. k * suite.npar < m * suite.npar + suite.npar
    BY <1>0 DEF Nth
  <1>2. k <= m
    BY <1>0, <1>1
  <1>3. CASE k = m
    BY <1>3
  <1>4. CASE k < m
    <2>1. k * suite.npar < m * suite.npar
      BY <1>0, <1>4
    <2> QED
      BY <2>1, <1>0 DEF Nth
  <1> QED
    BY <1>2, <1>3, <1>4

(* Every date of the suite is one of some family's.                        *)
LEMMA Covered ==
    ASSUME suite \in Suites, NEW e \in suite.first .. suite.last
    PROVE  \E i \in Par : \E k \in Nat : e = Nth(i, k)
  <1>0. suite.npar \in Nat \ {0} /\ suite.first \in Nat /\ e \in Nat /\ suite.first <= e
    BY SuiteFacts
  <1> DEFINE a == e - suite.first
             S == {k \in Nat : a < (k + 1) * suite.npar}
  <1>1. a \in Nat
    BY <1>0
  <1>2. a \in S
    <2>1. a + 1 <= (a + 1) * suite.npar
      BY <1>0, <1>1
    <2> QED
      BY <2>1, <1>0, <1>1
  <1>3. PICK k \in S : \A y \in S : k <= y
    <2>1. S \subseteq Nat /\ S # {}
      BY <1>2
    <2> HIDE DEF S
    <2> QED
      BY <2>1, MinLeast
  <1>4. k \in Nat /\ a < (k + 1) * suite.npar
    BY <1>3
  <1>5. k * suite.npar <= a
    <2>1. CASE k = 0
      BY <2>1, <1>0, <1>1
    <2>2. CASE k # 0
      <3>1. k - 1 \in Nat /\ k - 1 \notin S
        BY <2>2, <1>3, <1>4
      <3> QED
        BY <3>1, <1>0, <1>1
    <2> QED
      BY <2>1, <2>2
  <1>6. a - k * suite.npar + 1 \in Par
    <2> HIDE DEF S
    <2>0. k * suite.npar \in Nat
      BY <1>0, <1>4
    <2>1. (k + 1) * suite.npar = k * suite.npar + suite.npar
      BY <1>0, <1>4
    <2> QED
      BY <2>1, <1>0, <1>1, <1>4, <1>5 DEF Par
  <1>7. e = Nth(a - k * suite.npar + 1, k)
    <2>1. k * suite.npar \in Nat
      BY <1>0, <1>4
    <2> QED
      BY <2>1, <1>0 DEF Nth
  <1> QED
    BY <1>4, <1>6, <1>7
-----------------------------------------------------------------------------
(* What is on the disk stays there.                                        *)
Grows ==
    /\ disk.setup => disk'.setup
    /\ disk.binary => disk'.binary
    /\ disk.analysis \subseteq disk'.analysis /\ disk.input \subseteq disk'.input
    /\ disk.output \subseteq disk'.output /\ disk.posted \subseteq disk'.posted

LEMMA HoldsGrows ==
    ASSUME NEW f \in Families, NEW st, NEW ev, Holds(f, st, ev, disk), Grows
    PROVE  Holds(f, st, ev, disk')
  <1>1. f = Init0 => InitTasks(st, ymd[f], disk')
    BY DEF Holds, Grows, InitTasks
  <1>2. f \in ForecastAll => FcTasks(st, ymd[f], disk')
    BY DEF Holds, Grows, FcTasks
  <1>3. f \in AllPosts => PostTasks(st, ymd[f], disk')
    BY DEF Holds, Grows, PostTasks
  <1>4. f = EndOfMonth => EomTasksOf(st, ymd[f], disk')
    BY DEF Holds, Grows, EomTasksOf
  <1> QED
    BY <1>1, <1>2, <1>3, <1>4 DEF Holds, Grows

(* What holds of a family with the new disk holds in the new state.        *)
LEMMA HoldsNext ==
    ASSUME NEW f \in Families, NEW st, NEW ev, Holds(f, st, ev, disk'), suite' = suite,
           state'[f] = st, events'[f] = ev, ymd'[f] = ymd[f],
           Past(Init0, ymd[f]) => (ymd[f] < ymd'[Init0] \/ Init0 \in over')
    PROVE  Holds(f, state[f], events[f], disk)'
  <1>1. f = Init0 => InitTasks(state[f], ymd[f], disk)'
    BY DEF Holds, InitTasks, Begun, Asked
  <1>2. f \in ForecastAll => FcTasks(state[f], ymd[f], disk)'
    BY DEF Holds, FcTasks, Past, Asked
  <1>3. f \in AllPosts => PostTasks(state[f], ymd[f], disk)'
    BY DEF Holds, PostTasks, Begun, Asked
  <1>4. f = EndOfMonth => EomTasksOf(state[f], ymd[f], disk)'
    BY DEF Holds, EomTasksOf, Begun, Wanted
  <1>5. f # Experiment => EventsOf(state[f], ymd[f], events[f])'
    BY DEF Holds, EventsOf, TestdayEvents
  <1>6. ForecastAll' = ForecastAll /\ AllPosts' = AllPosts
    BY DEF ForecastAll, AllPosts, Par
  <1> QED
    BY <1>1, <1>2, <1>3, <1>4, <1>5, <1>6 DEF Holds

(* A family whose tasks are queued relies on nothing.                      *)
LEMMA QueuedNext ==
    ASSUME NEW f \in Families, suite' = suite,
           state'[f] = [t \in Tasks(f) |-> "queued"], events'[f] = {}
    PROVE  Holds(f, state[f], events[f], disk)'
  <1> DEFINE st == [t \in Tasks(f) |-> "queued"]
  <1>2. state'[f] = st
    OBVIOUS
  <1>3. ~Begun(st)
    BY DEF Begun
  <1>4. /\ f # Experiment => st[Task("testday")] = "queued"
        /\ f = Experiment => st[Task("once")] = "queued"
        /\ f = Init0 => \A name \in {"init_cp_binary", "get_data", "init_data"} :
                           st[Task(name)] = "queued"
        /\ f \in ForecastAll => st[Task("model")] = "queued"
        /\ f \in AllPosts => st[Task("post_prepare")] = "queued"
    BY Testdays, TaskSets
  <1>5. ForecastAll' = ForecastAll /\ AllPosts' = AllPosts
    BY DEF ForecastAll, AllPosts, Par
  <1> HIDE DEF st
  <1> QED
    BY <1>2, <1>3, <1>4, <1>5
    DEF Holds, EventsOf, InitTasks, FcTasks, PostTasks, EomTasksOf, Begun

(* What the trigger of a family guarantees for its present date.           *)
LEMMA TriggerFacts ==
    ASSUME SuiteInv, NEW f \in Families, FamilyTrigger(f)
    PROVE  /\ f = Init0 => disk.setup
           /\ f \in ForecastAll => Past(Init0, ymd[f])
           /\ f \in AllPosts /\ Asked(ymd[f]) => ymd[f] \in disk.output
           /\ f = EndOfMonth => \A e \in Wanted :
                  e <= ymd[f] => e \in disk.output /\ e \in disk.posted
  <1>0. suite \in Suites /\ ymd \in [Families -> Int]
    BY DEF SuiteInv, TypeInv
  <1>1. ASSUME f = Init0 PROVE disk.setup
    <2>1. state[Experiment][Task("once")] = "complete"
      BY <1>1 DEF FamilyTrigger, Done, Complete
    <2> QED
      BY <2>1, Kinds DEF SuiteInv, TaskInv, Holds
  <1>2. ASSUME f \in ForecastAll PROVE Past(Init0, ymd[f])
    BY <1>2 DEF FamilyTrigger, Past
  <1>3. ASSUME f \in AllPosts, Asked(ymd[f]) PROVE ymd[f] \in disk.output
    <2>1. PICK i \in Par : f = Post(i) /\ f[2] = i
      BY <1>3, Kinds
    <2>2. PICK k \in Nat : ymd[f] = Nth(i, k)
      BY <2>1 DEF SuiteInv, DateInv
    <2>3. Nth(i, k) \in Wanted
      <3>1. Nth(i, k) \in Int /\ suite.first <= Nth(i, k) /\ Nth(i, k) <= suite.last
        BY <1>0, <2>1, <2>2, NthType DEF SuiteInv, DateInv
      <3> QED
        BY <3>1, <1>0, <1>3, <2>2, SuiteFacts DEF Wanted, Asked
    <2>4. Past(Fc(i), Nth(i, k))
      BY <1>0, <1>3, <2>1, <2>2, SuiteFacts DEF FamilyTrigger, Past
    <2> QED
      BY <2>2, <2>3, <2>4 DEF SuiteInv, PastInv
  <1>4. ASSUME f = EndOfMonth, NEW e \in Wanted, e <= ymd[f]
        PROVE  e \in disk.output /\ e \in disk.posted
    <2>1. PICK i \in Par, k \in Nat : e = Nth(i, k)
      BY <1>0, SuiteFacts, Covered
    <2>2. Past(Post(i), e)
      <3>1. CASE AllPostsPast
        <4>1. ymd[Post(i)] > ymd[f] /\ ymd[Post(i)] \in Int /\ ymd[f] \in Int /\ e \in Int
          BY <3>1, <1>0, <1>4, <2>1, Kinds, NthType DEF AllPostsPast
        <4> QED
          BY <4>1, <1>4 DEF Past
      <3>2. CASE AllPosts \subseteq over
        BY <3>2, <1>0, SuiteFacts DEF Past
      <3> QED
        BY <3>1, <3>2, <1>4, KindsDiffer DEF FamilyTrigger
    <2> QED
      BY <2>1, <2>2 DEF SuiteInv, PastInv
  <1> QED
    BY <1>1, <1>2, <1>3, <1>4

(* The next date of a repeat.                                              *)
LEMMA LaterFacts ==
    ASSUME TypeInv, DateInv, NEW f \in Families
    PROVE  /\ LaterDates(f) # {} => Min(LaterDates(f)) \in Int /\ ymd[f] < Min(LaterDates(f))
           /\ f = Init0 => IF LaterDates(f) = {} THEN ymd[f] = suite.last
                           ELSE Min(LaterDates(f)) = ymd[f] + 1 /\ ymd[f] + 1 <= suite.last
           /\ f \in ForecastAll \union AllPosts =>
                 IF LaterDates(f) = {} THEN suite.last < ymd[f] + suite.npar
                 ELSE /\ Min(LaterDates(f)) = ymd[f] + suite.npar
                      /\ ymd[f] + suite.npar <= suite.last
           /\ f = Experiment => LaterDates(f) = {}
  <1>0. suite \in Suites /\ ymd[f] \in Int
    BY DEF TypeInv
  <1>1. ASSUME f = Init0
        PROVE  IF LaterDates(f) = {} THEN ymd[f] = suite.last
               ELSE Min(LaterDates(f)) = ymd[f] + 1 /\ ymd[f] + 1 <= suite.last
    <2>1. LaterDates(f) = {ymd[f] + 1} \intersect 1 .. suite.last
      BY <1>1, KindsDiffer DEF LaterDates
    <2>2. ymd[f] \in Nat \ {0} /\ ymd[f] <= suite.last /\ suite.last \in Nat
      BY <1>0, <1>1, SuiteFacts DEF DateInv
    <2>3. CASE LaterDates(f) = {}
      BY <2>1, <2>2, <2>3
    <2>4. CASE LaterDates(f) # {}
      <3>1. LaterDates(f) = {ymd[f] + 1} /\ ymd[f] + 1 <= suite.last
        BY <2>1, <2>2, <2>4
      <3> QED
        BY <3>1, <1>0, MinOne, <2>4
    <2> QED
      BY <2>3, <2>4
  <1>2. ASSUME f \in ForecastAll \union AllPosts
        PROVE  IF LaterDates(f) = {} THEN suite.last < ymd[f] + suite.npar
               ELSE /\ Min(LaterDates(f)) = ymd[f] + suite.npar
                    /\ ymd[f] + suite.npar <= suite.last
    <2>1. LaterDates(f) = {ymd[f] + suite.npar} \intersect 1 .. suite.last
      BY <1>2, KindsDiffer DEF LaterDates
    <2>2. PICK i \in Par : f \in {Fc(i), Post(i)}
      BY <1>2, Kinds
    <2>3. PICK k \in Nat : ymd[f] = Nth(i, k)
      BY <2>2 DEF DateInv
    <2>4. ymd[f] \in Nat \ {0} /\ suite.last \in Nat /\ suite.npar \in Nat \ {0}
      BY <1>0, <2>3, NthType, SuiteFacts
    <2>5. CASE LaterDates(f) = {}
      BY <2>1, <2>4, <2>5
    <2>6. CASE LaterDates(f) # {}
      <3>1. LaterDates(f) = {ymd[f] + suite.npar} /\ ymd[f] + suite.npar <= suite.last
        BY <2>1, <2>4, <2>6
      <3>2. ymd[f] + suite.npar \in Int
        BY <2>4
      <3> QED
        BY <3>1, <3>2, MinOne, <2>6
    <2> QED
      BY <2>5, <2>6
  <1>3. ASSUME f = Experiment PROVE LaterDates(f) = {}
    BY <1>3, KindsDiffer DEF LaterDates
  <1>4. ASSUME LaterDates(f) # {}
        PROVE  Min(LaterDates(f)) \in Int /\ ymd[f] < Min(LaterDates(f))
    <2>1. CASE f = Experiment
      BY <2>1, <1>3, <1>4
    <2>2. CASE f = Init0
      BY <2>2, <1>0, <1>1, <1>4
    <2>3. CASE f \in ForecastAll \union AllPosts
      BY <2>3, <1>0, <1>2, <1>4, SuiteFacts
    <2>4. CASE f = EndOfMonth
      <3>1. LaterDates(f) = {d \in suite.eom : d > ymd[f]}
        BY <2>4, KindsDiffer DEF LaterDates
      <3>2. LaterDates(f) \subseteq Nat
        BY <3>1, <1>0, SuiteFacts
      <3>3. Min(LaterDates(f)) \in LaterDates(f)
        BY <3>2, <1>4, MinLeast
      <3> QED
        BY <3>1, <3>2, <3>3, <1>0
    <2> QED
      BY <2>1, <2>2, <2>3, <2>4, Kinds, SuiteFacts, <1>0
  <1> QED
    BY <1>1, <1>2, <1>3, <1>4

(* The ways in which the tasks of a family come to have the states st:     *)
(* some are not complete; all are, and the family goes on with its next    *)
(* date; or all are and its dates are used up.                             *)
Stays(f, st)    == state'[f] = st /\ ymd' = ymd /\ events' = events /\ over' = over
Advances(f, st) ==
    /\ \A t \in Tasks(f) : st[t] = "complete"
    /\ LaterDates(f) # {} /\ ymd'[f] = Min(LaterDates(f))
    /\ state'[f] = [t \in Tasks(f) |-> "queued"]
    /\ events'[f] = {} /\ over' = over
Stops(f, st)    ==
    /\ \A t \in Tasks(f) : st[t] = "complete"
    /\ LaterDates(f) = {} /\ over' = over \union {f}
    /\ state'[f] = st /\ ymd' = ymd /\ events' = events

LEMMA SetTasksCases ==
    ASSUME TypeInv, NEW f \in Families, NEW st \in [Tasks(f) -> Status], SetTasks(f, st)
    PROVE  /\ Stays(f, st) \/ Advances(f, st) \/ Stops(f, st)
           /\ \A g \in Families : g # f =>
                 state'[g] = state[g] /\ ymd'[g] = ymd[g] /\ events'[g] = events[g]
           /\ DOMAIN state' = Families /\ DOMAIN ymd' = Families /\ DOMAIN events' = Families
  <1> DEFINE through == \A t \in Tasks(f) : st[t] = "complete"
  <1>0. DOMAIN state = Families /\ DOMAIN ymd = Families /\ DOMAIN events = Families
    BY DEF TypeInv
  <1>1. CASE through /\ LaterDates(f) # {}
    <2>1. /\ state' = [state EXCEPT ![f] = [t \in Tasks(f) |-> "queued"]]
          /\ ymd' = [ymd EXCEPT ![f] = Min(LaterDates(f))]
          /\ events' = [events EXCEPT ![f] = {}] /\ over' = over
      BY <1>1 DEF SetTasks
    <2>2. Advances(f, st)
      BY <1>0, <1>1, <2>1 DEF Advances
    <2> QED
      BY <1>0, <2>1, <2>2
  <1>2. CASE ~(through /\ LaterDates(f) # {})
    <2>1. /\ state' = [state EXCEPT ![f] = st]
          /\ over' = IF through THEN over \union {f} ELSE over
          /\ ymd' = ymd /\ events' = events
      BY <1>2 DEF SetTasks
    <2>2. Stays(f, st) \/ Stops(f, st)
      BY <1>0, <1>2, <2>1 DEF Stays, Stops
    <2> QED
      BY <1>0, <2>1, <2>2
  <1> QED
    BY <1>1, <1>2

LEMMA SetTasksTypes ==
    ASSUME SuiteInv, NEW f \in Families, NEW st \in [Tasks(f) -> Status],
           suite' = suite, disk' \in DiskType, SetTasks(f, st)
    PROVE  TypeInv'
  <1>1. Families' = Families /\ Par' = Par /\ \A g : Tasks(g)' = Tasks(g)
    BY DEF Families, Par, ForecastAll, AllPosts, Tasks, EomTasks, PrepAll, Prep2All, MetAll
  <1>2. TypeInv /\ suite \in Suites
    BY DEF SuiteInv, TypeInv
  <1>3. /\ Stays(f, st) \/ Advances(f, st) \/ Stops(f, st)
        /\ \A g \in Families : g # f =>
              state'[g] = state[g] /\ ymd'[g] = ymd[g] /\ events'[g] = events[g]
        /\ DOMAIN state' = Families /\ DOMAIN ymd' = Families /\ DOMAIN events' = Families
    BY <1>2, SetTasksCases
  <1>4. \A g \in Families : state'[g] \in [Tasks(g) -> Status]
    <2>1. [t \in Tasks(f) |-> "queued"] \in [Tasks(f) -> Status]
      BY DEF Status
    <2> QED
      BY <1>2, <1>3, <2>1 DEF TypeInv, Stays, Advances, Stops
  <1>5. ymd'[f] \in Int /\ events'[f] \in SUBSET Events
    BY <1>2, <1>3, LaterFacts DEF TypeInv, SuiteInv, Stays, Advances, Stops
  <1>6. ymd' \in [Families -> Int] /\ events' \in [Families -> SUBSET Events]
    <2>1. \A g \in Families : ymd'[g] \in Int /\ events'[g] \in SUBSET Events
      BY <1>2, <1>3, <1>5 DEF TypeInv
    <2>2. ymd' = [g \in Families |-> ymd'[g]] /\ events' = [g \in Families |-> events'[g]]
      BY <1>2, <1>3 DEF TypeInv, SetTasks
    <2> QED
      BY <2>1, <2>2
  <1>7. over' \in SUBSET Families
    BY <1>2, <1>3 DEF TypeInv, Stays, Advances, Stops
  <1>8. DiskType' = DiskType
    BY <1>1 DEF DiskType
  <1> QED
    BY <1>1, <1>2, <1>3, <1>4, <1>6, <1>7, <1>8 DEF TypeInv

LEMMA SetTasksDates ==
    ASSUME SuiteInv, NEW f \in Families, NEW st \in [Tasks(f) -> Status],
           suite' = suite, SetTasks(f, st)
    PROVE  DateInv'
  <1>1. TypeInv /\ DateInv /\ suite \in Suites /\ ymd \in [Families -> Int]
    BY DEF SuiteInv, TypeInv
  <1>2. /\ Stays(f, st) \/ Advances(f, st) \/ Stops(f, st)
        /\ \A g \in Families : g # f => ymd'[g] = ymd[g]
    BY <1>1, SetTasksCases
  <1>3. \A g \in Families : g \in over' => g \in over \/ (g = f /\ Stops(f, st))
    BY <1>2 DEF Stays, Advances, Stops
  <1>4. /\ ymd'[Init0] \in suite.first .. suite.last
        /\ Init0 \in over' => ymd'[Init0] = suite.last
    <2>1. CASE f = Init0
      <3>1. ymd[f] \in suite.first .. suite.last /\ (f \in over => ymd[f] = suite.last)
        BY <1>1, <2>1 DEF DateInv
      <3>2. CASE Stays(f, st)
        BY <2>1, <3>1, <3>2 DEF Stays
      <3>3. CASE Advances(f, st)
        <4>1. ymd'[f] = ymd[f] + 1 /\ ymd[f] + 1 <= suite.last
          BY <1>1, <2>1, <3>3, LaterFacts DEF Advances
        <4>2. ~(f \in over)
          BY <1>1, <3>1, <4>1, SuiteFacts
        <4> QED
          BY <1>1, <2>1, <3>1, <3>3, <4>1, <4>2, SuiteFacts DEF Advances
      <3>4. CASE Stops(f, st)
        BY <1>1, <2>1, <3>1, <3>4, LaterFacts DEF Stops
      <3> QED
        BY <1>2, <3>2, <3>3, <3>4
    <2>2. CASE f # Init0
      BY <1>1, <1>2, <1>3, <2>2, Kinds DEF DateInv
    <2> QED
      BY <2>1, <2>2
  <1>5. ASSUME NEW i \in Par, NEW g \in {Fc(i), Post(i)}
        PROVE  /\ \E k \in Nat : ymd'[g] = Nth(i, k)
               /\ ymd'[g] <= suite.last
               /\ g \in over' => suite.last < ymd'[g] + suite.npar
    <2>0. g \in Families /\ g \in ForecastAll \union AllPosts
      BY <1>1, Kinds, SuiteFacts
    <2>1. /\ \E k \in Nat : ymd[g] = Nth(i, k)
          /\ ymd[g] <= suite.last
          /\ g \in over => suite.last < ymd[g] + suite.npar
      BY <1>1 DEF DateInv
    <2>2. CASE g = f
      <3>1. CASE Stays(f, st)
        BY <2>1, <2>2, <3>1 DEF Stays
      <3>2. CASE Advances(f, st)
        <4>1. ymd'[g] = ymd[g] + suite.npar /\ ymd[g] + suite.npar <= suite.last
          BY <1>1, <2>0, <2>2, <3>2, LaterFacts DEF Advances
        <4>2. PICK k \in Nat : ymd[g] = Nth(i, k)
          BY <2>1
        <4>3. ymd'[g] = Nth(i, k + 1)
          BY <1>1, <4>1, <4>2, NthType
        <4>4. g \notin over
          BY <1>1, <2>0, <2>1, <4>1, SuiteFacts
        <4> QED
          BY <2>2, <3>2, <4>1, <4>3, <4>4 DEF Advances
      <3>3. CASE Stops(f, st)
        BY <1>1, <2>0, <2>1, <2>2, <3>3, LaterFacts DEF Stops
      <3> QED
        BY <1>2, <3>1, <3>2, <3>3
    <2>3. CASE g # f
      BY <1>2, <1>3, <2>0, <2>1, <2>3
    <2> QED
      BY <2>2, <2>3
  <1>6. Par' = Par /\ \A i, k : Nth(i, k)' = Nth(i, k)
    BY DEF Par, Nth
  <1> QED
    BY <1>4, <1>5, <1>6 DEF DateInv

LEMMA SetTasksTasks ==
    ASSUME SuiteInv, NEW f \in Families, NEW st \in [Tasks(f) -> Status],
           f \notin over, suite' = suite, Grows, Holds(f, st, events[f], disk'),
           SetTasks(f, st)
    PROVE  TaskInv'
  <1>1. TypeInv /\ DateInv /\ TaskInv /\ ymd \in [Families -> Int]
    BY DEF SuiteInv, TypeInv
  <1>2. /\ Stays(f, st) \/ Advances(f, st) \/ Stops(f, st)
        /\ \A g \in Families : g # f =>
              state'[g] = state[g] /\ ymd'[g] = ymd[g] /\ events'[g] = events[g]
    BY <1>1, SetTasksCases
  <1>3. \A d \in Int : Past(Init0, d) => d < ymd'[Init0] \/ Init0 \in over'
    <2>1. ymd'[Init0] \in Int /\ ymd[Init0] <= ymd'[Init0] /\ ymd[Init0] \in Int
      BY <1>1, <1>2, Kinds, LaterFacts DEF Stays, Advances, Stops
    <2> QED
      BY <1>2, <2>1 DEF Past, Stays, Advances, Stops
  <1>4. ASSUME NEW g \in Families PROVE Holds(g, state[g], events[g], disk)'
    <2>0. ymd[g] \in Int
      BY <1>1
    <2>1. CASE g # f
      <3>1. Holds(g, state[g], events[g], disk')
        BY <1>1, HoldsGrows DEF TaskInv
      <3> QED
        BY <1>2, <1>3, <2>0, <2>1, <3>1, HoldsNext
    <2>2. CASE g = f /\ (Stays(f, st) \/ Stops(f, st))
      BY <1>3, <2>0, <2>2, HoldsNext DEF Stays, Stops
    <2>3. CASE g = f /\ Advances(f, st)
      <3>1. state'[g] = [t \in Tasks(g) |-> "queued"] /\ events'[g] = {}
        BY <2>3 DEF Advances
      <3> QED
        BY <3>1, QueuedNext
    <2> QED
      BY <1>2, <2>1, <2>2, <2>3
  <1>5. Families' = Families /\ \A g : Tasks(g)' = Tasks(g)
    BY DEF Families, Par, ForecastAll, AllPosts, Tasks, EomTasks, PrepAll, Prep2All, MetAll
  <1>6. \A g \in over' : \A t \in Tasks(g) : state'[g][t] = "complete"
    <2>1. CASE Stays(f, st) \/ Advances(f, st)
      BY <1>1, <1>2, <2>1 DEF TaskInv, TypeInv, Stays, Advances
    <2>2. CASE Stops(f, st)
      BY <1>1, <1>2, <2>2 DEF TaskInv, TypeInv, Stops
    <2> QED
      BY <1>2, <2>1, <2>2
  <1> QED
    BY <1>4, <1>5, <1>6 DEF TaskInv

(* When all tasks of a family are complete its date is dealt with.         *)
LEMMA SetTasksPast ==
    ASSUME SuiteInv, NEW f \in Families, NEW st \in [Tasks(f) -> Status],
           suite' = suite, Grows, Holds(f, st, events[f], disk'), SetTasks(f, st)
    PROVE  PastInv'
  <1>1. /\ TypeInv /\ DateInv /\ PastInv /\ ymd \in [Families -> Int] /\ suite \in Suites
        /\ \A g \in Families : ymd[g] \in Int
    BY DEF SuiteInv, TypeInv
  <1>2. /\ Stays(f, st) \/ Advances(f, st) \/ Stops(f, st)
        /\ \A g \in Families : g # f => ymd'[g] = ymd[g]
    BY <1>1, SetTasksCases
  <1> DEFINE Later(g, e) == e < ymd'[g] \/ g \in over'
             through     == \A t \in Tasks(f) : st[t] = "complete"
  <1>3. \A g \in Families : \A e : g # f /\ Later(g, e) => Past(g, e)
    BY <1>2 DEF Past, Stays, Advances, Stops
  <1>4. ASSUME f = Init0, NEW e \in suite.first .. suite.last, Later(f, e), ~Past(f, e)
        PROVE  e = ymd[f] /\ through
    <2>1. e \in Int /\ e <= suite.last /\ ~(e < ymd[f]) /\ f \notin over /\ ymd[f] \in Int
      BY <1>1, <1>4, SuiteFacts DEF Past
    <2>2. CASE Stays(f, st)
      BY <1>4, <2>1, <2>2 DEF Stays
    <2>3. CASE Advances(f, st)
      <3>1. ymd'[f] = ymd[f] + 1
        BY <1>1, <1>4, <2>3, LaterFacts DEF Advances
      <3> QED
        BY <1>4, <2>1, <2>3, <3>1 DEF Advances
    <2>4. CASE Stops(f, st)
      <3>1. ymd[f] = suite.last
        BY <1>1, <1>4, <2>4, LaterFacts DEF Stops
      <3> QED
        BY <2>1, <2>4, <3>1, SuiteFacts, <1>1 DEF Stops
    <2> QED
      BY <1>2, <2>2, <2>3, <2>4
  <1>5. ASSUME NEW i \in Par, f \in {Fc(i), Post(i)}, NEW k \in Nat,
               Nth(i, k) \in Wanted, Later(f, Nth(i, k)), ~Past(f, Nth(i, k))
        PROVE  Nth(i, k) = ymd[f] /\ through
    <2>0. f \in ForecastAll \union AllPosts
      BY <1>1, <1>5, SuiteFacts
    <2>1. /\ Nth(i, k) \in Int /\ Nth(i, k) <= suite.last /\ ~(Nth(i, k) < ymd[f])
          /\ f \notin over /\ ymd[f] \in Int
      BY <1>1, <1>5, SuiteFacts, NthType DEF Past
    <2>2. PICK m \in Nat : ymd[f] = Nth(i, m)
      BY <1>1, <1>5 DEF DateInv
    <2>3. CASE Stays(f, st)
      BY <1>5, <2>1, <2>3 DEF Stays
    <2>4. CASE Advances(f, st)
      <3>1. ymd'[f] = ymd[f] + suite.npar
        BY <1>1, <2>0, <2>4, LaterFacts DEF Advances
      <3>2. Nth(i, k) < Nth(i, m) + suite.npar
        BY <1>5, <2>1, <2>2, <2>4, <3>1 DEF Advances
      <3>3. Nth(i, k) = Nth(i, m)
        BY <1>1, <2>1, <2>2, <3>2, NthGap
      <3> QED
        BY <2>2, <2>4, <3>3 DEF Advances
    <2>5. CASE Stops(f, st)
      <3>1. suite.last < ymd[f] + suite.npar
        BY <1>1, <2>0, <2>5, LaterFacts DEF Stops
      <3>2. Nth(i, k) < Nth(i, m) + suite.npar
        BY <1>1, <2>1, <2>2, <3>1, SuiteFacts
      <3>3. Nth(i, k) = Nth(i, m)
        BY <1>1, <2>1, <2>2, <3>2, NthGap
      <3> QED
        BY <2>2, <2>5, <3>3 DEF Stops
    <2> QED
      BY <1>2, <2>3, <2>4, <2>5
  <1>6. ASSUME Later(Init0, suite.first) PROVE disk'.setup /\ disk'.binary
    <2>1. CASE Past(Init0, suite.first)
      BY <1>1, <2>1 DEF PastInv, Grows
    <2>2. CASE ~Past(Init0, suite.first)
      <3>1. f = Init0
        BY <1>3, <1>6, <2>2, Kinds
      <3>2. suite.first = ymd[f] /\ through
        BY <1>1, <1>4, <1>6, <2>2, <3>1, SuiteFacts
      <3>3. /\ st[Task("init_cp_binary")] = "complete"
            /\ Task("init_cp_binary") \in DOMAIN st
        BY <3>1, <3>2, TaskSets
      <3>4. InitTasks(st, ymd[f], disk')
        BY <3>1 DEF Holds
      <3> QED
        BY <3>2, <3>3, <3>4 DEF InitTasks, Begun
    <2> QED
      BY <2>1, <2>2
  <1>7. ASSUME NEW e \in Wanted, Later(Init0, e) PROVE e \in disk'.input
    <2>1. CASE Past(Init0, e)
      BY <1>1, <2>1 DEF PastInv, Grows
    <2>2. CASE ~Past(Init0, e)
      <3>1. f = Init0
        BY <1>3, <1>7, <2>2, Kinds
      <3>2. e = ymd[f] /\ through
        BY <1>1, <1>4, <1>7, <2>2, <3>1, SuiteFacts
      <3>3. st[Task("get_data")] = "complete" /\ st[Task("init_data")] = "complete"
        BY <3>1, <3>2, TaskSets
      <3>4. InitTasks(st, ymd[f], disk')
        BY <3>1 DEF Holds
      <3>5. Asked(e)
        BY DEF Wanted, Asked
      <3> QED
        BY <3>2, <3>3, <3>4, <3>5 DEF InitTasks
    <2> QED
      BY <2>1, <2>2
  <1>8. ASSUME NEW i \in Par, NEW k \in Nat, Nth(i, k) \in Wanted, Later(Fc(i), Nth(i, k))
        PROVE  Nth(i, k) \in disk'.output
    <2>1. CASE Past(Fc(i), Nth(i, k))
      BY <1>1, <1>8, <2>1 DEF PastInv, Grows
    <2>2. CASE ~Past(Fc(i), Nth(i, k))
      <3>1. f = Fc(i) /\ f \in ForecastAll
        BY <1>1, <1>3, <1>8, <2>2, Kinds, SuiteFacts
      <3>2. Nth(i, k) = ymd[f] /\ through
        BY <1>5, <1>8, <2>2, <3>1
      <3>3. st[Task("model")] = "complete"
        BY <3>1, <3>2, TaskSets
      <3>4. FcTasks(st, ymd[f], disk')
        BY <3>1 DEF Holds
      <3>5. Asked(Nth(i, k))
        BY <1>8 DEF Wanted, Asked
      <3> QED
        BY <3>2, <3>3, <3>4, <3>5 DEF FcTasks
    <2> QED
      BY <2>1, <2>2
  <1>9. ASSUME NEW i \in Par, NEW k \in Nat, Nth(i, k) \in Wanted, Later(Post(i), Nth(i, k))
        PROVE  Nth(i, k) \in disk'.output /\ Nth(i, k) \in disk'.posted
    <2>1. CASE Past(Post(i), Nth(i, k))
      BY <1>1, <1>9, <2>1 DEF PastInv, Grows
    <2>2. CASE ~Past(Post(i), Nth(i, k))
      <3>1. f = Post(i) /\ f \in AllPosts
        BY <1>1, <1>3, <1>9, <2>2, Kinds, SuiteFacts
      <3>2. Nth(i, k) = ymd[f] /\ through
        BY <1>5, <1>9, <2>2, <3>1
      <3>3. st[Task("post_prepare")] = "complete" /\ Task("post_prepare") \in DOMAIN st
        BY <3>1, <3>2, TaskSets
      <3>4. PostTasks(st, ymd[f], disk')
        BY <3>1 DEF Holds
      <3>5. Asked(Nth(i, k))
        BY <1>9 DEF Wanted, Asked
      <3> QED
        BY <3>2, <3>3, <3>4, <3>5 DEF PostTasks, Begun
    <2> QED
      BY <2>1, <2>2
  <1>10. Par' = Par /\ Wanted' = Wanted /\ \A i, k : Nth(i, k)' = Nth(i, k)
    BY DEF Par, Nth, Wanted
  <1> QED
    BY <1>6, <1>7, <1>8, <1>9, <1>10 DEF PastInv, Past

LEMMA SetTasksKeeps ==
    ASSUME SuiteInv, NEW f \in Families, NEW st \in [Tasks(f) -> Status],
           f \notin over, suite' = suite, disk' \in DiskType, Grows, DiskInv',
           Holds(f, st, events[f], disk'), SetTasks(f, st)
    PROVE  SuiteInv'
  BY SetTasksTypes, SetTasksDates, SetTasksTasks, SetTasksPast DEF SuiteInv

-----------------------------------------------------------------------------
(* A task of a family that is not complete: the family is not over, and    *)
(* what it relies on still holds of its other tasks.                       *)
LEMMA StillRuns ==
    ASSUME SuiteInv, NEW f \in Families, NEW t \in Tasks(f), state[f][t] # "complete",
           NEW status \in Status
    PROVE  /\ f \notin over
           /\ Holds(f, state[f], events[f], disk)
           /\ [state[f] EXCEPT ![t] = status] \in [Tasks(f) -> Status]
           /\ [state[f] EXCEPT ![t] = status][t] = status
           /\ \A u \in Tasks(f) : u # t => [state[f] EXCEPT ![t] = status][u] = state[f][u]
           /\ status # "queued" => Begun([state[f] EXCEPT ![t] = status])
           /\ state[f][t] # "queued" => Begun(state[f])
  <1>1. state[f] \in [Tasks(f) -> Status]
    BY DEF SuiteInv, TypeInv
  <1> QED
    BY <1>1 DEF SuiteInv, TaskInv, Begun

(* Once testday is complete, its events tell whether the month is wanted.  *)
LEMMA MonthKnown ==
    ASSUME SuiteInv, NEW f \in Families, f # Experiment, Done(f, "testday")
    PROVE  /\ NotThisMonth(f) <=> ~Asked(ymd[f])
           /\ "time_ifs_icon_2" \in events[f] => Month(ymd[f]) \notin suite.ifs
  <1>1. EventsOf(state[f], ymd[f], events[f])
    BY DEF SuiteInv, TaskInv, Holds
  <1>2. state[f][Task("testday")] = "complete"
    BY DEF Done, Complete
  <1> QED
    BY <1>1, <1>2, EventFacts DEF EventsOf, NotThisMonth

(* What a task that a complete expression ends leaves undone, and why.     *)
LEMMA RuleFacts ==
    ASSUME SuiteInv, NEW f \in Families, NEW t \in Tasks(f), CompleteRule(f, t)
    PROVE  /\ f # Experiment /\ t # Task("testday")
           /\ t = Task("init_cp_binary") => ~Asked(ymd[f]) \/ ymd[f] > suite.first
           /\ t = Task("init_data") => ~Asked(ymd[f]) \/ Month(ymd[f]) \notin suite.ifs
           /\ t \in {Task("get_data"), Task("model"), Task("post_prepare")} =>
                 ~Asked(ymd[f])
  <1>1. t \notin EomTasks => t[1] \notin {"once", "testday"}
    BY DEF CompleteRule
  <1>2. \A u \in EomTasks : u[1] \notin {"once", "testday", "init_cp_binary", "init_data",
                                         "get_data", "model", "post_prepare"}
    BY TaskNames
  <1>3. t[1] \notin {"once", "testday"}
    BY <1>1, <1>2
  <1>4. f # Experiment /\ t # Task("testday")
    BY <1>3, TaskSets, TaskNames
  <1>5. EventsOf(state[f], ymd[f], events[f])
    BY <1>4 DEF SuiteInv, TaskInv, Holds
  <1>6. NotThisMonth(f) => ~Asked(ymd[f])
    BY <1>4, MonthKnown DEF NotThisMonth
  <1>7. "time_ifs_icon_2" \in events[f] => Month(ymd[f]) \notin suite.ifs
    BY <1>5, EventFacts DEF EventsOf
  <1>8. \A name : t = Task(name) => t[1] = name
    BY TaskNames
  <1> QED
    BY <1>2, <1>4, <1>6, <1>7, <1>8 DEF CompleteRule

LEMMA CompleteByRuleKeeps ==
    ASSUME SuiteInv, NEW f \in Families, NEW t \in Tasks(f), CompleteByRule(f, t)
    PROVE  SuiteInv'
  <1> DEFINE st == [state[f] EXCEPT ![t] = "complete"]
             d  == ymd[f]
  <1>0. /\ state[f][t] = "queued" /\ FamilyTrigger(f) /\ CompleteRule(f, t)
        /\ SetTasks(f, st) /\ suite' = suite /\ disk' = disk
    BY DEF CompleteByRule, Ready, SetTask
  <1>1. /\ f \notin over /\ Holds(f, state[f], events[f], disk) /\ st \in [Tasks(f) -> Status]
        /\ st[t] = "complete" /\ \A u \in Tasks(f) : u # t => st[u] = state[f][u]
    BY <1>0, StillRuns DEF Status
  <1>2. /\ f # Experiment /\ t # Task("testday")
        /\ t = Task("init_cp_binary") => ~Asked(d) \/ d > suite.first
        /\ t = Task("init_data") => ~Asked(d) \/ Month(d) \notin suite.ifs
        /\ t \in {Task("get_data"), Task("model"), Task("post_prepare")} => ~Asked(d)
    BY <1>0, RuleFacts
  <1>3. /\ f = Init0 => disk.setup
        /\ f \in AllPosts /\ Asked(d) => d \in disk.output
        /\ f = EndOfMonth => \A e \in Wanted : e <= d => e \in disk.output /\ e \in disk.posted
    BY <1>0, TriggerFacts
  <1>4. suite \in Suites /\ d \in Int
    BY DEF SuiteInv, TypeInv
  <1> HIDE DEF st
  <1>5. EventsOf(st, d, events[f])
    BY <1>1, <1>2, Testdays DEF Holds, EventsOf
  <1>6. ASSUME f = Init0 PROVE InitTasks(st, d, disk)
    <2>1. InitTasks(state[f], d, disk)
      BY <1>1, <1>6 DEF Holds
    <2>2. t \in Tasks(Init0)
      BY <1>6
    <2>3. \A name \in {"init_cp_binary", "get_data", "init_data"} : Task(name) \in Tasks(f)
      BY <1>6, TaskSets
    <2>4. Task("init_cp_binary") # Task("get_data") /\ Task("init_data") # Task("get_data")
          /\ Task("init_cp_binary") # Task("init_data")
      BY TaskNames
    <2>5. d > suite.first => d # suite.first
      BY <1>4, SuiteFacts
    <2> QED
      BY <1>1, <1>2, <1>3, <1>4, <1>6, <2>1, <2>3, <2>4, <2>5, SuiteFacts DEF InitTasks
  <1>7. ASSUME f \in ForecastAll PROVE FcTasks(st, d, disk)
    <2>1. FcTasks(state[f], d, disk) /\ Task("model") \in Tasks(f)
      BY <1>1, <1>7, TaskSets DEF Holds
    <2> QED
      BY <1>1, <1>2, <2>1 DEF FcTasks
  <1>8. ASSUME f \in AllPosts PROVE PostTasks(st, d, disk)
    <2>1. PostTasks(state[f], d, disk) /\ Task("post_prepare") \in Tasks(f)
      BY <1>1, <1>8, TaskSets DEF Holds
    <2> QED
      BY <1>1, <1>2, <1>3, <1>8, <2>1 DEF PostTasks
  <1>9. f = EndOfMonth => EomTasksOf(st, d, disk)
    BY <1>3 DEF EomTasksOf
  <1>10. Holds(f, st, events[f], disk')
    BY <1>0, <1>2, <1>5, <1>6, <1>7, <1>8, <1>9 DEF Holds
  <1>11. disk' \in DiskType /\ Grows /\ DiskInv'
    <2>1. disk \in DiskType /\ DiskInv
      BY DEF SuiteInv, TypeInv
    <2>2. Wanted' = Wanted
      BY <1>0 DEF Wanted
    <2> QED
      BY <1>0, <2>1, <2>2 DEF Grows, DiskInv, MonthComplete
  <1> QED
    BY <1>0, <1>1, <1>10, <1>11, SetTasksKeeps

LEMMA SubmitKeeps ==
    ASSUME SuiteInv, NEW f \in Families, NEW t \in Tasks(f), Submit(f, t)
    PROVE  SuiteInv'
  <1> DEFINE st == [state[f] EXCEPT ![t] = "active"]
             d  == ymd[f]
  <1>0. /\ state[f][t] = "queued" /\ FamilyTrigger(f) /\ ~CompleteRule(f, t) /\ Trigger(f, t)
        /\ SetTasks(f, st) /\ suite' = suite /\ disk' = Started(f, t)
    BY DEF Submit, Ready, SetTask
  <1>1. /\ f \notin over /\ Holds(f, state[f], events[f], disk) /\ st \in [Tasks(f) -> Status]
        /\ st[t] = "active" /\ \A u \in Tasks(f) : u # t => st[u] = state[f][u]
    BY <1>0, StillRuns DEF Status
  <1>2. /\ f = Init0 => disk.setup
        /\ f \in ForecastAll => Past(Init0, d)
        /\ f \in AllPosts /\ Asked(d) => d \in disk.output
        /\ f = EndOfMonth => \A e \in Wanted : e <= d => e \in disk.output /\ e \in disk.posted
    BY <1>0, TriggerFacts
  <1>3. disk \in DiskType /\ DiskInv
    BY DEF SuiteInv, TypeInv
  <1>4. /\ disk' \in DiskType /\ Grows
        /\ disk'.setup = disk.setup /\ disk'.binary = disk.binary
        /\ disk'.analysis = disk.analysis /\ disk'.input = disk.input
        /\ disk'.output = disk.output /\ disk'.posted = disk.posted
        /\ disk'.means = disk.means
    <2>1. CASE t[1] = "model"
      <3>1. disk' = [disk EXCEPT !.logged[f[2]] = FALSE]
        BY <1>0, <2>1 DEF Started
      <3> QED
        BY <1>3, <3>1 DEF DiskType, Grows
    <2>2. CASE t[1] # "model"
      BY <1>0, <1>3, <2>2 DEF Started, Grows
    <2> QED
      BY <2>1, <2>2
  <1> HIDE DEF st
  <1>5. f # Experiment => EventsOf(st, d, events[f])
    BY <1>1, Testdays DEF Holds, EventsOf
  <1>6. ASSUME f = Init0 PROVE InitTasks(st, d, disk')
    <2>1. InitTasks(state[f], d, disk)
      BY <1>1, <1>6 DEF Holds
    <2>2. \A name \in {"init_cp_binary", "get_data", "init_data"} : Task(name) \in Tasks(f)
      BY <1>6, TaskSets
    <2>3. Task("init_data") # Task("get_data")
      BY TaskNames
    <2>4. t = Task("init_data") => state[f][Task("get_data")] = "complete"
      BY <1>0, TaskNames DEF Trigger, Done, Complete
    <2> QED
      BY <1>0, <1>1, <1>2, <1>4, <1>6, <2>1, <2>2, <2>3, <2>4 DEF InitTasks
  <1>7. ASSUME f \in ForecastAll PROVE FcTasks(st, d, disk')
    <2>1. FcTasks(state[f], d, disk) /\ Task("model") \in Tasks(f) /\ f # Experiment
      BY <1>1, <1>7, TaskSets, KindsDiffer DEF Holds
    <2>2. t = Task("model") => Asked(d)
      <3>1. SUFFICES ASSUME t = Task("model") PROVE Asked(d)
        OBVIOUS
      <3>2. t[1] = "model"
        BY <3>1, TaskNames
      <3>3. Done(f, "testday") /\ ~NotThisMonth(f)
        BY <1>0, <3>2 DEF Trigger, CompleteRule
      <3> QED
        BY <2>1, <3>3, MonthKnown
    <2> QED
      BY <1>1, <1>2, <1>4, <1>7, <2>1, <2>2 DEF FcTasks
  <1>8. ASSUME f \in AllPosts PROVE PostTasks(st, d, disk')
    <2>1. PostTasks(state[f], d, disk) /\ Task("post_prepare") \in Tasks(f)
      BY <1>1, <1>8, TaskSets DEF Holds
    <2> QED
      BY <1>1, <1>2, <1>4, <1>8, <2>1 DEF PostTasks
  <1>9. f = EndOfMonth => EomTasksOf(st, d, disk')
    BY <1>2, <1>4 DEF EomTasksOf
  <1>10. f = Experiment /\ st[Task("once")] = "complete" => disk'.setup
    BY <1>1, <1>4, TaskSets DEF Holds
  <1>11. Holds(f, st, events[f], disk')
    BY <1>5, <1>6, <1>7, <1>8, <1>9, <1>10 DEF Holds
  <1>12. DiskInv'
    <2>1. Wanted' = Wanted
      BY <1>0 DEF Wanted
    <2> QED
      BY <1>3, <1>4, <2>1 DEF DiskInv, MonthComplete
  <1> QED
    BY <1>0, <1>1, <1>4, <1>11, <1>12, SetTasksKeeps

LEMMA AbortKeeps ==
    ASSUME SuiteInv, NEW f \in Families, NEW t \in Tasks(f), Abort(f, t)
    PROVE  SuiteInv'
  <1> DEFINE st == [state[f] EXCEPT ![t] = "aborted"]
             d  == ymd[f]
  <1>0. state[f][t] = "active" /\ SetTasks(f, st) /\ suite' = suite /\ disk' = disk
    BY DEF Abort, SetTask
  <1>1. /\ f \notin over /\ Holds(f, state[f], events[f], disk) /\ st \in [Tasks(f) -> Status]
        /\ st[t] = "aborted" /\ \A u \in Tasks(f) : u # t => st[u] = state[f][u]
        /\ Begun(state[f])
    BY <1>0, StillRuns DEF Status
  <1> HIDE DEF st
  <1>2. f # Experiment => EventsOf(st, d, events[f])
    BY <1>1, Testdays DEF Holds, EventsOf
  <1>3. ASSUME f = Init0 PROVE InitTasks(st, d, disk)
    <2>1. InitTasks(state[f], d, disk)
      BY <1>1, <1>3 DEF Holds
    <2>2. \A name \in {"init_cp_binary", "get_data", "init_data"} : Task(name) \in Tasks(f)
      BY <1>3, TaskSets
    <2> QED
      BY <1>0, <1>1, <2>1, <2>2 DEF InitTasks
  <1>4. ASSUME f \in ForecastAll PROVE FcTasks(st, d, disk)
    <2>1. FcTasks(state[f], d, disk) /\ Task("model") \in Tasks(f)
      BY <1>1, <1>4, TaskSets DEF Holds
    <2> QED
      BY <1>0, <1>1, <2>1 DEF FcTasks
  <1>5. ASSUME f \in AllPosts PROVE PostTasks(st, d, disk)
    <2>1. PostTasks(state[f], d, disk) /\ Task("post_prepare") \in Tasks(f)
      BY <1>1, <1>5, TaskSets DEF Holds
    <2> QED
      BY <1>1, <2>1 DEF PostTasks
  <1>6. f = EndOfMonth => EomTasksOf(st, d, disk)
    BY <1>1 DEF EomTasksOf, Holds
  <1>7. f = Experiment /\ st[Task("once")] = "complete" => disk.setup
    BY <1>1, TaskSets DEF Holds
  <1>8. Holds(f, st, events[f], disk')
    BY <1>0, <1>2, <1>3, <1>4, <1>5, <1>6, <1>7 DEF Holds
  <1>9. disk' \in DiskType /\ Grows /\ DiskInv'
    <2>1. disk \in DiskType /\ DiskInv
      BY DEF SuiteInv, TypeInv
    <2>2. Wanted' = Wanted
      BY <1>0 DEF Wanted
    <2> QED
      BY <1>0, <2>1, <2>2 DEF Grows, DiskInv, MonthComplete
  <1> QED
    BY <1>0, <1>1, <1>8, <1>9, SetTasksKeeps

(* What a task writes is what its family and the others count on.          *)
LEMMA WrittenKeeps ==
    ASSUME SuiteInv, NEW f \in Families, NEW t \in Tasks(f), state[f][t] = "active",
           suite' = suite, disk' = Written(f, t)
    PROVE  /\ disk' \in DiskType /\ Grows /\ DiskInv'
           /\ t = Task("once") => disk'.setup
           /\ t = Task("init_cp_binary") => disk'.binary
           /\ t = Task("get_data") =>
                 ymd[f] \in IF Month(ymd[f]) \in suite.ifs THEN disk'.analysis ELSE disk'.input
           /\ t = Task("init_data") /\ Month(ymd[f]) \in suite.ifs
              /\ ymd[f] \in disk.analysis => ymd[f] \in disk'.input
           /\ t = Task("model") => ymd[f] \in disk'.output
           /\ t = Task("post_prepare") => ymd[f] \in disk'.posted
  <1> DEFINE d == ymd[f]
  <1>0. /\ disk \in DiskType /\ d \in Int /\ suite \in Suites /\ DiskInv
        /\ Holds(f, state[f], events[f], disk) /\ Begun(state[f])
        /\ \A name : Task(name)[1] = name
    BY StillRuns, TaskNames DEF SuiteInv, TypeInv, Status
  <1>1. Wanted' = Wanted /\ DiskType' = DiskType
    BY DEF Wanted, DiskType, Par
  <1>2. CASE t[1] = "once"
    <2>1. disk' = [disk EXCEPT !.setup = TRUE]
      BY <1>2 DEF Written
    <2>2. disk' \in DiskType /\ Grows
      BY <1>0, <2>1 DEF DiskType, Grows
    <2>3. DiskInv'
      BY <1>0, <1>1, <2>1 DEF DiskType, DiskInv, MonthComplete
    <2> QED
      BY <1>0, <1>2, <2>1, <2>2, <2>3 DEF DiskType
  <1>3. CASE t[1] = "init_cp_binary"
    <2>1. disk' = [disk EXCEPT !.binary = TRUE]
      BY <1>3 DEF Written
    <2>2. disk' \in DiskType /\ Grows
      BY <1>0, <2>1 DEF DiskType, Grows
    <2>3. DiskInv'
      BY <1>0, <1>1, <2>1 DEF DiskType, DiskInv, MonthComplete
    <2> QED
      BY <1>0, <1>3, <2>1, <2>2, <2>3 DEF DiskType
  <1>4. CASE t[1] = "get_data"
    <2>1. disk' = IF Month(d) \notin suite.ifs
                  THEN [disk EXCEPT !.input = @ \union {d}]
                  ELSE [disk EXCEPT !.analysis = @ \union {d}]
      BY <1>4 DEF Written
    <2>2. disk' \in DiskType /\ Grows
      BY <1>0, <2>1 DEF DiskType, Grows
    <2>3. DiskInv'
      BY <1>0, <1>1, <2>1 DEF DiskType, DiskInv, MonthComplete
    <2> QED
      BY <1>0, <1>4, <2>1, <2>2, <2>3 DEF DiskType
  <1>5. CASE t[1] = "init_data"
    <2>1. disk' = IF Month(d) \notin suite.ifs THEN disk
                  ELSE [disk EXCEPT !.input = @ \union ({d} \intersect disk.analysis)]
      BY <1>5 DEF Written
    <2>2. disk' \in DiskType /\ Grows
      BY <1>0, <2>1 DEF DiskType, Grows
    <2>3. DiskInv'
      BY <1>0, <1>1, <2>1 DEF DiskType, DiskInv, MonthComplete
    <2> QED
      BY <1>0, <1>5, <2>1, <2>2, <2>3 DEF DiskType
  <1>6. CASE t[1] = "model"
    <2>1. disk' = [disk EXCEPT !.output = @ \union {d}]
      BY <1>6 DEF Written
    <2>2. disk' \in DiskType /\ Grows
      BY <1>0, <2>1 DEF DiskType, Grows
    <2>3. f \in ForecastAll /\ t = Task("model")
      <3>1. /\ \A u \in Tasks(Experiment) \union Tasks(Init0) \union Tasks(EndOfMonth) :
                  u[1] # "model"
            /\ \A p \in AllPosts : \A u \in Tasks(p) : u[1] # "model"
            /\ \A p \in ForecastAll : \A u \in Tasks(p) : u[1] = "model" => u = Task("model")
        BY TaskSets, TaskNames
      <3> QED
        BY <1>0, <1>6, <3>1, Kinds, SuiteFacts
    <2>4. d \in Wanted
      <3>1. Asked(d)
        BY <1>0, <2>3 DEF Holds, FcTasks
      <3>2. PICK i \in Par : f = Fc(i)
        BY <2>3, Kinds
      <3>3. PICK k \in Nat : d = Nth(i, k)
        BY <3>2 DEF SuiteInv, DateInv
      <3>4. d <= suite.last
        BY <3>2 DEF SuiteInv, DateInv
      <3> QED
        BY <1>0, <3>1, <3>3, <3>4, NthType, SuiteFacts DEF Wanted, Asked
    <2>5. DiskInv'
      BY <1>0, <1>1, <2>1, <2>4 DEF DiskType, DiskInv, MonthComplete
    <2> QED
      BY <1>0, <1>6, <2>1, <2>2, <2>5 DEF DiskType
  <1>7. CASE t[1] = "post_prepare"
    <2>1. disk' = [disk EXCEPT !.posted = @ \union {d}]
      BY <1>7 DEF Written
    <2>2. disk' \in DiskType /\ Grows
      BY <1>0, <2>1 DEF DiskType, Grows
    <2>3. DiskInv'
      <3>1. disk'.output = disk.output /\ disk'.means = disk.means
            /\ disk.posted \subseteq disk'.posted
        BY <1>0, <2>1 DEF DiskType
      <3> QED
        BY <1>0, <1>1, <3>1 DEF DiskInv, MonthComplete
    <2> QED
      BY <1>0, <1>7, <2>1, <2>2, <2>3 DEF DiskType
  <1>8. CASE t[1] = "eom_prepare_2"
    <2>1. disk' = [disk EXCEPT !.means = @ \union {<<d, MonthUpTo(d)>>}]
      BY <1>8 DEF Written
    <2>2. disk.output \subseteq Int /\ MonthUpTo(d) \subseteq disk.output
      BY <1>0 DEF MonthUpTo, DiskType
    <2>3. disk' \in DiskType /\ Grows
      BY <1>0, <2>1, <2>2 DEF DiskType, Grows
    <2>4. f = EndOfMonth
      <3>1. /\ \A u \in Tasks(Experiment) \union Tasks(Init0) : u[1] # "eom_prepare_2"
            /\ \A p \in AllPosts \union ForecastAll : \A u \in Tasks(p) : u[1] # "eom_prepare_2"
        BY TaskSets, TaskNames
      <3> QED
        BY <1>0, <1>8, <3>1, Kinds, SuiteFacts
    <2>5. \A e \in Wanted : e <= d => e \in disk.output /\ e \in disk.posted
      BY <1>0, <2>4 DEF Holds, EomTasksOf
    <2>6. /\ MonthUpTo(d) = {e \in Wanted : FirstOfMonth(d) <= e /\ e <= d}
          /\ MonthUpTo(d) \subseteq disk.posted
      BY <1>0, <2>5 DEF MonthUpTo, DiskInv
    <2>7. /\ disk'.output = disk.output /\ disk'.posted = disk.posted
          /\ disk'.means = disk.means \union {<<d, MonthUpTo(d)>>}
      BY <1>0, <2>1 DEF DiskType
    <2>8. MonthComplete'
      <3>1. ASSUME NEW m \in disk'.means
            PROVE  /\ m[2] = {e \in Wanted : FirstOfMonth(m[1]) <= e /\ e <= m[1]}
                   /\ m[2] \subseteq disk.posted
        <4>1. CASE m = <<d, MonthUpTo(d)>>
          BY <4>1, <2>6
        <4>2. CASE m \in disk.means
          BY <1>0, <4>2 DEF DiskInv, MonthComplete
        <4> QED
          BY <2>7, <4>1, <4>2
      <3>2. \A x : FirstOfMonth(x)' = FirstOfMonth(x)
        BY DEF FirstOfMonth
      <3> QED
        BY <1>1, <2>7, <3>1 DEF MonthComplete
    <2> QED
      BY <1>0, <1>1, <1>8, <2>3, <2>7, <2>8 DEF DiskInv
  <1>9. CASE t[1] \notin {"once", "init_cp_binary", "get_data", "init_data", "model",
                          "post_prepare", "eom_prepare_2"}
    <2>1. disk' = disk
      BY <1>9 DEF Written
    <2>2. DiskInv' /\ Grows
      BY <1>0, <1>1, <2>1 DEF DiskInv, MonthComplete, Grows
    <2> QED
      BY <1>0, <1>9, <2>1, <2>2
  <1> QED
    BY <1>2, <1>3, <1>4, <1>5, <1>6, <1>7, <1>8, <1>9

LEMMA FinishKeeps ==
    ASSUME SuiteInv, NEW f \in Families, NEW t \in Tasks(f), Finish(f, t)
    PROVE  SuiteInv'
  <1> DEFINE st == [state[f] EXCEPT ![t] = "complete"]
             d  == ymd[f]
  <1>0. /\ state[f][t] = "active" /\ SetTasks(f, st) /\ suite' = suite
        /\ disk' = Written(f, t) /\ MayComplete(f, t)
    BY DEF Finish, SetTask
  <1>1. /\ f \notin over /\ Holds(f, state[f], events[f], disk) /\ st \in [Tasks(f) -> Status]
        /\ st[t] = "complete" /\ \A u \in Tasks(f) : u # t => st[u] = state[f][u]
        /\ Begun(state[f])
    BY <1>0, StillRuns DEF Status
  <1>2. /\ disk' \in DiskType /\ Grows /\ DiskInv'
        /\ t = Task("once") => disk'.setup
        /\ t = Task("init_cp_binary") => disk'.binary
        /\ t = Task("get_data") =>
              d \in IF Month(d) \in suite.ifs THEN disk'.analysis ELSE disk'.input
        /\ t = Task("init_data") /\ Month(d) \in suite.ifs /\ d \in disk.analysis =>
              d \in disk'.input
        /\ t = Task("model") => d \in disk'.output
        /\ t = Task("post_prepare") => d \in disk'.posted
    BY <1>0, WrittenKeeps
  <1>3. Holds(f, state[f], events[f], disk')
    BY <1>1, <1>2, HoldsGrows
  <1> HIDE DEF st
  <1>4. f # Experiment => EventsOf(st, d, events[f])
    <2>1. t = Task("testday") => TestdayEvents(d) \subseteq events[f]
      BY <1>0, TaskNames DEF MayComplete
    <2> QED
      BY <1>1, <2>1, Testdays DEF Holds, EventsOf
  <1>5. ASSUME f = Init0 PROVE InitTasks(st, d, disk')
    <2>1. InitTasks(state[f], d, disk') /\ InitTasks(state[f], d, disk)
      BY <1>1, <1>3, <1>5 DEF Holds
    <2>2. \A name \in {"init_cp_binary", "get_data", "init_data"} : Task(name) \in Tasks(f)
      BY <1>5, TaskSets
    <2>3. /\ Task("init_cp_binary") # Task("get_data") /\ Task("init_data") # Task("get_data")
          /\ Task("init_cp_binary") # Task("init_data")
      BY TaskNames
    <2>4. t = Task("init_data") /\ Asked(d) /\ Month(d) \in suite.ifs => d \in disk.analysis
      BY <1>0, <2>1 DEF InitTasks
    <2> QED
      BY <1>1, <1>2, <2>1, <2>2, <2>3, <2>4 DEF InitTasks
  <1>6. ASSUME f \in ForecastAll PROVE FcTasks(st, d, disk')
    <2>1. FcTasks(state[f], d, disk') /\ Task("model") \in Tasks(f)
      BY <1>3, <1>6, TaskSets DEF Holds
    <2> QED
      BY <1>1, <1>2, <2>1 DEF FcTasks
  <1>7. ASSUME f \in AllPosts PROVE PostTasks(st, d, disk')
    <2>1. PostTasks(state[f], d, disk') /\ Task("post_prepare") \in Tasks(f)
      BY <1>3, <1>7, TaskSets DEF Holds
    <2> QED
      BY <1>1, <1>2, <2>1 DEF PostTasks
  <1>8. f = EndOfMonth => EomTasksOf(st, d, disk')
    BY <1>1, <1>3 DEF EomTasksOf, Holds
  <1>9. f = Experiment => disk'.setup
    BY <1>2, TaskSets
  <1>10. Holds(f, st, events[f], disk')
    BY <1>4, <1>5, <1>6, <1>7, <1>8, <1>9 DEF Holds
  <1> QED
    BY <1>0, <1>1, <1>2, <1>10, SetTasksKeeps

(* A step that changes no date: it is enough that what holds of each       *)
(* family goes on to hold of it.                                           *)
LEMMA SameDates ==
    ASSUME SuiteInv, UNCHANGED <<suite, ymd, over>>, TypeInv', Grows,
           disk'.output = disk.output, disk'.means = disk.means,
           \A g \in Families : Holds(g, state'[g], events'[g], disk'),
           \A g \in over : state'[g] = state[g]
    PROVE  SuiteInv'
  <1>1. TypeInv /\ DateInv /\ TaskInv /\ PastInv /\ DiskInv
    BY DEF SuiteInv
  <1>2. Par' = Par /\ Wanted' = Wanted /\ (\A i, k : Nth(i, k)' = Nth(i, k))
        /\ Families' = Families /\ \A g : Tasks(g)' = Tasks(g)
    BY DEF Par, Wanted, Nth, Families, ForecastAll, AllPosts, Tasks, EomTasks, PrepAll,
           Prep2All, MetAll
  <1>3. DateInv'
    BY <1>1, <1>2 DEF DateInv
  <1>4. TaskInv'
    <2>1. ASSUME NEW g \in Families PROVE Holds(g, state[g], events[g], disk)'
      BY HoldsNext DEF Past
    <2>2. \A g \in over : \A t \in Tasks(g) : state'[g][t] = "complete"
      BY <1>1 DEF TaskInv
    <2> QED
      BY <1>2, <2>1, <2>2 DEF TaskInv
  <1>5. PastInv'
    <2>1. \A g, e : Past(g, e)' <=> Past(g, e)
      BY DEF Past
    <2> QED
      BY <1>1, <1>2, <2>1 DEF PastInv, Grows
  <1>6. DiskInv'
    BY <1>1, <1>2 DEF DiskInv, MonthComplete, Grows
  <1> QED
    BY <1>3, <1>4, <1>5, <1>6 DEF SuiteInv

LEMMA SameShape ==
    ASSUME suite' = suite
    PROVE  Families' = Families /\ Par' = Par /\ DiskType' = DiskType
           /\ \A g : Tasks(g)' = Tasks(g)
  BY DEF Par, Families, ForecastAll, AllPosts, Tasks, EomTasks, PrepAll, Prep2All, MetAll, DiskType

LEMMA SetEventKeeps ==
    ASSUME SuiteInv, NEW f \in Families, SetEvent(f)
    PROVE  SuiteInv'
  <1>0. PICK e \in TestdayEvents(ymd[f]) \ events[f] :
            events' = [events EXCEPT ![f] = @ \union {e}]
    BY DEF SetEvent
  <1>1. /\ UNCHANGED <<suite, state, ymd, over, disk>>
        /\ state[f][Task("testday")] = "active"
    BY DEF SetEvent
  <1>2. TypeInv /\ TaskInv /\ events \in [Families -> SUBSET Events]
    BY DEF SuiteInv, TypeInv
  <1>3. TestdayEvents(ymd[f]) \subseteq Events \ {"rerun"}
    BY EventFacts
  <1>4. TypeInv'
    <2>1. events' \in [Families -> SUBSET Events]
      BY <1>0, <1>2, <1>3
    <2> QED
      BY <1>1, <1>2, <2>1, SameShape DEF TypeInv
  <1>5. ASSUME NEW g \in Families PROVE Holds(g, state'[g], events'[g], disk')
    <2>1. Holds(g, state[g], events[g], disk)
      BY <1>2 DEF TaskInv
    <2>2. events'[g] = IF g = f THEN events[g] \union {e} ELSE events[g]
      BY <1>0, <1>2
    <2>3. g # Experiment => EventsOf(state[g], ymd[g], events'[g])
      BY <1>0, <1>1, <2>1, <2>2 DEF Holds, EventsOf
    <2> QED
      BY <1>1, <2>1, <2>3 DEF Holds
  <1>6. Grows /\ \A g \in over : state'[g] = state[g]
    BY <1>1 DEF Grows
  <1> QED
    BY <1>1, <1>4, <1>5, <1>6, SameDates

(* The log and the flag that an operator leaves concern no one's inputs.   *)
LEMMA LogKeeps ==
    ASSUME SuiteInv, UNCHANGED <<suite, state, ymd, over, events>>, disk' \in DiskType,
           \A part \in {"setup", "binary", "analysis", "input", "output", "posted", "means"} :
               disk'[part] = disk[part]
    PROVE  SuiteInv'
  <1>0. /\ disk'.setup = disk.setup /\ disk'.binary = disk.binary
        /\ disk'.analysis = disk.analysis /\ disk'.input = disk.input
        /\ disk'.output = disk.output /\ disk'.posted = disk.posted
        /\ disk'.means = disk.means
    OBVIOUS
  <1>1. TypeInv /\ TaskInv
    BY DEF SuiteInv
  <1>2. TypeInv'
    BY <1>1, SameShape DEF TypeInv
  <1>3. Grows
    BY <1>0 DEF Grows
  <1>4. \A g \in Families : Holds(g, state'[g], events'[g], disk')
    BY <1>1, <1>3, HoldsGrows DEF TaskInv
  <1> QED
    BY <1>0, <1>2, <1>3, <1>4, SameDates

LEMMA LastStepKeeps ==
    ASSUME SuiteInv, NEW i \in Par, LastStep(i)
    PROVE  SuiteInv'
  <1>1. disk \in DiskType
    BY DEF SuiteInv, TypeInv
  <1>2. disk' = [disk EXCEPT !.logged[i] = TRUE] /\ UNCHANGED <<suite, state, ymd, over, events>>
    BY DEF LastStep
  <1>3. /\ disk' \in DiskType
        /\ \A part \in {"setup", "binary", "analysis", "input", "output", "posted", "means"} :
               disk'[part] = disk[part]
    BY <1>1, <1>2 DEF DiskType
  <1> QED
    BY <1>2, <1>3, LogKeeps

LEMMA TouchFlagKeeps ==
    ASSUME SuiteInv, TouchFlag
    PROVE  SuiteInv'
  <1>1. disk \in DiskType
    BY DEF SuiteInv, TypeInv
  <1>2. disk' = [disk EXCEPT !.flag = TRUE] /\ UNCHANGED <<suite, state, ymd, over, events>>
    BY DEF TouchFlag
  <1>3. /\ disk' \in DiskType
        /\ \A part \in {"setup", "binary", "analysis", "input", "output", "posted", "means"} :
               disk'[part] = disk[part]
    BY <1>1, <1>2 DEF DiskType
  <1> QED
    BY <1>2, <1>3, LogKeeps

LEMMA RequeueKeeps ==
    ASSUME SuiteInv, NEW f \in Families, NEW t \in Tasks(f), Requeue(f, t)
    PROVE  SuiteInv'
  <1> DEFINE st == [state[f] EXCEPT ![t] = "queued"]
             ev == CASE t[1] = "testday" -> events[f] \intersect {"rerun"}
                     [] t[1] = "model"   -> events[f] \ {"rerun"}
                     [] OTHER            -> events[f]
  <1>1. /\ UNCHANGED <<suite, ymd, over, disk>> /\ state[f][t] = "aborted"
        /\ state' = [state EXCEPT ![f] = st] /\ events' = [events EXCEPT ![f] = ev]
    BY DEF Requeue
  <1>2. /\ f \notin over /\ Holds(f, state[f], events[f], disk) /\ st \in [Tasks(f) -> Status]
        /\ st[t] = "queued" /\ \A u \in Tasks(f) : u # t => st[u] = state[f][u]
        /\ Begun(state[f])
    BY <1>1, StillRuns DEF Status
  <1>3. TypeInv /\ TaskInv /\ events \in [Families -> SUBSET Events]
    BY DEF SuiteInv, TypeInv
  <1>4. /\ ev \subseteq events[f]
        /\ events[f] \ {"rerun"} \subseteq ev \/ t[1] = "testday"
        /\ t[1] = "testday" => ev \subseteq {"rerun"}
    OBVIOUS
  <1> HIDE DEF st, ev
  <1>5. TypeInv'
    <2>1. events' \in [Families -> SUBSET Events]
      BY <1>1, <1>3, <1>4
    <2>2. DOMAIN state' = Families /\ \A g \in Families : state'[g] \in [Tasks(g) -> Status]
      BY <1>1, <1>2, <1>3 DEF TypeInv
    <2> QED
      BY <1>1, <1>3, <2>1, <2>2, SameShape DEF TypeInv
  <1>6. Holds(f, st, ev, disk)
    <2>1. f # Experiment => EventsOf(st, ymd[f], ev)
      <3>1. SUFFICES ASSUME f # Experiment PROVE EventsOf(st, ymd[f], ev)
        OBVIOUS
      <3>2. EventsOf(state[f], ymd[f], events[f]) /\ Task("testday") \in Tasks(f)
        BY <1>2, <3>1, Testdays DEF Holds
      <3>3. CASE t = Task("testday")
        BY <1>2, <1>4, <3>2, <3>3, TaskNames DEF EventsOf
      <3>4. CASE t # Task("testday")
        <4>1. st[Task("testday")] = "complete" => state[f][Task("testday")] = "complete"
          BY <1>2, <3>2, <3>4
        <4>2. t[1] # "testday"
          BY <3>1, <3>4, Kinds, SuiteFacts, TaskSets, TaskNames, <1>3 DEF TypeInv
        <4>3. events[f] \ {"rerun"} \subseteq ev /\ ev \subseteq events[f]
          BY <1>4, <4>2
        <4>4. TestdayEvents(ymd[f]) \subseteq Events \ {"rerun"}
          BY EventFacts
        <4> QED
          BY <3>2, <4>1, <4>3, <4>4 DEF EventsOf
      <3> QED
        BY <3>3, <3>4
    <2>2. ASSUME f = Init0 PROVE InitTasks(st, ymd[f], disk)
      <3>1. InitTasks(state[f], ymd[f], disk)
        BY <1>2, <2>2 DEF Holds
      <3>2. \A name \in {"init_cp_binary", "get_data", "init_data"} : Task(name) \in Tasks(f)
        BY <2>2, TaskSets
      <3> QED
        BY <1>1, <1>2, <3>1, <3>2 DEF InitTasks
    <2>3. ASSUME f \in ForecastAll PROVE FcTasks(st, ymd[f], disk)
      <3>1. FcTasks(state[f], ymd[f], disk) /\ Task("model") \in Tasks(f)
        BY <1>2, <2>3, TaskSets DEF Holds
      <3> QED
        BY <1>2, <3>1 DEF FcTasks
    <2>4. ASSUME f \in AllPosts PROVE PostTasks(st, ymd[f], disk)
      <3>1. PostTasks(state[f], ymd[f], disk) /\ Task("post_prepare") \in Tasks(f)
        BY <1>2, <2>4, TaskSets DEF Holds
      <3> QED
        BY <1>2, <3>1 DEF PostTasks
    <2>5. f = EndOfMonth => EomTasksOf(st, ymd[f], disk)
      BY <1>2 DEF EomTasksOf, Holds
    <2>6. f = Experiment /\ st[Task("once")] = "complete" => disk.setup
      BY <1>2, TaskSets DEF Holds
    <2> QED
      BY <2>1, <2>2, <2>3, <2>4, <2>5, <2>6 DEF Holds
  <1>7. \A g \in Families : Holds(g, state'[g], events'[g], disk')
    BY <1>1, <1>3, <1>6 DEF TaskInv, TypeInv
  <1>8. Grows /\ \A g \in over : state'[g] = state[g]
    BY <1>1, <1>2, <1>3 DEF Grows, TypeInv
  <1> QED
    BY <1>1, <1>5, <1>7, <1>8, SameDates

LEMMA RerunKeeps ==
    ASSUME SuiteInv, NEW f \in Families, Rerun(f)
    PROVE  SuiteInv'
  <1> DEFINE t  == Task("model")
             st == [state[f] EXCEPT ![t] = "active"]
             ev == events[f] \union {"rerun"}
  <1>1. /\ UNCHANGED <<suite, ymd, over, disk>> /\ state[f][t] = "aborted" /\ f \in ForecastAll
        /\ state' = [state EXCEPT ![f] = st] /\ events' = [events EXCEPT ![f] = ev]
    BY DEF Rerun
  <1>2. t \in Tasks(f)
    BY <1>1, TaskSets
  <1>3. /\ f \notin over /\ Holds(f, state[f], events[f], disk) /\ st \in [Tasks(f) -> Status]
        /\ st[t] = "active" /\ \A u \in Tasks(f) : u # t => st[u] = state[f][u]
    BY <1>1, <1>2, StillRuns DEF Status
  <1>4. TypeInv /\ TaskInv /\ events \in [Families -> SUBSET Events] /\ "rerun" \in Events
    BY DEF SuiteInv, TypeInv, Events
  <1>5. Task("testday") \in Tasks(f) /\ Task("testday") # t
    BY <1>1, TaskSets, TaskNames
  <1> HIDE DEF t, st
  <1>6. TypeInv'
    <2>1. events' \in [Families -> SUBSET Events]
      BY <1>1, <1>4
    <2>2. DOMAIN state' = Families /\ \A g \in Families : state'[g] \in [Tasks(g) -> Status]
      BY <1>1, <1>3, <1>4 DEF TypeInv
    <2> QED
      BY <1>1, <1>4, <2>1, <2>2, SameShape DEF TypeInv
  <1>7. Holds(f, st, ev, disk)
    <2>1. EventsOf(st, ymd[f], ev)
      BY <1>1, <1>3, <1>5, KindsDiffer DEF Holds, EventsOf
    <2>2. FcTasks(st, ymd[f], disk)
      BY <1>1, <1>3 DEF Holds, FcTasks, t
    <2> QED
      BY <1>1, <2>1, <2>2, KindsDiffer DEF Holds
  <1>8. \A g \in Families : Holds(g, state'[g], events'[g], disk')
    BY <1>1, <1>4, <1>7 DEF TaskInv, TypeInv
  <1>9. Grows /\ \A g \in over : state'[g] = state[g]
    BY <1>1, <1>3, <1>4 DEF Grows, TypeInv
  <1> QED
    BY <1>1, <1>6, <1>8, <1>9, SameDates

-----------------------------------------------------------------------------
LEMMA InitSuite == Init => SuiteInv
  <1> SUFFICES ASSUME Init PROVE SuiteInv
    OBVIOUS
  <1>1. /\ suite \in Suites /\ ymd = FirstDate /\ over = {}
        /\ state = [f \in Families |-> [t \in Tasks(f) |-> "queued"]]
        /\ events = [f \in Families |-> {}]
        /\ disk = [setup |-> FALSE, binary |-> FALSE, flag |-> FALSE,
                   analysis |-> {}, input |-> {}, output |-> {}, posted |-> {},
                   means |-> {}, logged |-> [i \in Par |-> FALSE]]
    BY DEF Init
  <1>2. /\ ymd[Init0] = suite.first
        /\ \A i \in Par : ymd[Fc(i)] = suite.first + i - 1 /\ ymd[Post(i)] = suite.first + i - 1
    BY <1>1, Kinds, KindsDiffer, SuiteFacts DEF FirstDate
  <1>3. ymd \in [Families -> Int]
    <2>1. Min(suite.eom) \in Int
      BY <1>1, SuiteFacts, MinLeast
    <2>2. \A f \in Families : FirstDate[f] \in Int
      <3> SUFFICES ASSUME NEW f \in Families PROVE FirstDate[f] \in Int
        OBVIOUS
      <3>1. CASE f = Experiment \/ f = Init0
        BY <1>1, <3>1, SuiteFacts, KindsDiffer DEF FirstDate
      <3>2. CASE f = EndOfMonth
        BY <2>1, <3>2, KindsDiffer DEF FirstDate
      <3>3. CASE \E i \in Par : f = Fc(i) \/ f = Post(i)
        BY <1>1, <1>2, <3>3, SuiteFacts
      <3> QED
        BY <3>1, <3>2, <3>3, Kinds
    <2> QED
      BY <1>1, <2>2 DEF FirstDate
  <1>4. TypeInv
    BY <1>1, <1>3 DEF TypeInv, DiskType, Status
  <1>5. DateInv
    <2>1. ASSUME NEW i \in Par, NEW f \in {Fc(i), Post(i)}
          PROVE  /\ \E k \in Nat : ymd[f] = Nth(i, k)
                 /\ ymd[f] <= suite.last
      <3>1. ymd[f] = Nth(i, 0)
        BY <1>1, <1>2, NthType
      <3>2. ymd[f] <= suite.last
        BY <1>1, <1>2, SuiteFacts DEF Par
      <3> QED
        BY <3>1, <3>2
    <2>2. suite.first <= suite.last
      BY <1>1, SuiteFacts
    <2> QED
      BY <1>1, <1>2, <2>1, <2>2, SuiteFacts DEF DateInv
  <1>6. TaskInv
    <2> SUFFICES ASSUME NEW f \in Families PROVE Holds(f, state[f], events[f], disk)
      BY <1>1 DEF TaskInv
    <2> DEFINE st == [t \in Tasks(f) |-> "queued"]
    <2>1. state[f] = st /\ events[f] = {} /\ ~Begun(st)
      BY <1>1 DEF Begun
    <2>2. /\ f # Experiment => st[Task("testday")] = "queued"
          /\ f = Experiment => st[Task("once")] = "queued"
          /\ f = Init0 => \A name \in {"init_cp_binary", "get_data", "init_data"} :
                             st[Task(name)] = "queued"
          /\ f \in ForecastAll => st[Task("model")] = "queued"
          /\ f \in AllPosts => st[Task("post_prepare")] = "queued"
      BY Testdays, TaskSets
    <2> HIDE DEF st
    <2> QED
      BY <2>1, <2>2 DEF Holds, EventsOf, InitTasks, FcTasks, PostTasks, EomTasksOf
  <1>7. PastInv
    <2>1. \A e \in Int : Past(Init0, e) => e < suite.first
      BY <1>1, <1>2 DEF Past
    <2>2. ASSUME NEW i \in Par, NEW k \in Nat
          PROVE  ~Past(Fc(i), Nth(i, k)) /\ ~Past(Post(i), Nth(i, k))
      <3>1. k * suite.npar \in Nat
        BY <1>1, SuiteFacts
      <3>2. Nth(i, 0) <= Nth(i, k)
        BY <1>1, <3>1, NthType, SuiteFacts DEF Nth
      <3> QED
        BY <1>1, <1>2, <3>2, NthType, SuiteFacts DEF Past
    <2> QED
      BY <1>1, <2>1, <2>2, SuiteFacts DEF PastInv
  <1>8. DiskInv
    BY <1>1 DEF DiskInv, MonthComplete
  <1> QED
    BY <1>4, <1>5, <1>6, <1>7, <1>8 DEF SuiteInv

LEMMA StutterSuite == SuiteInv /\ UNCHANGED vars => SuiteInv'
  <1> SUFFICES ASSUME SuiteInv, UNCHANGED vars PROVE SuiteInv'
    OBVIOUS
  <1>1. TypeInv /\ TaskInv /\ UNCHANGED <<suite, state, ymd, over, events, disk>>
    BY DEF SuiteInv, vars
  <1>2. TypeInv'
    BY <1>1, SameShape DEF TypeInv
  <1>3. Grows
    BY <1>1 DEF Grows
  <1> QED
    BY <1>1, <1>2, <1>3, SameDates DEF TaskInv

LEMMA NextSuite == SuiteInv /\ [Next]_vars => SuiteInv'
  <1> SUFFICES ASSUME SuiteInv, [Next]_vars PROVE SuiteInv'
    OBVIOUS
  <1>1. CASE Server
    BY <1>1, CompleteByRuleKeeps, SubmitKeeps DEF Server
  <1>2. CASE Jobs
    BY <1>2, SetEventKeeps, FinishKeeps, LastStepKeeps DEF Jobs
  <1>3. CASE Operator \/ TouchFlag
    BY <1>3, RerunKeeps, RequeueKeeps, TouchFlagKeeps DEF Operator
  <1>4. CASE Failure
    BY <1>4, AbortKeeps DEF Failure
  <1>5. CASE UNCHANGED vars
    BY <1>5, StutterSuite
  <1> QED
    BY <1>1, <1>2, <1>3, <1>4, <1>5 DEF Next

LEMMA SuiteHolds == Spec => []SuiteInv
  BY InitSuite, NextSuite, PTL DEF Spec

(* A forecast runs only when the initial data of its date, the set-up and  *)
(* the binary are there, however the families of icon_multi.py and         *)
(* icon_fc.py drift apart and whichever of their tasks fail.               *)
THEOREM ForecastsHaveInputs == Spec => []InputsReady
  <1>1. SuiteInv => InputsReady
    <2> SUFFICES ASSUME SuiteInv, NEW f \in ForecastAll, state[f][Task("model")] = "active"
                 PROVE  disk.setup /\ disk.binary /\ ymd[f] \in disk.input
      BY DEF InputsReady
    <2>1. suite \in Suites /\ DateInv /\ PastInv
      BY DEF SuiteInv, TypeInv
    <2>2. PICK i \in Par : f = Fc(i) /\ f \in Families
      BY Kinds
    <2>3. Past(Init0, ymd[f]) /\ Asked(ymd[f])
      BY <2>2 DEF SuiteInv, TaskInv, Holds, FcTasks
    <2>4. PICK k \in Nat : ymd[f] = Nth(i, k)
      BY <2>1, <2>2 DEF DateInv
    <2>5. ymd[f] \in Wanted /\ suite.first <= ymd[f] /\ ymd[f] \in Int
      BY <2>1, <2>2, <2>3, <2>4, NthType, SuiteFacts DEF DateInv, Wanted, Asked
    <2>6. Past(Init0, suite.first)
      BY <2>1, <2>3, <2>5, SuiteFacts DEF Past, DateInv
    <2> QED
      BY <2>1, <2>3, <2>5, <2>6 DEF PastInv
  <1> QED
    BY <1>1, SuiteHolds, PTL

(* The means that eom_prepare_2 writes cover all forecasts of the month,   *)
(* each of them post-processed, whichever family they belong to.           *)
THEOREM MeansAreWhole == Spec => []MonthComplete
  <1>1. SuiteInv => MonthComplete
    BY DEF SuiteInv, DiskInv
  <1> QED
    BY <1>1, SuiteHolds, PTL
=============================================================================
