------------------------------ MODULE FcSuite ------------------------------
(***************************************************************************)
(* The ecFlow suites of schedulers/ecmwf: daily forecasts by parallel      *)
(* families of tasks, their post-processing, and the means and plots at    *)
(* the end of a month.  Both suites, icon_multi.py and icon_fc.py, define  *)
(* the same families and tasks with the same triggers; they differ in      *)
(* their dates and in the number of families.                              *)
(*                                                                         *)
(* The ecFlow server is external.  It submits a queued task when its       *)
(* trigger and those of the families around it hold, completes a task by   *)
(* its complete expression instead if that holds, and requeues a family    *)
(* with the next date of its repeat once all its tasks are complete.  The  *)
(* families inside a repeated family pass their expressions on to their    *)
(* tasks here.  The date of a family whose repeat is over stays the last.  *)
(*                                                                         *)
(* A date is the number of a day; months have MonthLen days.               *)
(***************************************************************************)
EXTENDS Integers, FiniteSets, FiniteSetsExt

CONSTANTS
    Suites,    \* setups: what the head of a suite file defines
    MonthLen,  \* days of a month
    MaxAborts  \* how often a task fails

VARIABLES
    suite,   \* the setup of this run
    state,   \* per family, the status of its tasks
    ymd,     \* per family, the date of its repeat
    over,    \* the families that are complete, their repeat used up
    events,  \* per family, the events and meter its testday has set, and
             \* "rerun" while its model is in a second try
    disk,    \* what the tasks have written
    aborts

vars == <<suite, state, ymd, over, events, disk, aborts>>

Month(d)           == (d - 1) \div MonthLen + 1
LastDayOfMonth(d)  == (d % MonthLen) = 0
SecondOfMonth(d)   == ((d - 1) % MonthLen) = 1
FirstOfMonth(d)    == d - ((d - 1) % MonthLen)

(*------------------------ families and tasks -----------------------------*)
Experiment == <<"experiment", 0>>
Init0      == <<"init", 0>>
EndOfMonth == <<"endofmonth", 0>>
Fc(i)      == <<"fc", i>>
Post(i)    == <<"post", i>>

Par           == 1 .. suite.npar
ForecastAll   == {Fc(i) : i \in Par}
AllPosts      == {Post(i) : i \in Par}
Families      == {Experiment, Init0, EndOfMonth} \union ForecastAll \union AllPosts

Task(name) == <<name, 0>>
Prep2All   == {<<"eom_prepare_2", i>> : i \in 1 .. suite.nprep}
MetAll     == {<<"eom_metview", i>> : i \in 1 .. suite.nmet}
PrepAll    == {Task("eom_prepare_1"), Task("eom_prepare_3")} \union Prep2All
EomTasks   == PrepAll \union MetAll
              \union {Task("eom_getmars"), Task("eom_archive")}

Tasks(f) ==
    CASE f = Experiment        -> {Task("once")}
      [] f = Init0             -> {Task("testday"), Task("setup"), Task("get_data"),
                                   Task("init_cp_binary"), Task("init_data")}
      [] f \in ForecastAll     -> {Task("testday"), Task("model"), Task("check_progress")}
      [] f \in AllPosts        -> {Task("testday"), Task("post_prepare")}
      [] f = EndOfMonth        -> {Task("testday")} \union EomTasks

Complete(f, tasks) == \A t \in tasks : state[f][t] = "complete"
Done(f, name)      == Complete(f, {Task(name)})

(*------------------------ repeats ----------------------------------------*)
(* RepeatDate and RepeatDateList                                           *)
FirstDate ==
    [f \in Families |->
        CASE f \in ForecastAll \union AllPosts -> suite.first + f[2] - 1
          [] f = EndOfMonth                    -> Min(suite.eom)
          [] OTHER                             -> suite.first]

LaterDates(f) ==
    CASE f = Init0 -> {ymd[f] + 1} \intersect 1 .. suite.last
      [] f \in ForecastAll \union AllPosts ->
            {ymd[f] + suite.npar} \intersect 1 .. suite.last
      [] f = EndOfMonth -> {d \in suite.eom : d > ymd[f]}
      [] f = Experiment -> {}

(* The tasks of family f become st.  When all are complete the server sets *)
(* the next date and requeues the family, which clears its events.         *)
SetTasks(f, st) ==
    LET through == \A t \in Tasks(f) : st[t] = "complete"
        next    == LaterDates(f)
    IN  IF through /\ next # {}
        THEN /\ state' = [state EXCEPT ![f] = [t \in Tasks(f) |-> "queued"]]
             /\ ymd' = [ymd EXCEPT ![f] = Min(next)]
             /\ events' = [events EXCEPT ![f] = {}]
             /\ over' = over
        ELSE /\ state' = [state EXCEPT ![f] = st]
             /\ over' = IF through THEN over \union {f} ELSE over
             /\ UNCHANGED <<ymd, events>>

SetTask(f, t, status) == SetTasks(f, [state[f] EXCEPT ![t] = status])

(*------------------------ triggers ---------------------------------------*)
(* Mutant: the end of a month waits for the first post family only.        *)
FirstPostPast == ymd[Post(1)] > ymd[EndOfMonth]

(* trigger_eom                                                             *)
AllPostsPast == \A n \in Par : ymd[Post(n)] > ymd[EndOfMonth]

(* Mutant: a forecast may start on the day that init still prepares.       *)
HeldEarly(f) ==
    /\ f = Init0 => Done(Experiment, "once")
    /\ f \in ForecastAll => ymd[Init0] >= ymd[f] \/ Init0 \in over
    /\ f \in AllPosts => ymd[Fc(f[2])] > ymd[f] \/ ForecastAll \subseteq over
    /\ f = EndOfMonth => AllPostsPast \/ AllPosts \subseteq over

(* Mutant: a post family does not know that the forecasts are over.        *)
HeldForever(f) ==
    /\ f = Init0 => Done(Experiment, "once")
    /\ f \in ForecastAll => ymd[Init0] > ymd[f] \/ Init0 \in over
    /\ f \in AllPosts => ymd[Fc(f[2])] > ymd[f]
    /\ f = EndOfMonth => AllPostsPast \/ AllPosts \subseteq over

(* The trigger of a repeated family.                                       *)
FamilyTrigger(f) ==
    /\ f = Init0 => Done(Experiment, "once")
    /\ f \in ForecastAll => ymd[Init0] > ymd[f] \/ Init0 \in over
    /\ f \in AllPosts => ymd[Fc(f[2])] > ymd[f] \/ ForecastAll \subseteq over
    /\ f = EndOfMonth => AllPostsPast \/ AllPosts \subseteq over

(* The trigger of a task, with those of the families build,                *)
(* eom_prepare_all, eom_prepare_2_all and eom_metview_all around it.       *)
Trigger(f, t) ==
    /\ t[1] = "setup" => "time_domonth" \in events[f]
    /\ t[1] \in {"init_cp_binary", "get_data"} => Done(f, "setup")
    /\ t[1] = "init_data" => Done(f, "get_data") /\ Done(f, "init_cp_binary")
    /\ t[1] \in {"model", "post_prepare", "eom_getmars"} \/ t \in PrepAll
          => Done(f, "testday")
    /\ t[1] = "check_progress" => state[f][Task("model")] = "active"
    /\ t \in Prep2All => Done(f, "eom_prepare_1")
    /\ t[1] = "eom_prepare_3" => Complete(f, Prep2All)
    /\ t \in MetAll => Complete(f, PrepAll) /\ Done(f, "eom_getmars")
    /\ t[1] = "eom_archive" => Complete(f, MetAll)

(* testday==complete and not testday:time_domonth                          *)
NotThisMonth(f) == Done(f, "testday") /\ "time_domonth" \notin events[f]

(* The complete expressions, likewise.  The one of init_cp_binary itself   *)
(* counts only when the trigger of the family build around it holds.       *)
CompleteRule(f, t) ==
    \/ /\ t[1] \notin {"once", "testday"}
       /\ NotThisMonth(f)
    \/ t[1] = "init_cp_binary" /\ Done(f, "setup") /\ ymd[f] > suite.first
    \/ t[1] = "init_data" /\ "time_ifs_icon_2" \in events[f]
    \/ t[1] = "check_progress" /\ Done(f, "model")
    \/ t \in EomTasks /\ Done(f, "testday") /\ "time_eom" \notin events[f]

(*------------------------ what the tasks do ------------------------------*)
(* testday.ecf, with gen/date_calc.py -a endofmonth                        *)
TestdayEvents(d) ==
    {e \in {"time_eom", "time_domonth", "time_ifs_icon_2"} :
        CASE e = "time_eom" ->
                \/ LastDayOfMonth(d)
                \/ SecondOfMonth(d) /\ Month(d) = Min(suite.months)
          [] e = "time_domonth"    -> Month(d) \in suite.months
          [] e = "time_ifs_icon_2" -> Month(d) \in suite.months \ suite.ifs}

(* The dates whose output a task at the end of a month works on.           *)
MonthUpTo(d) == {e \in disk.output : FirstOfMonth(d) <= e /\ e <= d}

FirstTry(f) == "rerun" \notin events[f]

(* What a task has written when it completes.                              *)
Written(f, t) ==
    LET d == ymd[f]
        name == t[1]
        icon == Month(d) \notin suite.ifs
    IN  CASE name = "once"           -> [disk EXCEPT !.setup = TRUE]
          [] name = "init_cp_binary" -> [disk EXCEPT !.binary = TRUE]
          [] name = "get_data" ->
                IF icon THEN [disk EXCEPT !.input = @ \union {d}]
                        ELSE [disk EXCEPT !.analysis = @ \union {d}]
          [] name = "init_data" ->
                IF icon THEN disk
                        ELSE [disk EXCEPT !.input = @ \union ({d} \intersect disk.analysis)]
          [] name = "model"         -> [disk EXCEPT !.output = @ \union {d}]
          [] name = "post_prepare"  -> [disk EXCEPT !.posted = @ \union {d}]
          [] name = "eom_prepare_2" -> [disk EXCEPT !.means = @ \union {<<d, MonthUpTo(d)>>}]
          [] OTHER                  -> disk

(* What a task waits for before it completes.  testday sets its events     *)
(* first, model writes its last step into its log, and check_progress      *)
(* polls the log model.1 for that step.                                    *)
MayComplete(f, t) ==
    /\ t[1] = "testday" => TestdayEvents(ymd[f]) \subseteq events[f]
    /\ t[1] = "model" /\ FirstTry(f) => disk.logged[f[2]]
    /\ t[1] = "check_progress" => disk.logged[f[2]] \/ disk.flag

(* A new first try of model overwrites the log of the family, model.1: the *)
(* last step is no longer in it.                                           *)
Started(f, t) ==
    IF t[1] = "model"
    THEN [disk EXCEPT !.logged[f[2]] = FALSE]
    ELSE disk

(*------------------------ actions ----------------------------------------*)
Ready(f, t) == state[f][t] = "queued" /\ FamilyTrigger(f)

CompleteByRule(f, t) ==
    /\ Ready(f, t)
    /\ CompleteRule(f, t)
    /\ SetTask(f, t, "complete")
    /\ UNCHANGED <<suite, disk, aborts>>

Submit(f, t) ==
    /\ Ready(f, t)
    /\ ~CompleteRule(f, t)
    /\ Trigger(f, t)
    /\ SetTask(f, t, "active")
    /\ disk' = Started(f, t)
    /\ UNCHANGED <<suite, aborts>>

(* testday sets its events and its meter by calls of their own, in turn.   *)
SetEvent(f) ==
    LET left == TestdayEvents(ymd[f]) \ events[f]
    IN  /\ Task("testday") \in Tasks(f)
        /\ state[f][Task("testday")] = "active"
        /\ \E e \in left :
              /\ "time_eom" \in left => e = "time_eom"
              /\ e = "time_ifs_icon_2" => left = {e}
              /\ events' = [events EXCEPT ![f] = @ \union {e}]
        /\ UNCHANGED <<suite, state, ymd, over, disk, aborts>>

LastStep(i) ==
    /\ state[Fc(i)][Task("model")] = "active"
    /\ FirstTry(Fc(i)) /\ ~disk.logged[i]
    /\ disk' = [disk EXCEPT !.logged[i] = TRUE]
    /\ UNCHANGED <<suite, state, ymd, over, events, aborts>>

Finish(f, t) ==
    /\ state[f][t] = "active"
    /\ MayComplete(f, t)
    /\ disk' = Written(f, t)
    /\ SetTask(f, t, "complete")
    /\ UNCHANGED <<suite, aborts>>

Abort(f, t) ==
    /\ state[f][t] = "active" /\ aborts < MaxAborts
    /\ SetTask(f, t, "aborted")
    /\ aborts' = aborts + 1
    /\ UNCHANGED <<suite, disk>>

(* The operator starts a task that failed again, from the beginning: the   *)
(* server clears its events and the number of its tries ...                *)
Requeue(f, t) ==
    /\ state[f][t] = "aborted"
    /\ state' = [state EXCEPT ![f][t] = "queued"]
    /\ events' = [events EXCEPT ![f] = CASE t[1] = "testday" -> @ \intersect {"rerun"}
                                         [] t[1] = "model"   -> @ \ {"rerun"}
                                         [] OTHER            -> @]
    /\ UNCHANGED <<suite, ymd, over, disk, aborts>>

(* ... or in a second try, which has a log of its own, model.2.            *)
Rerun(f) ==
    /\ f \in ForecastAll
    /\ state[f][Task("model")] = "aborted"
    /\ state' = [state EXCEPT ![f][Task("model")] = "active"]
    /\ events' = [events EXCEPT ![f] = @ \union {"rerun"}]
    /\ UNCHANGED <<suite, ymd, over, disk, aborts>>

(* A check_progress whose model succeeded in a second try: it polls        *)
(* model.1, the log of the first try, to which nobody writes any more.     *)
Orphaned ==
    /\ ~disk.flag
    /\ \E f \in ForecastAll : /\ state[f][Task("check_progress")] = "active"
                              /\ Done(f, "model") /\ ~disk.logged[f[2]]

(* Someone may end it by hand with a flag file that no task writes.        *)
TouchFlag ==
    /\ Orphaned
    /\ disk' = [disk EXCEPT !.flag = TRUE]
    /\ UNCHANGED <<suite, state, ymd, over, events, aborts>>

Init ==
    /\ suite \in Suites
    /\ state = [f \in Families |-> [t \in Tasks(f) |-> "queued"]]
    /\ ymd = FirstDate
    /\ over = {}
    /\ events = [f \in Families |-> {}]
    /\ disk = [setup |-> FALSE, binary |-> FALSE, flag |-> FALSE,
               analysis |-> {}, input |-> {}, output |-> {}, posted |-> {},
               means |-> {}, logged |-> [i \in Par |-> FALSE]]
    /\ aborts = 0

Server == \E f \in Families : \E t \in Tasks(f) : CompleteByRule(f, t) \/ Submit(f, t)
Jobs   == \/ \E f \in Families : SetEvent(f) \/ \E t \in Tasks(f) : Finish(f, t)
          \/ \E i \in Par : LastStep(i)
Operator == \E f \in Families : Rerun(f) \/ \E t \in Tasks(f) : Requeue(f, t)
Failure == \E f \in Families : \E t \in Tasks(f) : Abort(f, t)

Next == Server \/ Jobs \/ Operator \/ TouchFlag \/ Failure

(* The server goes on scheduling, jobs end, and the operator starts again  *)
(* what failed.  Nothing makes anyone write the flag file.                 *)
Spec == Init /\ [][Next]_vars /\ WF_vars(Server \/ Jobs \/ Operator)

(*------------------------ properties -------------------------------------*)
Wanted == {d \in suite.first .. suite.last : Month(d) \in suite.months}

(* A forecast runs only when the set-up and the binary are copied and the  *)
(* initial data of its date are complete, although init prepares other     *)
(* dates at the same time and copies the binary on the first date only.    *)
InputsReady ==
    \A f \in ForecastAll :
        state[f][Task("model")] = "active" =>
            disk.setup /\ disk.binary /\ ymd[f] \in disk.input

(* The means of a month cover every forecast of the month up to their      *)
(* date, whichever parallel family ran and post-processed it.              *)
MonthComplete ==
    \A m \in disk.means :
        LET dates == {d \in Wanted : FirstOfMonth(m[1]) <= d /\ d <= m[1]}
        IN  m[2] = dates /\ dates \subseteq disk.posted

(* Every date of the months asked for is forecast and post-processed and   *)
(* the means of the months are written, and all families are through.      *)
AllDone ==
    /\ over = Families
    /\ disk.output = Wanted /\ disk.posted = Wanted
    /\ {m[1] : m \in disk.means} =
          {d \in suite.eom \intersect Wanted : "time_eom" \in TestdayEvents(d)}

(* If a task that fails is started again, the suite ends with everything   *)
(* done, whatever the order of the families, with one exception: after a   *)
(* second try of a model its check_progress may poll for ever, until       *)
(* someone writes the flag file (the model should end it, says doc.html).  *)
Ends == <>[]AllDone \/ <>[]Orphaned

(* The end date leaves no family without a date, the first date begins a   *)
(* month and is one to be run: the binary is copied on no other date.      *)
ASSUME SuiteAssumption ==
    /\ MonthLen \in Nat \ {0} /\ MaxAborts \in Nat
    /\ \A s \in Suites :
          /\ s.npar \in Nat \ {0} /\ s.first \in Nat \ {0} /\ s.last \in Nat
          /\ s.first + s.npar - 1 <= s.last
          /\ s.first = FirstOfMonth(s.first) /\ Month(s.first) \in s.months
          /\ s.eom # {} /\ s.eom \subseteq s.first .. s.last
=============================================================================
