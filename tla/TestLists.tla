----------------------------- MODULE TestLists ------------------------------
(* scripts/experiments/yaml_experiment_test_processor.py: how the entries  *)
(* of the YAML lists of tests become commands that fill a list of Buildbot *)
(* and a pipeline of GitLab.                                               *)
(*                                                                         *)
(* Names of experiments and jobs are tuples: <<"check", c>>, <<"exp", n>>, *)
(* <<"member", n, i>>, <<"tolerance", n>> (also for the selection of       *)
(* members), <<"collect", what>>.  A builder is given by its name; what is *)
(* asked of the name (its machine, "gpu" or "mixed" in it) by a record.    *)
EXTENDS Integers, FiniteSets, SequencesExt

CONSTANTS
    Builders,           \* name -> [machine, gpu, ci, config, flag]
    AllMembers,         \* range(1, 50), the members to select from
    DefaultMembers      \* defaults_tests.yml

NoLimit == {}               \* no restriction is given

(* The entries at some places of a list, in their order.                   *)
Only(list, places) == FlattenSeq([i \in DOMAIN list |-> IF i \in places THEN <<list[i]>> ELSE <<>>])

(* set_mode and get_items_by_tag                                           *)
Probtest == {"tolerance", "tolerance-update", "select-members"}
Tag(tag) == IF tag \in Probtest THEN "probtest" ELSE tag
ByTag(tests, tag) == Only(tests, {i \in DOMAIN tests : Tag(tag) \in tests[i].tags})

(* The first test of a name counts.                                        *)
First(tests, name) == tests[CHOOSE i \in DOMAIN tests : tests[i].name = name /\ \A j \in 1 .. i - 1 : tests[j].name # name]
ByNames(tests, names) == IF names = <<>> THEN tests ELSE [i \in DOMAIN names |-> First(tests, names[i])]

SupportedMachines(ci) == {Builders[b].machine : b \in {c \in DOMAIN Builders : Builders[c].ci = ci}}

(* ExperimentTestCollection.check                                          *)
ListsPass(tests) ==
    /\ tests # <<>>
    /\ IsInjective([i \in DOMAIN tests |-> tests[i].check])
    /\ \A i \in DOMAIN tests :
          LET t == tests[i]
          IN /\ \A m \in DOMAIN t.machines :
                   /\ t.machines[m].name \in SupportedMachines(TRUE) \union SupportedMachines(FALSE)
                   /\ t.machines[m].only = NoLimit \/ t.machines[m].except = NoLimit
                   /\ t.machines[m].only \union t.machines[m].except \subseteq DOMAIN Builders
             /\ DOMAIN t.members \subseteq t.refgen
             /\ \A machine \in t.tolerance : \E b \in t.refgen : Builders[b].machine = machine

(* get_ensemble_num_for_exp                                                *)
MembersOf(tests, t, builder) ==
    LET members == First(tests, t.name).members
    IN IF builder \in DOMAIN members THEN members[builder] ELSE DefaultMembers

(* ------------------------------- Buildbot ------------------------------ *)

Everywhere == [builders |-> NoLimit, machines |-> NoLimit, with |-> <<>>, without |-> <<>>]
On(builders) == [Everywhere EXCEPT !.builders = builders]
OnMachine(machine) == [Everywhere EXCEPT !.machines = {machine}]

AddExp(exps, where) == [op |-> "addexp", exps |-> exps, where |-> where]
RmExp(exps, where)  == [op |-> "rmexp", exps |-> exps, where |-> where]
AddDep(from, to, where) == [op |-> "adddep", from |-> from, to |-> to, where |-> where, across |-> <<>>]

(* The entries with a machine of Buildbot, and only those machines.        *)
OnBuildbot(tests) ==
    LET on(t) == Only(t.machines, {m \in DOMAIN t.machines : t.machines[m].name \in SupportedMachines(FALSE)})
        kept == Only(tests, {i \in DOMAIN tests : on(tests[i]) # <<>>})
    IN [i \in DOMAIN kept |-> [kept[i] EXCEPT !.machines = on(kept[i])]]

RegisterDefault(t) ==
    LET commands(m) ==
            IF m.only # NoLimit THEN <<AddExp({<<"check", t.check>>}, On(m.only))>>
            ELSE IF m.except # NoLimit THEN <<AddExp({<<"check", t.check>>}, OnMachine(m.name)),
                                          RmExp({<<"check", t.check>>}, On(m.except))>>
            ELSE <<AddExp({<<"check", t.check>>}, OnMachine(m.name))>>
    IN FlattenSeq([i \in DOMAIN t.machines |-> commands(t.machines[i])])

Perturbed(t, members) == [i \in DOMAIN members |-> <<"member", t.name, members[i]>>]

(* Mutant: the runs of an ensemble are added but nobody waits for them.    *)
RegisterLoose(t, builder, members) ==
    <<AddExp({<<"exp", t.name>>}, On({builder})),
      AddExp({<<"tolerance", t.name>>}, On({builder})),
      AddExp(ToSet(Perturbed(t, members)), On({builder}))>>

(* The run without a perturbation, the members, and the job that reads     *)
(* their output, which depends on the members.                             *)
RegisterEnsemble(t, builder, members) ==
    <<AddExp({<<"exp", t.name>>}, On({builder})),
      AddExp({<<"tolerance", t.name>>}, On({builder})),
      AddExp(ToSet(Perturbed(t, members)), On({builder})),
      AddDep(<<<<"tolerance", t.name>>>>, Perturbed(t, members), On({builder}))>>

RegisterList(tests, builder, tag) ==
    LET mine == Only(tests, {i \in DOMAIN tests : builder \in tests[i].refgen})
        members(t) == IF tag = "select-members" THEN AllMembers ELSE MembersOf(tests, t, builder)
        ensembles == FlattenSeq([i \in DOMAIN mine |-> RegisterEnsemble(mine[i], builder, members(mine[i]))])
        read == [i \in DOMAIN mine |-> <<"tolerance", mine[i].name>>]
        collect(what) == <<AddExp({<<"collect", what>>}, On({builder})),
                           AddDep(<<<<"collect", what>>>>, read, On({builder}))>>
    IN ensembles \o collect("hashes") \o IF tag = "select-members" THEN collect("members") ELSE <<>>

(* register_experiments_for_bb, for a tag that some test has.              *)
Register(all, tag, builder, names) ==
    LET tests == OnBuildbot(ByTag(ByNames(all, names), tag))
    IN IF tag \in Probtest THEN RegisterList(tests, builder, tag)
       ELSE FlattenSeq([i \in DOMAIN tests |-> RegisterDefault(tests[i])])

(* -------------------------------- GitLab ------------------------------- *)

(* CscsCiInterface.get_items_for_builder                                   *)
RunsOn(t, machine, builder, tag) ==
    /\ machine.name = Builders[builder].machine /\ Builders[builder].ci
    /\ machine.only = NoLimit \/ builder \in machine.only
    /\ builder \notin machine.except
    /\ tag \in Probtest => ~Builders[builder].gpu /\ builder \in t.refgen
ForBuilder(tests, builder, tag) ==
    Only(tests, {i \in DOMAIN tests : \E m \in DOMAIN tests[i].machines :
                                          RunsOn(tests[i], tests[i].machines[m], builder, tag)})

Job(name, stage, needs, always) == [name |-> name, stage |-> stage, needs |-> needs, always |-> always]

(* The jobs of one test.  The run of an experiment takes the place of its  *)
(* check when the pipeline makes tolerances: both have the same key.       *)
JobsOf(tests, t, builder, tag) ==
    LET members == IF tag = "select-members" THEN AllMembers ELSE MembersOf(tests, t, builder)
        perturbed == ToSet(Perturbed(t, members))
    IN IF tag \notin Probtest THEN {Job(<<"check", t.check>>, "run", {}, FALSE)}
       ELSE {Job(<<"exp", t.name>>, "run", {}, FALSE)}
            \union {Job(p, "run", {}, FALSE) : p \in perturbed}
            \union {Job(<<"tolerance", t.name>>, "run", {<<"exp", t.name>>} \union perturbed, FALSE)}

(* register_experiments_for_cscs_ci: a later test of the same name takes   *)
(* the place of an earlier one, and no test at all is an error.            *)
Pipeline(all, tag, builder, names) ==
    LET tests == ForBuilder(ByTag(ByNames(all, names), tag), builder, tag)
        last == {i \in DOMAIN tests : \A j \in DOMAIN tests : tests[j].name = tests[i].name => j <= i}
        collect == {Job(<<"collect", what>>, "post", {}, TRUE) :
                        what \in {"hashes"} \union IF tag = "select-members" THEN {"members"} ELSE {}}
    IN IF tests = <<>> THEN {}
       ELSE {Job(<<"build">>, "build", {}, FALSE)} \union (UNION {JobsOf(tests, tests[i], builder, tag) : i \in last})
            \union IF tag \in Probtest THEN collect ELSE {}
=============================================================================
