------------------------------ MODULE MCBuildbot -----------------------------
(* Three builders of Buildbot, two of them on one machine and one that is  *)
(* not active, and two of GitLab.                                          *)
EXTENDS Buildbot

MCBuilder(machine, gpu, ci, config, active) ==
    [machine |-> machine, gpu |-> gpu, ci |-> ci, config |-> config, flag |-> active]
MCBuilders ==
    "cpu"    :> MCBuilder("levante", FALSE, FALSE, "mpi" :> "yes", "Active") @@
    "acc"    :> MCBuilder("levante", TRUE, FALSE, "gpu" :> "yes", "Active") @@
    "idle"   :> MCBuilder("balfrin", FALSE, FALSE, <<>>, "Inactive") @@
    "ci_cpu" :> MCBuilder("santis", FALSE, TRUE, <<>>, "Active") @@
    "ci_gpu" :> MCBuilder("santis", TRUE, TRUE, <<>>, "Active")

MCAllMembers == <<1, 2>>
MCDefaultMembers == <<2>>

A == <<"exp", "a">>
B == <<"exp", "b">>
C == <<"exp", "c">>
D == <<"exp", "d">>

Bot(list, builder, system) == [commands |-> list, run |-> [builder |-> builder, system |-> system, pipeline |-> {}]]
Ci(pipeline, builder) == [commands |-> <<>>, run |-> [builder |-> builder, system |-> "GitLab", pipeline |-> pipeline]]

(* Every way in which three experiments can depend on each other, up to    *)
(* their names.                                                            *)
Three == {A, B, C}
Pairs == {<<from, to>> \in Three \X Three : from # to}
Renamings == {f \in [Three -> Three] : IsInjective(f)}
Same(S) == {{<<f[d[1]], f[d[2]]>> : d \in S} : f \in Renamings}
Graphs == {CHOOSE S \in class : TRUE : class \in {Same(S) : S \in SUBSET Pairs}}
Dependencies(S) == [i \in 1 .. Cardinality(S) |-> AddDep(<<SetToSeq(S)[i][1]>>, <<SetToSeq(S)[i][2]>>, On({"cpu"}))]
Graphs3 == {Bot(<<AddExp({A, B, C}, On({"cpu"}))>> \o Dependencies(S), "cpu", system) :
                S \in Graphs, system \in {"Slurm", "SerialSlurm", "PBS"}}

Diamond == <<AddExp({A, B, C, D}, OnMachine("levante")), AddDep(<<B, C>>, <<A>>, OnMachine("levante")),
             AddDep(<<D>>, <<B, C>>, [Everywhere EXCEPT !.with = "mpi" :> "yes"])>>
Lists ==
    {<<AddExp({A, B}, Everywhere)>>,
     <<AddExp({A, B}, Everywhere), RmExp({A}, On({"cpu"})), AddDep(<<B>>, <<A>>, Everywhere)>>,
     <<AddExp({A, B}, Everywhere), RmExp({A}, Everywhere), AddDep(<<B>>, <<A>>, Everywhere)>>,
     <<AddExp({A, B}, Everywhere), AddDep(<<B>>, <<A>>, Everywhere), AddExp({A}, Everywhere)>>,
     <<AddExp({A, B}, Everywhere), AddDep(<<B>>, <<A>>, Everywhere), RmExp({A}, Everywhere)>>,
     <<AddExp({A, B, C}, Everywhere), [AddDep(<<B>>, <<A>>, Everywhere) EXCEPT !.across = <<"cpu", "acc">>]>>,
     <<AddExp({A, B, C}, Everywhere), AddDep(<<A, B>>, <<B, C>>, Everywhere)>>,
     <<AddExp({A}, Everywhere), [op |-> "flag", builders |-> {"idle", "cpu"}, flag |-> "Inactive"],
       AddExp({B}, [Everywhere EXCEPT !.without = "gpu" :> "yes"])>>,
     Diamond}

(* Two tests with ensembles, one with members of its own, one twice.       *)
Machine(name) == [name |-> name, only |-> NoLimit, except |-> NoLimit]
Test(name, check, members) ==
    [name |-> name, check |-> check, tags |-> {"probtest", "merge"}, tolerance |-> {"levante"},
     machines |-> <<Machine("levante"), Machine("santis")>>, refgen |-> {"cpu", "ci_cpu"}, members |-> members]
Own == ("cpu" :> <<1, 3>>)
Elsewhere(test) == [test EXCEPT !.refgen = {"ci_cpu"}, !.members = "ci_cpu" :> <<3>>, !.tolerance = {}]
TestsOf == {<<Test("a", "ca", Own), Elsewhere(Test("b", "cb", <<>>))>>,
            <<Test("a", "ca", <<>>), Test("a", "cb", Own)>>,
            <<[Test("a", "ca", <<>>) EXCEPT !.machines[1].except = {"acc"}, !.machines[2].only = {"ci_gpu"}]>>,
            <<[Test("a", "ca", <<>>) EXCEPT !.machines[1].only = {"cpu"}, !.refgen = {"ci_cpu"}, !.tolerance = {}]>>}
ASSUME ListsAssumption == \A tests \in TestsOf : ListsPass(tests)

MCPrograms ==
    Graphs3 \union {Bot(list, "cpu", system) : list \in Lists, system \in {"Slurm", "Commandline"}}
    \union {Bot(Diamond, "acc", "Slurm")}
    \union {Bot(Register(tests, tag, "cpu", <<>>), "cpu", "Slurm") : tests \in TestsOf, tag \in {"tolerance", "merge"}}
    \union {Bot(Register(tests, "select-members", "cpu", <<>>), "cpu", "Slurm") : tests \in {t \in TestsOf : Len(t) = 1}}
    \union {Bot(Register(tests, "tolerance", "cpu", <<"a">>), "cpu", "PBS") : tests \in TestsOf}
    \union {Ci(Pipeline(tests, tag, builder, <<>>), builder) :
                tests \in TestsOf, tag \in {"tolerance", "select-members", "merge"}, builder \in {"ci_cpu", "ci_gpu"}}
=============================================================================
