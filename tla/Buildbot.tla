------------------------------ MODULE Buildbot ------------------------------
(* scripts/buildbot_scripts: a list of experiments, their builders and the *)
(* dependencies between them is put together by a series of commands; then *)
(* runexp submits the experiments of one builder to a batch system, waits  *)
(* for their jobs and reports.  On GitLab the pipeline that is made of the *)
(* same tests runs instead.                                                *)
(*                                                                         *)
(* External: the batch systems, which start a job when the jobs it was     *)
(* submitted "after" have ended, well or not, and GitLab, which starts one *)
(* when those it needs and all of earlier stages have succeeded.           *)
EXTENDS TestLists

CONSTANTS
    Programs,   \* [commands, run : [builder, system, pipeline]]
    MaxFailures,
    NoCode

CommandSet == UNION {ToSet(p.commands) : p \in Programs}

(* Lists are finite, and a pipeline of GitLab is made without one.         *)
ASSUME BuildbotAssumption ==
    /\ NoCode \notin {0, 1}
    /\ IsFiniteSet(DOMAIN Builders)
    /\ \A c \in CommandSet : c.op = "adddep" => IsFiniteSet(DOMAIN c.from) /\ IsFiniteSet(DOMAIN c.to)
    /\ \A p \in Programs :
          /\ p.commands \in Seq(CommandSet)
          /\ p.run.system = "GitLab" => p.commands = <<>>

CommandLine == "Commandline"
Systems == {"Slurm", "SerialSlurm", "PBS", CommandLine}
Flags   == {"Active", "Inactive", "build_only"}

VARIABLES
    pc,
    program,    \* the builder, the batch system or the pipeline that runs
    commands,   \* the commands not yet executed
    flag,       \* builder_meta: the flag of each builder
    index,      \* data: its rows,
    matrix,     \*   and the experiment object in each cell: its name, its
                \*   builder and how many were in that cell before
    objects,    \* the objects ever made
    links,      \* their parents and children: an entry of both lists each
    todo,       \* runexp: experiments the first loop has not come to
    calls,      \* the calls of Experiment.submit not yet executed: of which
                \*   object, and for which entry of its parent, if any
    job,        \* BatchJob: submitted, parents, return code
    running,    \* the command line job, or serial job, that is waited for
    incomplete, \* incomplete_jobs
    status,     \* LOOP_STATUS_EXP_FILE
    exit,
    queue,      \* what the batch system knows: the state of each job,
    code,       \*   the code it ended with, and
    canceled    \*   the jobs somebody cancelled

lists == <<flag, index, matrix, objects, links>>
runs  == <<todo, calls, job, running, incomplete, status>>
batch == <<queue, code, canceled>>
vars  == <<pc, program, commands, lists, runs, exit, batch>>

None == <<>>
NoJob == [jobid |-> FALSE, parents |-> <<>>, returncode |-> NoCode]

Init ==
    /\ pc = "list"
    /\ \E p \in Programs : program = p.run /\ commands = p.commands
    /\ flag = [b \in DOMAIN Builders |-> Builders[b].flag]
    /\ index = {} /\ matrix = <<>> /\ objects = {} /\ links = {}
    /\ todo = {} /\ calls = <<>> /\ job = <<>> /\ running = None /\ incomplete = {}
    /\ status = <<>> /\ exit = NoCode
    /\ queue = <<>> /\ code = <<>> /\ canceled = {}

(* ------------------------------- the list ------------------------------ *)

(* Configurations are functions of the options that are given.             *)
RelateWith(this, other)    == \A key \in DOMAIN this : key \in DOMAIN other /\ other[key] = this[key]
RelateWithout(this, other) == this = <<>> \/ \A key \in DOMAIN this \intersect DOMAIN other : other[key] # this[key]

(* get_indices_from_args: only active builders are selected.               *)
Selected(where) ==
    {b \in DOMAIN Builders :
        /\ flag[b] = "Active"
        /\ RelateWith(where.with, Builders[b].config) /\ RelateWithout(where.without, Builders[b].config)
        /\ where.builders = NoLimit \/ b \in where.builders
        /\ where.machines = NoLimit \/ Builders[b].machine \in where.machines}

Name(o) == o[1]
Cell(exp, b) == IF <<exp, b>> \in DOMAIN matrix THEN matrix[<<exp, b>>] ELSE None
Parents(o)  == {l \in links : l.from = o}
Children(o) == {l \in links : l.to = o}

Do(op) == pc = "list" /\ commands # <<>> /\ Head(commands).op = op /\ commands' = Tail(commands)
Command == Head(commands)

New(exp, b) == <<exp, b, Cardinality({o \in objects : Name(o) = exp /\ o[2] = b})>>

(* A cell that has an experiment gets a new one, without dependencies.     *)
AddExperiments ==
    /\ Do("addexp")
    /\ LET cells == Command.exps \X Selected(Command.where)
       IN /\ objects' = objects \union {New(c[1], c[2]) : c \in cells}
          /\ matrix' = [c \in cells \union DOMAIN matrix |-> IF c \in cells THEN New(c[1], c[2]) ELSE matrix[c]]
    /\ index' = index \union Command.exps
    /\ UNCHANGED <<pc, program, flag, links, runs, exit, batch>>

(* Rows in which no experiment is left are dropped.                        *)
RemoveExperiments ==
    /\ Do("rmexp")
    /\ matrix' = [c \in DOMAIN matrix \ (Command.exps \X Selected(Command.where)) |-> matrix[c]]
    /\ index' = {c[1] : c \in DOMAIN matrix'}
    /\ UNCHANGED <<pc, program, flag, objects, links, runs, exit, batch>>

SetBuilderFlag ==
    /\ Do("flag")
    /\ flag' = [b \in DOMAIN flag |-> IF b \in Command.builders THEN Command.flag ELSE flag[b]]
    /\ UNCHANGED <<pc, program, index, matrix, objects, links, runs, exit, batch>>

(* The builders of both ends: the same, or two that are given explicitly.  *)
Ends(c) == IF c.across # <<>> THEN {c.across} ELSE {<<b, b>> : b \in Selected(c.where)}
OneToMany(c) == c.from # <<>> /\ c.to # <<>> /\ (Len(c.from) = 1 \/ Len(c.to) = 1)
Accepted(c) == Ends(c) = {} \/ (OneToMany(c) /\ ToSet(c.from) \union ToSet(c.to) \subseteq index)

(* The pairs that are connected, in their order: many to one, one to many. *)
Connections(c) == IF Len(c.from) = 1 THEN [i \in DOMAIN c.to |-> <<c.from[1], c.to[i]>>]
            ELSE [i \in DOMAIN c.from |-> <<c.from[i], c.to[1]>>]
Link(pair, ends, nr) == [from |-> Cell(pair[1], ends[1]), to |-> Cell(pair[2], ends[2]), nr |-> nr]
LinksOf(c, left) == {Link(Connections(c)[i], e, <<left, i>>) : i \in DOMAIN Connections(c), e \in Ends(c)}

(* Each pair adds a parent here and a child there, as often as it is       *)
(* given.  A cell without an experiment is passed over.                    *)
AddDependency ==
    /\ Do("adddep") /\ Accepted(Command)
    /\ links' = links \union {l \in LinksOf(Command, Len(commands)) : l.from # None /\ l.to # None}
    /\ UNCHANGED <<pc, program, flag, index, matrix, objects, runs, exit, batch>>

(* Many to many, nothing at all, or a name without a row: the program ends *)
(* and leaves the list as it is.                                           *)
RefuseDependency ==
    /\ pc = "list" /\ commands # <<>> /\ Command.op = "adddep" /\ ~Accepted(Command)
    /\ pc' = "failed"
    /\ UNCHANGED <<program, commands, lists, runs, exit, batch>>

(* ------------------------------- runexp -------------------------------- *)

Mine == {matrix[c] : c \in {d \in DOMAIN matrix : d[2] = program.builder}}

(* The script build configures, compiles and makes the run scripts: each   *)
(* of them may fail.  Then runexp gives each experiment a job.             *)
Build ==
    /\ pc = "list" /\ commands = <<>> /\ program.system \in Systems
    /\ \/ pc' = "submit" /\ todo' = Mine
          /\ job' = [o \in Mine |-> NoJob] /\ queue' = [o \in Mine |-> "none"] /\ code' = [o \in Mine |-> NoCode]
       \/ pc' = "failed" /\ UNCHANGED <<todo, job, queue, code>>
    /\ UNCHANGED <<program, commands, lists, calls, running, incomplete, status, exit, canceled>>

Over(o) == queue[o] \in {"ended", "skipped"}
Idle == running = None /\ calls = <<>>

NextExperiment ==
    /\ pc = "submit" /\ Idle
    /\ \E o \in todo : calls' = <<[of |-> o, by |-> <<>>]>> /\ todo' = todo \ {o}
    /\ UNCHANGED <<pc, program, commands, lists, job, running, incomplete, status, exit, batch>>

Quit(how) == pc' = how /\ exit' = 1
Called(f) == [f EXCEPT ![Head(calls).of].parents = @ \o Head(calls).by]

AnyParent(o, parents) == Parents(o) = {} \/ parents # <<>>     \* mutant
(* An experiment that is called waits for calls from all its parents.      *)
Complete(o, parents) == Parents(o) = {} \/ Len(parents) = Cardinality(Parents(o))

(* The calls of the children, in the order of the list: entries of earlier *)
(* commands, which had more of them before them, come first.               *)
OneCall(o) == {IF Children(o) = {} THEN <<>>                   \* mutant
               ELSE LET l == CHOOSE c \in Children(o) : TRUE IN <<[of |-> l.from, by |-> <<l>>]>>}
Earlier(l, m) == l.nr[1] > m.nr[1] \/ (l.nr[1] = m.nr[1] /\ l.nr[2] < m.nr[2])
Listed(o) == {s \in SetToSeqs(Children(o)) : \A i, j \in DOMAIN s : i < j => Earlier(s[i], s[j])}
ChildCalls(o) == {[i \in DOMAIN s |-> [of |-> s[i].from, by |-> <<s[i]>>]] : s \in Listed(o)}

(* Experiment.submit: it may leave the program, in the middle of the       *)
(* submission, or return without a submission, or submit and call the      *)
(* children.  Serial jobs are waited for; so are command line jobs, which  *)
(* have no id.                                                             *)
Submit ==
    /\ pc = "submit" /\ running = None /\ calls # <<>>
    /\ LET o == Head(calls).of
           parents == Called(job)[o].parents
       IN IF o \notin DOMAIN job THEN Quit("exited") /\ UNCHANGED <<calls, job, running, queue, code>>
          ELSE IF job[o].jobid \/ ~Complete(o, parents)
          THEN job' = Called(job) /\ calls' = Tail(calls) /\ UNCHANGED <<pc, exit, running, queue, code>>
          ELSE IF program.system = CommandLine /\ parents # <<>>
          THEN Quit("exited") /\ job' = Called(job) /\ UNCHANGED <<calls, running, queue, code>>
          ELSE \/ /\ job' = [Called(job) EXCEPT ![o].jobid = program.system # CommandLine]
                  /\ queue' = [queue EXCEPT ![o] = "pending"]
                  /\ \E called \in ChildCalls(o) : calls' = called \o Tail(calls)
                  /\ running' = IF program.system \in {"SerialSlurm", CommandLine} THEN o ELSE None
                  /\ UNCHANGED <<pc, exit, code>>
               \/ /\ program.system # CommandLine      \* no id is found in what the system answers
                  /\ Quit("exited") /\ job' = Called(job) /\ UNCHANGED <<calls, running, queue, code>>
    /\ UNCHANGED <<program, commands, lists, todo, incomplete, status, canceled>>

Waited ==
    /\ pc = "submit" /\ running # None /\ Over(running)
    /\ job' = IF program.system = CommandLine THEN [job EXCEPT ![running].returncode = code[running]] ELSE job
    /\ running' = None
    /\ UNCHANGED <<pc, program, commands, lists, todo, calls, incomplete, status, exit, batch>>

(* From here on a signal is handled.                                       *)
InstallHandlers ==
    /\ pc = "submit" /\ Idle /\ todo = {}
    /\ pc' = "wait" /\ incomplete' = DOMAIN job
    /\ UNCHANGED <<program, commands, lists, todo, calls, job, running, status, exit, batch>>

(* poll: the loop asks for one job after the other; a command line job has *)
(* nothing to ask for and counts as over.                                  *)
Poll ==
    /\ pc = "wait"
    /\ \E o \in incomplete :
          /\ program.system = CommandLine \/ Over(o)
          /\ incomplete' = incomplete \ {o}
          /\ job' = IF program.system = CommandLine THEN job ELSE [job EXCEPT ![o].returncode = code[o]]
    /\ UNCHANGED <<pc, program, commands, lists, todo, calls, running, status, exit, batch>>

(* A batch job that was never submitted has no process to wait for.        *)
PollNothing ==
    /\ pc = "wait" /\ program.system # CommandLine
    /\ \E o \in incomplete : queue[o] = "none"
    /\ Quit("crashed")
    /\ UNCHANGED <<program, commands, lists, runs, batch>>

NeverCanceled(o) == FALSE                       \* mutant
(* sacct knows of a job that was cancelled before it started, which ends   *)
(* with code 0 as if all were well.                                        *)
WasCanceled(o) == program.system \in {"Slurm", "SerialSlurm"} /\ o \in canceled
Failed(o, c) == c # 0 \/ WasCanceled(o)
StatusFile == [o \in DOMAIN job |-> IF job[o].returncode = NoCode \/ Failed(o, job[o].returncode) THEN "FAILED" ELSE "OK"]

Report ==
    /\ pc = "wait" /\ incomplete = {}
    /\ status' = StatusFile
    /\ exit' = IF \E o \in DOMAIN job : StatusFile[o] = "FAILED" THEN 1 ELSE 0
    /\ pc' = "exited"
    /\ UNCHANGED <<program, commands, lists, todo, calls, job, running, incomplete, batch>>

(* ------------------------------ disturbances --------------------------- *)

Alive(o) == queue[o] \in {"pending", "running"}
CancelCode(o) == IF program.system = "PBS" \/ queue[o] = "running" THEN 1 ELSE 0
Cancel(S) ==
    /\ queue' = [o \in DOMAIN queue |-> IF o \notin S THEN queue[o]
                                       ELSE IF queue[o] = "running" THEN "ended" ELSE "skipped"]
    /\ code' = [o \in DOMAIN code |-> IF o \in S THEN CancelCode(o) ELSE code[o]]
    /\ canceled' = canceled \union S

(* SIGINT or SIGTERM: cleanupOnInterupt once it is installed; before that  *)
(* the program just ends.                                                  *)
Signal ==
    /\ \/ pc = "wait" /\ pc' = "exited" /\ exit' = 1
          /\ Cancel({o \in DOMAIN job : job[o].jobid /\ Alive(o)})
          /\ status' = StatusFile
       \/ pc = "submit" /\ pc' = "killed" /\ UNCHANGED <<exit, status, batch>>
    /\ UNCHANGED <<program, commands, lists, todo, calls, job, running, incomplete>>

(* Somebody cancels a job.                                                 *)
UserCancel ==
    /\ pc \in {"submit", "wait"} /\ canceled = {} /\ program.system # CommandLine
    /\ \E o \in DOMAIN queue : Alive(o) /\ Cancel({o})
    /\ UNCHANGED <<pc, program, commands, lists, runs, exit>>

(* ----------------------------- batch systems --------------------------- *)

Rank == [build |-> 0, run |-> 1, post |-> 2]
Good(o) == queue[o] = "ended" /\ code[o] = 0
GitLab == pc = "gitlab"
JobOf(o) == CHOOSE j \in program.pipeline : j.name = Name(o)
Before(o) == IF JobOf(o).needs # {} THEN {p \in objects : Name(p) \in JobOf(o).needs}
             ELSE {p \in objects : Rank[JobOf(p).stage] < Rank[JobOf(o).stage]}

ReleasedIfGood(p) == Good(p)                    \* mutant
(* The option that runexp passes: after any end, not only a good one.      *)
Released(p) == Over(p)
Ready(o) == IF GitLab THEN \A p \in Before(o) : Over(p) /\ (JobOf(o).always \/ Good(p))
            ELSE \A l \in ToSet(job[o].parents) : Released(l.to)

StartJob(o) ==
    /\ queue[o] = "pending" /\ Ready(o)
    /\ queue' = [queue EXCEPT ![o] = "running"]
    /\ UNCHANGED <<pc, program, commands, lists, runs, exit, code, canceled>>

EndJob(o) ==
    /\ queue[o] = "running"
    /\ queue' = [queue EXCEPT ![o] = "ended"]
    /\ \E c \in {0, 1} : /\ c = 1 => Cardinality({p \in DOMAIN code : code[p] = 1}) < MaxFailures
                         /\ code' = [code EXCEPT ![o] = c]
    /\ UNCHANGED <<pc, program, commands, lists, runs, exit, canceled>>

(* GitLab: the jobs of the pipeline are there at once; one that needs a    *)
(* job that failed is skipped.                                             *)
Trigger ==
    /\ pc = "list" /\ commands = <<>> /\ program.system = "GitLab"
    /\ LET jobs == {<<j.name, program.builder, 0>> : j \in program.pipeline}
       IN /\ objects' = jobs
          /\ queue' = [o \in jobs |-> "pending"] /\ code' = [o \in jobs |-> NoCode]
          /\ pc' = IF jobs = {} THEN "failed" ELSE "gitlab"
    /\ UNCHANGED <<program, commands, flag, index, matrix, links, runs, exit, canceled>>

SkipJob(o) ==
    /\ GitLab /\ queue[o] = "pending" /\ ~JobOf(o).always
    /\ \E p \in Before(o) : Over(p) /\ ~Good(p)
    /\ queue' = [queue EXCEPT ![o] = "skipped"]
    /\ UNCHANGED <<pc, program, commands, lists, runs, exit, code, canceled>>

ListStep == AddExperiments \/ RemoveExperiments \/ SetBuilderFlag \/ AddDependency \/ RefuseDependency
Runexp == Build \/ NextExperiment \/ Submit \/ Waited \/ InstallHandlers \/ Poll \/ PollNothing \/ Report
BatchStep == \E o \in DOMAIN queue : StartJob(o) \/ EndJob(o) \/ SkipJob(o)

Next == ListStep \/ Runexp \/ Trigger \/ BatchStep \/ Signal \/ UserCancel

(* The programs run on, and the batch system starts what may start and     *)
(* ends what runs.                                                         *)
Spec == Init /\ [][Next]_vars /\ WF_vars(ListStep \/ Runexp \/ Trigger) /\ WF_vars(BatchStep)

(* ------------------------------ properties ----------------------------- *)

Started(o) == queue[o] \in {"running", "ended"}

(* A dependency that was accepted holds whatever the order in which the    *)
(* experiments are submitted, fail or are cancelled: an experiment does    *)
(* not start before those it depends on are over.                          *)
InOrder == \A l \in links :
              (l.from \in DOMAIN queue /\ l.to \in DOMAIN queue /\ Started(l.from)) => Over(l.to)

(* From the list of tests to the batch system: the tolerances of a test    *)
(* are not computed before the runs of its ensemble are over, and the      *)
(* results not collected before the tolerances are, on Buildbot as on      *)
(* GitLab.                                                                 *)
Reads(o, p) ==
    LET reader == Name(o)
        read == Name(p)
    IN \/ reader[1] = "tolerance" /\ read[1] = "member" /\ read[2] = reader[2]
       \/ reader[1] = "collect" /\ read[1] = "tolerance"
EnsembleFirst == \A o, p \in DOMAIN queue : (Reads(o, p) /\ Started(o)) => Over(p)

(* Every experiment of the builder is submitted in the end, unless its     *)
(* dependencies are circular or lead to an experiment that is not          *)
(* submitted here, of another builder or replaced since: the recursion     *)
(* leaves out none and runexp does not wait for a job that it never had.   *)
Circular == \E S \in SUBSET DOMAIN job : S # {} /\ \A o \in S : \E l \in Parents(o) : l.to \in S
Within == \A l \in links : l.from \in DOMAIN job <=> l.to \in DOMAIN job
NoneForgotten == (pc \in {"wait", "crashed"} /\ Within /\ ~Circular) => \A o \in DOMAIN job : queue[o] # "none"

(* What is reported as OK ran to its end, with code 0, and was not         *)
(* cancelled by anybody; if runexp ends with 0 that is so for all.         *)
Well(o) == Good(o) /\ o \notin canceled
StatusHonest ==
    /\ \A o \in DOMAIN status : status[o] = "OK" => Well(o)
    /\ exit = 0 => \A o \in DOMAIN job : Well(o)

(* However jobs fail or are cancelled, the programs and the pipeline end.  *)
Ended == pc \in {"failed", "exited", "crashed", "killed"} \/ (GitLab /\ \A o \in DOMAIN queue : Over(o))
Finishes == <>Ended
=============================================================================
