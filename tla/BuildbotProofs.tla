--------------------------- MODULE BuildbotProofs ---------------------------
(* Theorems about Buildbot for every list of experiments, every graph of   *)
(* dependencies between them and every batch system.                       *)
EXTENDS Buildbot, FiniteSetTheorems, WellFoundedInduction, NaturalsInduction, TLAPS

(* ------------------------------ invariants ----------------------------- *)

States  == {"none", "pending", "running", "ended", "skipped"}
Codes   == {NoCode, 0, 1}
JobType == [jobid : BOOLEAN, parents : Seq(links), returncode : Codes]

(* runexp has given each experiment a job; and it has not been left in the *)
(* middle of a submission.                                                 *)
Running == pc \in {"submit", "wait", "exited", "crashed", "killed"}
Intact  == pc \in {"submit", "wait", "crashed"}

Got(o)       == ToSet(job[o].parents)
Submitted(o) == queue[o] # "none"
Distinct(s)  == \A i, j \in DOMAIN s : s[i] = s[j] => i = j

(* The list is made before any job is, and not for GitLab.                 *)
ListInv ==
    /\ pc \in {"list", "failed", "gitlab"} \/ Running
    /\ commands \in Seq(CommandSet) /\ IsFiniteSet(links)
    /\ program.system = "GitLab" => commands = <<>> /\ links = {}
    /\ pc = "gitlab" => program.system = "GitLab"
    /\ Running => program.system \in Systems
    /\ ~Running => /\ job = <<>> /\ calls = <<>> /\ todo = {}
                   /\ status = <<>> /\ exit = NoCode /\ canceled = {}
    /\ pc \in {"list", "failed"} => DOMAIN queue = {}

(* What batch systems know.                                                *)
BatchType ==
    /\ queue \in [DOMAIN queue -> States] /\ code \in [DOMAIN queue -> Codes]
    /\ canceled \subseteq DOMAIN queue
    /\ Running => DOMAIN job = DOMAIN queue /\ job \in [DOMAIN job -> JobType]

(* Each experiment has got some of the calls of its parents, all if it is  *)
(* submitted, each for an entry of its own and from a parent that is.      *)
JobInv ==
    \A o \in DOMAIN job :
        /\ job[o].jobid <=> Submitted(o) /\ program.system # CommandLine
        /\ Distinct(job[o].parents) /\ Got(o) \subseteq Parents(o)
        /\ Submitted(o) => Parents(o) \subseteq Got(o)
        /\ \A l \in Got(o) : l.to \in DOMAIN job /\ Submitted(l.to)

(* Calls that are to be executed come from the loop over the experiments,  *)
(* which makes one at a time, or from a parent that was submitted, one for *)
(* each entry.                                                             *)
Outer(c) == c.by = <<>> /\ c.of \in DOMAIN job /\ c.of \notin todo
Inner(c) == \E l \in links :
                /\ c.of = l.from /\ c.by = <<l>>
                /\ l.to \in DOMAIN job /\ Submitted(l.to)
                /\ l.from \in DOMAIN job => l \notin Got(l.from)

CallInv ==
    /\ todo \subseteq DOMAIN job
    /\ calls \in Seq([of : {l.from : l \in links} \union DOMAIN job, by : Seq(links)])
    /\ \A i \in DOMAIN calls : Inner(calls[i]) \/ (Outer(calls[i]) /\ Len(calls) = 1)
    /\ \A i, j \in DOMAIN calls : calls[i].by = calls[j].by => i = j
    /\ pc # "submit" => calls = <<>> /\ todo = {}

(* No call gets lost: those of a submitted parent have arrived or are to   *)
(* come, and what is not submitted waits for one.                          *)
Pending(l) == \E i \in DOMAIN calls : calls[i].by = <<l>>
Asked(o)   == \E i \in DOMAIN calls : calls[i].by = <<>> /\ calls[i].of = o

ArrivalInv ==
    /\ \A l \in links : l.from \in DOMAIN job /\ l.to \in DOMAIN job /\ Submitted(l.to) =>
          l \in Got(l.from) \/ Pending(l)
    /\ \A o \in DOMAIN job : ~Submitted(o) =>
          o \in todo \/ Asked(o) \/ Len(job[o].parents) < Cardinality(Parents(o))

(* On the command line, where a job has no id, nothing is called again.    *)
OnceInv ==
    program.system = CommandLine =>
        \A o \in DOMAIN job : Submitted(o) => Parents(o) = {} /\ o \notin todo /\ ~Asked(o)

SubmitInv == (Running => JobInv) /\ (Intact => CallInv /\ ArrivalInv /\ OnceInv)

(* A return code is that of a job that is over; a job that was cancelled   *)
(* is, and has failed unless it ran on Slurm.                              *)
CodeInv ==
    /\ Running => \A o \in DOMAIN job : job[o].returncode # NoCode => Over(o) /\ job[o].returncode = code[o]
    /\ \A o \in canceled : Over(o) /\ (code[o] = 1 \/ program.system \in {"Slurm", "SerialSlurm"})
    /\ Running => \A o \in DOMAIN queue : queue[o] = "skipped" => o \in canceled
    /\ pc # "exited" => exit # 0 /\ status = <<>>
    /\ DOMAIN status \subseteq DOMAIN job

BuildbotInv == ListInv /\ BatchType /\ SubmitInv /\ CodeInv /\ InOrder /\ StatusHonest

(* ------------------------- sequences and sets -------------------------- *)

LEMMA EmptyList ==
    /\ DOMAIN <<>> = {} /\ \A S : <<>> \in [{} -> S] /\ <<>> \in Seq(S)
    /\ ToSet(<<>>) = {} /\ Distinct(<<>>)
  <1>1. DOMAIN <<>> = {} /\ \A S : <<>> \in Seq(S)
    OBVIOUS
  <1>2. \A S : <<>> \in [{} -> S]
    OBVIOUS
  <1> QED
    BY <1>1, <1>2 DEF ToSet, Distinct

LEMMA InSeq ==
    ASSUME NEW S, NEW s \in Seq(S)
    PROVE  /\ DOMAIN s = 1 .. Len(s) /\ Len(s) \in Nat
           /\ ToSet(s) \subseteq S
           /\ \A x : x \in ToSet(s) <=> \E i \in 1 .. Len(s) : s[i] = x
  BY DEF ToSet

LEMMA JoinNone == ASSUME NEW S, NEW s \in Seq(S) PROVE s \o <<>> = s
  OBVIOUS

LEMMA JoinOne ==
    ASSUME NEW S, NEW s \in Seq(S), NEW l \in S, Distinct(s), l \notin ToSet(s)
    PROVE  /\ s \o <<l>> \in Seq(S)
           /\ Len(s \o <<l>>) = Len(s) + 1
           /\ Distinct(s \o <<l>>)
           /\ ToSet(s \o <<l>>) = ToSet(s) \union {l}
  <1> DEFINE t == s \o <<l>>
  <1>1. /\ t \in Seq(S) /\ Len(t) = Len(s) + 1 /\ Len(s) \in Nat
        /\ \A i \in 1 .. Len(s) : t[i] = s[i]
        /\ t[Len(s) + 1] = l
    OBVIOUS
  <1>2. DOMAIN t = 1 .. Len(s) + 1 /\ DOMAIN s = 1 .. Len(s)
    BY <1>1
  <1> HIDE DEF t
  <1>3. Distinct(t)
    BY <1>1, <1>2 DEF Distinct, ToSet
  <1>4. \A x : x \in ToSet(t) <=> x \in ToSet(s) \/ x = l
    BY <1>1, <1>2 DEF ToSet
  <1> QED
    BY <1>1, <1>3, <1>4 DEF t

LEMMA FirstNumbers ==
    ASSUME NEW n \in Nat PROVE IsFiniteSet(1 .. n) /\ Cardinality(1 .. n) = n
  <1>1. Cardinality(1 .. n) = IF 1 > n THEN 0 ELSE n - 1 + 1
    BY FS_Interval
  <1>2. IsFiniteSet(1 .. n)
    BY FS_Interval
  <1> QED
    BY <1>1, <1>2

(* A list without repetitions of some members of a set is not longer than  *)
(* the set, and has them all if it is as long.                             *)
LEMMA AllListed ==
    ASSUME NEW S, IsFiniteSet(S), NEW s \in Seq(S), Distinct(s)
    PROVE  /\ Len(s) <= Cardinality(S)
           /\ Len(s) = Cardinality(S) => S \subseteq ToSet(s)
  <1> DEFINE D == 1 .. Len(s)
  <1>1. s \in [D -> S] /\ Len(s) \in Nat
    OBVIOUS
  <1>2. s \in Injection(D, S)
    BY <1>1 DEF Injection, IsInjective, Distinct
  <1>3. IsFiniteSet(D) /\ Cardinality(D) = Len(s)
    BY <1>1, FirstNumbers
  <1>4. /\ Cardinality(D) <= Cardinality(S)
        /\ Cardinality(D) = Cardinality(S) => s \in Surjection(D, S)
    BY <1>2, FS_Injection
  <1>5. s \in Surjection(D, S) => S \subseteq ToSet(s)
    BY <1>1, InSeq DEF Surjection
  <1> QED
    BY <1>3, <1>4, <1>5

(* A shorter list leaves some out.                                         *)
LEMMA OneMissing ==
    ASSUME NEW S, IsFiniteSet(S), NEW s \in Seq(S), Len(s) < Cardinality(S)
    PROVE  \E x \in S : x \notin ToSet(s)
  <1> SUFFICES ASSUME S \subseteq ToSet(s) PROVE FALSE
    OBVIOUS
  <1> DEFINE D == 1 .. Len(s)
  <1>1. s \in [D -> S] /\ Len(s) \in Nat
    OBVIOUS
  <1>2. \A x \in S : \E i \in D : s[i] = x
    BY InSeq
  <1>6. s \in Surjection(D, S)
    BY <1>1, <1>2 DEF Surjection
  <1>3. IsFiniteSet(D) /\ Cardinality(D) = Len(s)
    BY <1>1, FirstNumbers
  <1>4. Cardinality(S) <= Cardinality(D)
    BY <1>6, <1>3, FS_Surjection
  <1>5. Cardinality(S) \in Nat
    BY FS_CardinalityType
  <1> QED
    BY <1>1, <1>3, <1>4, <1>5

(* ---------------------------- before runexp ---------------------------- *)

LEMMA Kinds ==
    /\ Running => pc \notin {"list", "failed", "gitlab"}
    /\ Intact => Running
    /\ \A o : Started(o) => Submitted(o)
    /\ \A o : Over(o) => Submitted(o)
  BY DEF Running, Intact, Started, Submitted, Over

Jobless == ~Running /\ (pc # "gitlab" => DOMAIN queue = {})

LEMMA NoJobs ==
    ListInv /\ BatchType /\ Jobless => SubmitInv /\ CodeInv /\ InOrder /\ StatusHonest
  <1> SUFFICES ASSUME ListInv, BatchType, Jobless
               PROVE  SubmitInv /\ CodeInv /\ InOrder /\ StatusHonest
    OBVIOUS
  <1>1. /\ job = <<>> /\ status = <<>> /\ exit = NoCode /\ canceled = {} /\ ~Intact
        /\ \A o \in DOMAIN queue : links = {}
    BY DEF ListInv, Intact, Running, Jobless
  <1>2. exit # 0 /\ DOMAIN status = {}
    BY <1>1, EmptyList, BuildbotAssumption
  <1>3. ~Running
    BY DEF Jobless
  <1>4. InOrder
    BY <1>1 DEF InOrder
  <1> QED
    BY <1>1, <1>2, <1>3, <1>4 DEF SubmitInv, CodeInv, StatusHonest

LEMMA InitBuildbot == Init => BuildbotInv
  <1> SUFFICES ASSUME Init PROVE BuildbotInv
    OBVIOUS
  <1>1. PICK p \in Programs : program = p.run /\ commands = p.commands
    BY DEF Init
  <1>2. ~Running /\ pc = "list" /\ DOMAIN queue = {} /\ IsFiniteSet(links)
    BY EmptyList, FS_EmptySet DEF Init, Running
  <1>3. ListInv
    <2>1. p.commands \in Seq(CommandSet) /\ (p.run.system = "GitLab" => p.commands = <<>>)
      BY BuildbotAssumption
    <2>2. commands \in Seq(CommandSet) /\ (program.system = "GitLab" => commands = <<>>)
      BY <1>1, <2>1
    <2> QED
      BY <1>2, <2>2 DEF ListInv, Init
  <1>4. BatchType
    BY <1>2, EmptyList DEF BatchType, Init
  <1> QED
    BY <1>2, <1>3, <1>4, NoJobs DEF BuildbotInv, Jobless

(* A command connects finitely many pairs.                                 *)
LEMMA FiniteLinks ==
    ASSUME NEW c, c.op = "adddep", c \in CommandSet, NEW n
    PROVE  IsFiniteSet(LinksOf(c, n))
  <1> DEFINE D == DOMAIN Connections(c)
             made == {Link(Connections(c)[i], e, <<n, i>>) : i \in D, e \in Ends(c)}
             f == [x \in D \X Ends(c) |-> Link(Connections(c)[x[1]], x[2], <<n, x[1]>>)]
  <1>1. IsFiniteSet(D)
    <2>1. D = DOMAIN c.to \/ D = DOMAIN c.from
      BY DEF Connections
    <2> QED
      BY <2>1, BuildbotAssumption
  <1>2. IsFiniteSet(Ends(c))
    <2>1. CASE c.across # <<>>
      BY <2>1, FS_Singleton DEF Ends
    <2>2. CASE c.across = <<>>
      <3> DEFINE B == Selected(c.where)
      <3>1. IsFiniteSet(DOMAIN Builders) /\ B \subseteq DOMAIN Builders
        BY BuildbotAssumption DEF Selected
      <3>2. Ends(c) = {<<b, b>> : b \in B}
        BY <2>2 DEF Ends
      <3> HIDE DEF B
      <3>3. IsFiniteSet(B)
        BY <3>1, FS_Subset
      <3>4. IsFiniteSet(B \X B)
        BY <3>3, FS_Product
      <3>5. Ends(c) \in SUBSET (B \X B)
        BY <3>2
      <3> QED
        BY <3>4, <3>5, FS_Subset
    <2> QED
      BY <2>1, <2>2
  <1>3. IsFiniteSet(D \X Ends(c))
    BY <1>1, <1>2, FS_Product
  <1> HIDE DEF D
  <1>4. \A x \in made : \E y \in D \X Ends(c) : f[y] = x
    <2> HIDE DEF made
    <2> TAKE x \in made
    <2>1. PICK i \in D, e \in Ends(c) : x = Link(Connections(c)[i], e, <<n, i>>)
      BY DEF made
    <2>2. <<i, e>> \in D \X Ends(c) /\ f[<<i, e>>] = Link(Connections(c)[i], e, <<n, i>>)
      OBVIOUS
    <2> QED
      BY <2>1, <2>2
  <1>5. f \in [D \X Ends(c) -> made]
    <2> SUFFICES ASSUME NEW x \in D \X Ends(c)
                 PROVE  Link(Connections(c)[x[1]], x[2], <<n, x[1]>>) \in made
      OBVIOUS
    <2> QED
      OBVIOUS
  <1>6. f \in Surjection(D \X Ends(c), made)
    <2> HIDE DEF f, made
    <2> QED
      BY <1>4, <1>5 DEF Surjection
  <1>7. IsFiniteSet(made)
    <2> HIDE DEF f, made
    <2> QED
      BY <1>3, <1>6, FS_Surjection
  <1> QED
    BY <1>7 DEF D, LinksOf

LEMMA ListStepKept == BuildbotInv /\ ListStep => BuildbotInv'
  <1> SUFFICES ASSUME BuildbotInv, ListStep PROVE BuildbotInv'
    OBVIOUS
  <1>0. ListInv /\ BatchType
    BY DEF BuildbotInv
  <1>1. /\ pc = "list" /\ pc' \in {"list", "failed"} /\ commands # <<>>
        /\ UNCHANGED <<program, runs, exit, batch>>
        /\ commands' \in {commands, Tail(commands)}
    BY DEF ListStep, AddExperiments, RemoveExperiments, SetBuilderFlag, AddDependency,
           RefuseDependency, Do
  <1>2. commands' \in Seq(CommandSet) /\ Head(commands) \in CommandSet
    BY <1>0, <1>1 DEF ListInv
  <1>3. IsFiniteSet(links')
    <2>1. CASE UNCHANGED links
      BY <1>0, <2>1 DEF ListInv
    <2>2. CASE AddDependency
      <3> DEFINE made == LinksOf(Command, Len(commands))
      <3>1. Command.op = "adddep" /\ Command \in CommandSet
        BY <1>2, <2>2 DEF AddDependency, Do, Command
      <3>2. IsFiniteSet(made)
        BY <3>1, FiniteLinks
      <3>3. links' = links \union {l \in made : l.from # None /\ l.to # None}
        BY <2>2 DEF AddDependency
      <3> HIDE DEF made
      <3>4. IsFiniteSet({l \in made : l.from # None /\ l.to # None})
        BY <3>2, FS_Subset
      <3> QED
        BY <1>0, <3>3, <3>4, FS_Union DEF ListInv
    <2> QED
      BY <2>1, <2>2 DEF ListStep, AddExperiments, RemoveExperiments, SetBuilderFlag, RefuseDependency, lists
  <1>4. ~Running /\ ~Running' /\ Jobless'
    BY <1>0, <1>1 DEF Running, ListInv, batch, Jobless
  <1>5. ListInv'
    BY <1>0, <1>1, <1>2, <1>3, <1>4 DEF ListInv, runs, batch
  <1>6. BatchType'
    BY <1>0, <1>1, <1>4 DEF BatchType, batch
  <1>7. SubmitInv' /\ CodeInv' /\ InOrder' /\ StatusHonest'
    BY <1>4, <1>5, <1>6, NoJobs, PTL
  <1> QED
    BY <1>5, <1>6, <1>7 DEF BuildbotInv

LEMMA TriggerKept == BuildbotInv /\ Trigger => BuildbotInv'
  <1> SUFFICES ASSUME BuildbotInv, Trigger PROVE BuildbotInv'
    OBVIOUS
  <1>0. ListInv /\ BatchType
    BY DEF BuildbotInv
  <1> DEFINE jobs == {<<j.name, program.builder, 0>> : j \in program.pipeline}
  <1>1. /\ pc = "list" /\ commands = <<>> /\ program.system = "GitLab"
        /\ UNCHANGED <<program, commands, links, runs, exit, canceled>>
        /\ queue' = [o \in jobs |-> "pending"] /\ code' = [o \in jobs |-> NoCode]
        /\ pc' = IF jobs = {} THEN "failed" ELSE "gitlab"
    BY DEF Trigger
  <1> HIDE DEF jobs
  <1>2. ~Running /\ Jobless'
    BY <1>0, <1>1 DEF Running, Jobless
  <1>3. ListInv'
    BY <1>0, <1>1, <1>2 DEF ListInv, Jobless, Running, runs
  <1>4. BatchType'
    BY <1>0, <1>1, <1>2 DEF BatchType, ListInv, Jobless, States, Codes
  <1>5. SubmitInv' /\ CodeInv' /\ InOrder' /\ StatusHonest'
    BY <1>2, <1>3, <1>4, NoJobs, PTL
  <1> QED
    BY <1>3, <1>4, <1>5 DEF BuildbotInv

LEMMA BuildKept == BuildbotInv /\ Build => BuildbotInv'
  <1> SUFFICES ASSUME BuildbotInv, Build PROVE BuildbotInv'
    OBVIOUS
  <1>0. ListInv /\ BatchType
    BY DEF BuildbotInv
  <1>1. /\ pc = "list" /\ ~Running /\ program.system \in Systems /\ program.system # "GitLab"
        /\ UNCHANGED <<program, commands, lists, calls, running, incomplete, status, exit, canceled>>
    BY DEF Build, Running, Systems, CommandLine
  <1>2. CASE pc' = "failed" /\ UNCHANGED <<todo, job, queue, code>>
    <2>1. Jobless'
      BY <1>0, <1>1, <1>2 DEF Running, Jobless, ListInv
    <2>2. ListInv'
      BY <1>0, <1>1, <1>2, <2>1 DEF ListInv, Jobless, Running, lists
    <2>3. BatchType'
      BY <1>0, <1>1, <1>2, <2>1 DEF BatchType, ListInv, Jobless, lists
    <2>4. SubmitInv' /\ CodeInv' /\ InOrder' /\ StatusHonest'
      BY <2>1, <2>2, <2>3, NoJobs, PTL
    <2> QED
      BY <2>2, <2>3, <2>4 DEF BuildbotInv
  <1>3. CASE /\ pc' = "submit" /\ todo' = Mine
             /\ job' = [o \in Mine |-> NoJob] /\ queue' = [o \in Mine |-> "none"]
             /\ code' = [o \in Mine |-> NoCode]
    <2> DEFINE M == Mine
    <2>1. /\ pc' = "submit" /\ todo' = M /\ DOMAIN job' = M /\ DOMAIN queue' = M /\ DOMAIN code' = M
          /\ \A o \in M : job'[o] = NoJob /\ queue'[o] = "none" /\ code'[o] = NoCode
          /\ Running' /\ Intact'
      BY <1>3 DEF Running, Intact
    <2>2. /\ calls' = <<>> /\ status' = <<>> /\ exit' = NoCode /\ canceled' = {} /\ links' = links
          /\ program' = program /\ commands' = commands
      BY <1>0, <1>1 DEF ListInv, lists
    <2>3. ListInv'
      BY <1>0, <1>1, <2>1, <2>2 DEF ListInv
    <2>4. BatchType'
      <3>1. NoJob \in JobType'
        BY <2>2, EmptyList DEF NoJob, JobType, Codes
      <3> QED
        BY <1>3, <2>1, <2>2, <3>1 DEF BatchType, States, Codes
    <2>5. /\ \A o : ~Submitted(o)' \/ o \notin M
          /\ \A o \in M : Got(o)' = {} /\ job'[o].parents = <<>> /\ ~job'[o].jobid /\ job'[o].returncode = NoCode
      BY <2>1, EmptyList DEF Submitted, Got, NoJob
    <2>6. JobInv'
      BY <2>1, <2>5, EmptyList DEF JobInv
    <2>7. CallInv'
      BY <2>1, <2>2, EmptyList DEF CallInv
    <2>8. ArrivalInv' /\ OnceInv'
      BY <2>1, <2>5 DEF ArrivalInv, OnceInv
    <2>9. CodeInv' /\ InOrder' /\ StatusHonest'
      <3>1. exit' # 0 /\ DOMAIN status' = {}
        BY <2>2, EmptyList, BuildbotAssumption
      <3> QED
        BY <2>1, <2>2, <2>5, <3>1 DEF CodeInv, InOrder, StatusHonest, Started
    <2> QED
      BY <2>3, <2>4, <2>6, <2>7, <2>8, <2>9 DEF BuildbotInv, SubmitInv
  <1> QED
    BY <1>2, <1>3 DEF Build

(* ------------------------- beside the submission ----------------------- *)

(* Steps that submit nothing and call nothing.                             *)
LEMMA ViewKept ==
    ASSUME SubmitInv, Running, UNCHANGED <<program, links, calls, todo>>,
           Intact' => Intact, pc' # "submit" => ~Intact' \/ (calls = <<>> /\ todo = {}),
           DOMAIN job' = DOMAIN job,
           \A o \in DOMAIN job : /\ job'[o].jobid = job[o].jobid /\ job'[o].parents = job[o].parents
                                 /\ (queue'[o] # "none") = (queue[o] # "none")
    PROVE  SubmitInv'
  <1>1. /\ \A o : Parents(o)' = Parents(o)
        /\ \A o \in DOMAIN job : Got(o)' = Got(o) /\ (Submitted(o)' <=> Submitted(o))
    BY DEF Parents, Got, Submitted
  <1>2. JobInv'
    BY <1>1 DEF JobInv, SubmitInv
  <1>3. ASSUME Intact' PROVE CallInv' /\ ArrivalInv' /\ OnceInv'
    <2>1. CallInv /\ ArrivalInv /\ OnceInv
      BY <1>3 DEF SubmitInv
    <2>2. \A i \in DOMAIN calls : /\ Inner(calls[i]) => Inner(calls[i])'
                                  /\ Outer(calls[i]) => Outer(calls[i])'
      BY <1>1 DEF Inner, Outer
    <2>3. CallInv'
      BY <1>3, <2>1, <2>2 DEF CallInv
    <2>4. /\ \A l : Pending(l)' = Pending(l)
          /\ \A o : Asked(o)' = Asked(o)
      BY DEF Pending, Asked
    <2>5. ArrivalInv'
      BY <1>1, <2>1, <2>4 DEF ArrivalInv
    <2>6. OnceInv'
      BY <1>1, <2>1, <2>4 DEF OnceInv
    <2> QED
      BY <2>3, <2>5, <2>6
  <1> QED
    BY <1>2, <1>3 DEF SubmitInv

(* runexp takes a return code, goes on or ends; batch systems do nothing.  *)
LEMMA WaitedKept == BuildbotInv /\ Waited => BuildbotInv'
  <1> SUFFICES ASSUME BuildbotInv, Waited PROVE BuildbotInv'
    OBVIOUS
  <1>0. ListInv /\ BatchType /\ SubmitInv /\ CodeInv /\ InOrder /\ StatusHonest
    BY DEF BuildbotInv
  <1>1. /\ pc = "submit" /\ Over(running) /\ running # None
        /\ UNCHANGED <<pc, program, commands, lists, todo, calls, incomplete, status, exit, batch>>
        /\ job' = IF program.system = CommandLine THEN [job EXCEPT ![running].returncode = code[running]] ELSE job
        /\ Running /\ Running'
    BY DEF Waited, Running
  <1>2. UNCHANGED <<pc, program, commands, links, todo, calls, status, exit, queue, code, canceled>>
    BY <1>1 DEF lists, batch
  <1>3. /\ DOMAIN job = DOMAIN queue /\ job \in [DOMAIN job -> JobType]
        /\ code \in [DOMAIN queue -> Codes]
    BY <1>0, <1>1 DEF BatchType
  <1>4. /\ DOMAIN job' = DOMAIN job
        /\ \A o \in DOMAIN job :
              /\ job'[o].jobid = job[o].jobid /\ job'[o].parents = job[o].parents
              /\ job'[o].returncode = job[o].returncode \/ (Over(o) /\ job'[o].returncode = code[o])
              /\ job'[o] \in JobType
    <2>1. CASE job' = job
      BY <1>3, <2>1
    <2>2. CASE job' = [job EXCEPT ![running].returncode = code[running]]
      <3>1. PICK p : p = running
        OBVIOUS
      <3>2. job' = [job EXCEPT ![p].returncode = code[p]] /\ Over(p)
        BY <1>1, <2>2, <3>1
      <3> QED
        BY <1>3, <3>2 DEF JobType
    <2> QED
      BY <1>1, <2>1, <2>2
  <1>5. ListInv'
    BY <1>0, <1>1, <1>2 DEF ListInv
  <1>6. BatchType'
    <2>1. job' \in [DOMAIN job -> JobType]
      <3>1. CASE job' = job
        BY <1>3, <3>1
      <3>2. CASE job' = [job EXCEPT ![running].returncode = code[running]]
        BY <1>3, <1>4, <3>2
      <3> QED
        BY <1>1, <3>1, <3>2
    <2>2. JobType' = JobType
      BY <1>2 DEF JobType, Codes
    <2> QED
      BY <1>0, <1>1, <1>2, <1>3, <1>4, <2>1, <2>2 DEF BatchType
  <1>7. SubmitInv'
    BY <1>0, <1>1, <1>2, <1>4, ViewKept DEF Intact
  <1>8. CodeInv'
    <2>1. \A o : Over(o)' = Over(o)
      BY <1>2 DEF Over
    <2>2. ASSUME NEW o \in DOMAIN job', job'[o].returncode # NoCode
          PROVE  Over(o)' /\ job'[o].returncode = code'[o]
      BY <1>0, <1>1, <1>2, <1>4, <2>1, <2>2 DEF CodeInv
    <2> QED
      BY <1>0, <1>1, <1>2, <2>1, <2>2 DEF CodeInv
  <1>9. InOrder' /\ StatusHonest'
    BY <1>0, <1>2, <1>4 DEF InOrder, StatusHonest, Started, Over, Well, Good
  <1> QED
    BY <1>5, <1>6, <1>7, <1>8, <1>9 DEF BuildbotInv

LEMMA InstallHandlersKept == BuildbotInv /\ InstallHandlers => BuildbotInv'
  <1> SUFFICES ASSUME BuildbotInv, InstallHandlers PROVE BuildbotInv'
    OBVIOUS
  <1>0. ListInv /\ BatchType /\ SubmitInv /\ CodeInv /\ InOrder /\ StatusHonest
    BY DEF BuildbotInv
  <1>1. /\ pc = "submit" /\ pc' = "wait" /\ calls = <<>> /\ todo = {}
        /\ UNCHANGED <<program, commands, lists, todo, calls, job, running, status, exit, batch>>
        /\ Running /\ Running' /\ Intact /\ Intact'
    BY DEF InstallHandlers, Running, Idle, Intact
  <1>2. UNCHANGED <<program, commands, links, todo, calls, job, status, exit, queue, code, canceled>>
    BY <1>1 DEF lists, batch
  <1>5. ListInv'
    BY <1>0, <1>1, <1>2 DEF ListInv
  <1>6. BatchType'
    BY <1>0, <1>1, <1>2 DEF BatchType, JobType, Codes
  <1>7. SubmitInv'
    BY <1>0, <1>1, <1>2, ViewKept
  <1>8. CodeInv' /\ InOrder' /\ StatusHonest'
    BY <1>0, <1>1, <1>2 DEF CodeInv, Over, InOrder, StatusHonest, Started, Well, Good
  <1> QED
    BY <1>5, <1>6, <1>7, <1>8 DEF BuildbotInv

LEMMA PollKept == BuildbotInv /\ Poll => BuildbotInv'
  <1> SUFFICES ASSUME BuildbotInv, Poll PROVE BuildbotInv'
    OBVIOUS
  <1>0. ListInv /\ BatchType /\ SubmitInv /\ CodeInv /\ InOrder /\ StatusHonest
    BY DEF BuildbotInv
  <1>1. PICK p \in incomplete :
            /\ pc = "wait"
            /\ job' = job \/ (Over(p) /\ job' = [job EXCEPT ![p].returncode = code[p]])
            /\ UNCHANGED <<pc, program, commands, lists, todo, calls, running, status, exit, batch>>
            /\ Running /\ Running'
    BY DEF Poll, Running
  <1>2. UNCHANGED <<pc, program, commands, links, todo, calls, status, exit, queue, code, canceled>>
    BY <1>1 DEF lists, batch
  <1>3. /\ DOMAIN job = DOMAIN queue /\ job \in [DOMAIN job -> JobType]
        /\ code \in [DOMAIN queue -> Codes]
    BY <1>0, <1>1 DEF BatchType
  <1>4. /\ DOMAIN job' = DOMAIN job
        /\ \A o \in DOMAIN job :
              /\ job'[o].jobid = job[o].jobid /\ job'[o].parents = job[o].parents
              /\ job'[o].returncode = job[o].returncode \/ (Over(o) /\ job'[o].returncode = code[o])
              /\ job'[o] \in JobType
    <2>1. CASE job' = job
      BY <1>3, <2>1
    <2>2. CASE Over(p) /\ job' = [job EXCEPT ![p].returncode = code[p]]
      BY <1>1, <1>3, <2>2 DEF JobType
    <2> QED
      BY <1>1, <2>1, <2>2
  <1>5. ListInv'
    BY <1>0, <1>1, <1>2 DEF ListInv
  <1>6. BatchType'
    <2>1. job' \in [DOMAIN job -> JobType]
      <3>1. CASE job' = job
        BY <1>3, <3>1
      <3>2. CASE job' = [job EXCEPT ![p].returncode = code[p]]
        BY <1>3, <1>4, <3>2
      <3> QED
        BY <1>1, <3>1, <3>2
    <2>2. JobType' = JobType
      BY <1>2 DEF JobType, Codes
    <2> QED
      BY <1>0, <1>1, <1>2, <1>3, <1>4, <2>1, <2>2 DEF BatchType
  <1>7. SubmitInv'
    <2>1. calls = <<>> /\ todo = {}
      BY <1>0, <1>1 DEF SubmitInv, CallInv, Intact
    <2> QED
      BY <1>0, <1>1, <1>2, <1>4, <2>1, ViewKept DEF Intact
  <1>8. CodeInv'
    <2>1. \A o : Over(o)' = Over(o)
      BY <1>2 DEF Over
    <2>2. ASSUME NEW o \in DOMAIN job', job'[o].returncode # NoCode
          PROVE  Over(o)' /\ job'[o].returncode = code'[o]
      BY <1>0, <1>1, <1>2, <1>4, <2>1, <2>2 DEF CodeInv
    <2> QED
      BY <1>0, <1>1, <1>2, <2>1, <2>2 DEF CodeInv
  <1>9. InOrder' /\ StatusHonest'
    BY <1>0, <1>2, <1>4 DEF InOrder, StatusHonest, Started, Over, Well, Good
  <1> QED
    BY <1>5, <1>6, <1>7, <1>8, <1>9 DEF BuildbotInv

LEMMA PollNothingKept == BuildbotInv /\ PollNothing => BuildbotInv'
  <1> SUFFICES ASSUME BuildbotInv, PollNothing PROVE BuildbotInv'
    OBVIOUS
  <1>0. ListInv /\ BatchType /\ SubmitInv /\ CodeInv /\ InOrder /\ StatusHonest
    BY DEF BuildbotInv
  <1>1. /\ pc = "wait" /\ pc' = "crashed" /\ exit' = 1
        /\ UNCHANGED <<program, commands, lists, runs, batch>>
        /\ Running /\ Running' /\ Intact
    BY DEF PollNothing, Quit, Running, Intact
  <1>2. UNCHANGED <<program, commands, links, todo, calls, job, status, queue, code, canceled>>
    BY <1>1 DEF lists, batch, runs
  <1>3. calls = <<>> /\ todo = {}
    BY <1>0, <1>1 DEF SubmitInv, CallInv
  <1>5. ListInv'
    BY <1>0, <1>1, <1>2 DEF ListInv
  <1>6. BatchType'
    BY <1>0, <1>1, <1>2 DEF BatchType, JobType, Codes
  <1>7. SubmitInv'
    BY <1>0, <1>1, <1>2, <1>3, ViewKept
  <1>8. CodeInv' /\ InOrder' /\ StatusHonest'
    BY <1>0, <1>1, <1>2 DEF CodeInv, Over, InOrder, StatusHonest, Started, Well, Good
  <1> QED
    BY <1>5, <1>6, <1>7, <1>8 DEF BuildbotInv

(* What the file calls OK has ended well.                                  *)
LEMMA OnlyWell ==
    ASSUME CodeInv, BatchType, Running, NEW o \in DOMAIN job, StatusFile[o] # "FAILED"
    PROVE  Well(o)
  <1>1. job[o].returncode # NoCode /\ ~Failed(o, job[o].returncode)
    BY DEF StatusFile
  <1>2. Over(o) /\ code[o] = 0 /\ ~WasCanceled(o)
    BY <1>1 DEF CodeInv, Failed
  <1>3. o \notin canceled
    BY <1>2 DEF CodeInv, WasCanceled
  <1>4. o \in DOMAIN queue
    BY DEF BatchType
  <1>5. queue[o] = "ended"
    BY <1>2, <1>3, <1>4 DEF CodeInv, Over
  <1> QED
    BY <1>2, <1>3, <1>5 DEF Well, Good

LEMMA ReportKept == BuildbotInv /\ Report => BuildbotInv'
  <1> SUFFICES ASSUME BuildbotInv, Report PROVE BuildbotInv'
    OBVIOUS
  <1>0. ListInv /\ BatchType /\ SubmitInv /\ CodeInv /\ InOrder /\ StatusHonest
    BY DEF BuildbotInv
  <1>1. /\ pc = "wait" /\ pc' = "exited" /\ status' = StatusFile
        /\ exit' = IF \E o \in DOMAIN job : StatusFile[o] = "FAILED" THEN 1 ELSE 0
        /\ UNCHANGED <<program, commands, lists, todo, calls, job, running, incomplete, batch>>
        /\ Running /\ Running' /\ ~Intact'
    BY DEF Report, Running, Intact
  <1>2. UNCHANGED <<program, commands, links, todo, calls, job, queue, code, canceled>>
    BY <1>1 DEF lists, batch
  <1>5. ListInv'
    BY <1>0, <1>1, <1>2 DEF ListInv
  <1>6. BatchType'
    BY <1>0, <1>1, <1>2 DEF BatchType, JobType, Codes
  <1>7. SubmitInv'
    BY <1>0, <1>1, <1>2, ViewKept
  <1>8. CodeInv' /\ InOrder'
    <2>1. DOMAIN status' = DOMAIN job
      BY <1>1 DEF StatusFile
    <2> QED
      BY <1>0, <1>1, <1>2, <2>1 DEF CodeInv, Over, InOrder, Started
  <1>9. StatusHonest'
    <2>1. \A o : Well(o)' = Well(o)
      BY <1>2 DEF Well, Good
    <2>2. DOMAIN status' = DOMAIN job
      BY <1>1 DEF StatusFile
    <2>3. \A o \in DOMAIN status' : status'[o] = "OK" => Well(o)'
      BY <1>0, <1>1, <2>1, <2>2, OnlyWell
    <2>4. exit' = 0 => \A o \in DOMAIN job : StatusFile[o] # "FAILED"
      BY <1>1
    <2> QED
      BY <1>0, <1>1, <1>2, <2>1, <2>3, <2>4, OnlyWell DEF StatusHonest
  <1> QED
    BY <1>5, <1>6, <1>7, <1>8, <1>9 DEF BuildbotInv

(* --------------------------- jobs and signals -------------------------- *)

(* What is over stays as it is, and a cancellation ends a job as the batch *)
(* system does.                                                            *)
Settled(o) == Over(o) => /\ queue'[o] = queue[o] /\ code'[o] = code[o]
                         /\ o \in canceled' => o \in canceled
Orderly ==
    /\ UNCHANGED <<program, commands, links, todo, calls, job>>
    /\ queue' \in [DOMAIN queue -> States] /\ code' \in [DOMAIN queue -> Codes]
    /\ canceled \subseteq canceled' /\ canceled' \subseteq DOMAIN queue
    /\ \A o \in DOMAIN queue :
          /\ Submitted(o)' <=> Submitted(o)
          /\ Settled(o)
          /\ o \in canceled' \ canceled =>
                Over(o)' /\ (code'[o] = 1 \/ program.system \in {"Slurm", "SerialSlurm"})
          /\ queue'[o] = "skipped" /\ queue[o] # "skipped" => o \in canceled'
          /\ Started(o)' /\ ~Started(o) => queue[o] = "pending" /\ Ready(o)

LEMMA OrderlyKept ==
    ASSUME BuildbotInv, Running, Orderly, Running', Intact' => Intact,
           pc' # "submit" => ~Intact' \/ (calls = <<>> /\ todo = {}),
           pc' # "exited" => exit' # 0 /\ status' = <<>>,
           DOMAIN status' \subseteq DOMAIN job
    PROVE  ListInv' /\ BatchType' /\ SubmitInv' /\ CodeInv' /\ InOrder'
  <1>0. ListInv /\ BatchType /\ SubmitInv /\ CodeInv /\ InOrder
    BY DEF BuildbotInv
  <1>1. /\ UNCHANGED <<program, commands, links, todo, calls, job>>
        /\ DOMAIN queue' = DOMAIN queue /\ DOMAIN job = DOMAIN queue
        /\ job \in [DOMAIN job -> JobType]
    BY <1>0 DEF Orderly, BatchType
  <1>2. ListInv'
    BY <1>0, <1>1, Kinds DEF ListInv, Running
  <1>3. BatchType'
    <2>1. JobType' = JobType
      BY <1>1 DEF JobType, Codes
    <2> QED
      BY <1>0, <1>1, <2>1 DEF BatchType, Orderly
  <1>4. SubmitInv'
    <2>1. \A o \in DOMAIN job : (queue'[o] # "none") = (queue[o] # "none")
      BY <1>1 DEF Orderly, Submitted
    <2> QED
      BY <1>0, <1>1, <2>1, ViewKept
  <1>5. \A o \in DOMAIN queue : Over(o) => Over(o)' /\ code'[o] = code[o]
    BY DEF Orderly, Settled, Over
  <1>6. CodeInv'
    <2>1. \A o \in DOMAIN job : job[o].returncode # NoCode => Over(o)' /\ job[o].returncode = code'[o]
      BY <1>0, <1>1, <1>5 DEF CodeInv
    <2>2. ASSUME NEW o \in canceled'
          PROVE  Over(o)' /\ (code'[o] = 1 \/ program.system \in {"Slurm", "SerialSlurm"})
      <3>1. o \in DOMAIN queue
        BY DEF Orderly
      <3>2. CASE o \in canceled
        BY <1>0, <1>5, <3>1, <3>2 DEF CodeInv
      <3>3. CASE o \notin canceled
        BY <3>1, <3>3 DEF Orderly
      <3> QED
        BY <3>2, <3>3
    <2>3. ASSUME NEW o \in DOMAIN queue, queue'[o] = "skipped" PROVE o \in canceled'
      <3>1. CASE queue[o] = "skipped"
        <4>1. o \in canceled
          BY <1>0, <3>1 DEF CodeInv
        <4> QED
          BY <4>1, <2>3 DEF Orderly
      <3>2. CASE queue[o] # "skipped"
        BY <2>3, <3>2 DEF Orderly
      <3> QED
        BY <3>1, <3>2
    <2> QED
      BY <1>1, <2>1, <2>2, <2>3 DEF CodeInv
  <1>7. InOrder'
    <2> SUFFICES ASSUME NEW l \in links, l.from \in DOMAIN queue, l.to \in DOMAIN queue, Started(l.from)'
                 PROVE  Over(l.to)'
      BY <1>1 DEF InOrder
    <2>1. CASE Started(l.from)
      BY <1>0, <1>5, <2>1 DEF InOrder
    <2>2. CASE ~Started(l.from)
      <3>1. queue[l.from] = "pending" /\ Ready(l.from) /\ ~GitLab
        BY <2>2 DEF Orderly, Running, GitLab
      <3>2. l \in Got(l.from)
        BY <1>0, <1>1, <3>1 DEF SubmitInv, JobInv, Submitted, Parents
      <3>3. Over(l.to)
        BY <3>1, <3>2 DEF Ready, Released, Got
      <3> QED
        BY <1>5, <3>3
    <2> QED
      BY <2>1, <2>2
  <1> QED
    BY <1>2, <1>3, <1>4, <1>6, <1>7

(* Nothing that is reported is affected.                                   *)
LEMMA ReportedKept ==
    ASSUME BatchType, CodeInv, StatusHonest, Running, Orderly, UNCHANGED <<status, exit>>
    PROVE  StatusHonest'
  <1>1. \A o \in DOMAIN queue : Well(o) => Well(o)'
    BY DEF Orderly, Settled, Well, Good, Over
  <1>2. DOMAIN status \subseteq DOMAIN queue /\ DOMAIN job = DOMAIN queue /\ job' = job
    BY DEF CodeInv, BatchType, Orderly
  <1> QED
    BY <1>1, <1>2 DEF StatusHonest

LEMMA StartJobKept ==
    ASSUME BuildbotInv, Running, NEW o \in DOMAIN queue, StartJob(o) PROVE BuildbotInv'
  <1>0. BatchType /\ SubmitInv /\ CodeInv /\ StatusHonest
    BY DEF BuildbotInv
  <1>1. /\ queue[o] = "pending" /\ Ready(o) /\ queue' = [queue EXCEPT ![o] = "running"]
        /\ UNCHANGED <<pc, program, commands, links, todo, calls, job, status, exit, code, canceled>>
    BY DEF StartJob, lists, runs
  <1>2. Orderly
    <2>1. queue \in [DOMAIN queue -> States] /\ code \in [DOMAIN queue -> Codes] /\ canceled \subseteq DOMAIN queue
      BY <1>0 DEF BatchType
    <2>2. queue' \in [DOMAIN queue -> States]
      BY <1>1, <2>1 DEF States
    <2> QED
      BY <1>1, <2>1, <2>2 DEF Orderly, Settled, Submitted, Started, Over
  <1>3. /\ Running' /\ (Intact' <=> Intact)
        /\ pc # "exited" => exit' # 0 /\ status' = <<>>
        /\ DOMAIN status' \subseteq DOMAIN job
    BY <1>0, <1>1 DEF Running, Intact, CodeInv
  <1>4. pc # "submit" => ~Intact \/ (calls = <<>> /\ todo = {})
    BY <1>0 DEF SubmitInv, CallInv
  <1>5. ListInv' /\ BatchType' /\ SubmitInv' /\ CodeInv' /\ InOrder'
    BY <1>1, <1>2, <1>3, <1>4, OrderlyKept
  <1> QED
    BY <1>0, <1>1, <1>2, <1>5, ReportedKept DEF BuildbotInv

LEMMA EndJobKept ==
    ASSUME BuildbotInv, Running, NEW o \in DOMAIN queue, EndJob(o) PROVE BuildbotInv'
  <1>0. BatchType /\ SubmitInv /\ CodeInv /\ StatusHonest
    BY DEF BuildbotInv
  <1>1. /\ queue[o] = "running" /\ queue' = [queue EXCEPT ![o] = "ended"]
        /\ UNCHANGED <<pc, program, commands, links, todo, calls, job, status, exit, canceled>>
    BY DEF EndJob, lists, runs
  <1>6. PICK c \in {0, 1} : code' = [code EXCEPT ![o] = c]
    BY DEF EndJob
  <1>2. Orderly
    <2>1. queue \in [DOMAIN queue -> States] /\ code \in [DOMAIN queue -> Codes] /\ canceled \subseteq DOMAIN queue
      BY <1>0 DEF BatchType
    <2>2. queue' \in [DOMAIN queue -> States] /\ code' \in [DOMAIN queue -> Codes]
      BY <1>1, <1>6, <2>1 DEF States, Codes
    <2> QED
      BY <1>1, <1>6, <2>1, <2>2 DEF Orderly, Settled, Submitted, Started, Over
  <1>3. /\ Running' /\ (Intact' <=> Intact)
        /\ pc # "exited" => exit' # 0 /\ status' = <<>>
        /\ DOMAIN status' \subseteq DOMAIN job
    BY <1>0, <1>1 DEF Running, Intact, CodeInv
  <1>4. pc # "submit" => ~Intact \/ (calls = <<>> /\ todo = {})
    BY <1>0 DEF SubmitInv, CallInv
  <1>5. ListInv' /\ BatchType' /\ SubmitInv' /\ CodeInv' /\ InOrder'
    BY <1>1, <1>2, <1>3, <1>4, OrderlyKept
  <1> QED
    BY <1>0, <1>1, <1>2, <1>5, ReportedKept DEF BuildbotInv

(* A cancellation of jobs that are alive, by the user or at a signal.      *)
LEMMA CancelOrderly ==
    ASSUME BatchType, Running, NEW S \in SUBSET DOMAIN queue, Cancel(S), \A o \in S : Alive(o),
           S = {} \/ program.system \in Systems \ {CommandLine},
           UNCHANGED <<program, commands, links, todo, calls, job>>
    PROVE  Orderly
  <1>1. queue \in [DOMAIN queue -> States] /\ code \in [DOMAIN queue -> Codes] /\ canceled \subseteq DOMAIN queue
    BY DEF BatchType
  <1>2. /\ queue' = [o \in DOMAIN queue |-> IF o \notin S THEN queue[o]
                                            ELSE IF queue[o] = "running" THEN "ended" ELSE "skipped"]
        /\ code' = [o \in DOMAIN code |-> IF o \in S THEN CancelCode(o) ELSE code[o]]
        /\ canceled' = canceled \union S
        /\ \A o \in S : queue[o] \in {"pending", "running"}
    BY DEF Cancel, Alive
  <1>3. \A o \in DOMAIN queue : CancelCode(o) \in {0, 1}
    BY DEF CancelCode
  <1>4. queue' \in [DOMAIN queue -> States] /\ code' \in [DOMAIN queue -> Codes]
    BY <1>1, <1>2, <1>3 DEF States, Codes
  <1>5. ASSUME NEW o \in S PROVE code'[o] = 1 \/ program.system \in {"Slurm", "SerialSlurm"}
    BY <1>1, <1>2 DEF CancelCode, Systems
  <1>6. ASSUME NEW o \in DOMAIN queue
        PROVE  /\ Submitted(o)' <=> Submitted(o)
               /\ Settled(o)
               /\ o \in canceled' \ canceled =>
                     Over(o)' /\ (code'[o] = 1 \/ program.system \in {"Slurm", "SerialSlurm"})
               /\ queue'[o] = "skipped" /\ queue[o] # "skipped" => o \in canceled'
               /\ Started(o)' => Started(o)
    BY <1>1, <1>2, <1>5 DEF Settled, Submitted, Started, Over
  <1> QED
    BY <1>1, <1>2, <1>4, <1>6 DEF Orderly

LEMMA UserCancelKept == BuildbotInv /\ Running /\ UserCancel => BuildbotInv'
  <1> SUFFICES ASSUME BuildbotInv, Running, UserCancel PROVE BuildbotInv'
    OBVIOUS
  <1>0. ListInv /\ BatchType /\ SubmitInv /\ CodeInv /\ StatusHonest
    BY DEF BuildbotInv
  <1>1. PICK o \in DOMAIN queue : Alive(o) /\ Cancel({o})
    BY DEF UserCancel
  <1>6. UNCHANGED <<pc, program, commands, links, todo, calls, job, status, exit>>
    BY DEF UserCancel, lists, runs
  <1>2. Orderly
    <2>1. program.system \in Systems \ {CommandLine}
      BY <1>0 DEF UserCancel, ListInv
    <2> QED
      BY <1>0, <1>1, <1>6, <2>1, CancelOrderly
  <1>3. /\ Running' /\ (Intact' <=> Intact)
        /\ pc # "exited" => exit' # 0 /\ status' = <<>>
        /\ DOMAIN status' \subseteq DOMAIN job
    BY <1>0, <1>6 DEF Running, Intact, CodeInv
  <1>4. pc # "submit" => ~Intact \/ (calls = <<>> /\ todo = {})
    BY <1>0 DEF SubmitInv, CallInv
  <1>5. ListInv' /\ BatchType' /\ SubmitInv' /\ CodeInv' /\ InOrder'
    BY <1>6, <1>2, <1>3, <1>4, OrderlyKept
  <1> QED
    BY <1>0, <1>6, <1>2, <1>5, ReportedKept DEF BuildbotInv

LEMMA SignalKept == BuildbotInv /\ Signal => BuildbotInv'
  <1> SUFFICES ASSUME BuildbotInv, Signal PROVE BuildbotInv'
    OBVIOUS
  <1>0. ListInv /\ BatchType /\ SubmitInv /\ CodeInv /\ InOrder /\ StatusHonest
    BY DEF BuildbotInv
  <1>1. /\ pc \in {"submit", "wait"} /\ Running
        /\ UNCHANGED <<program, commands, links, todo, calls, job>>
    BY DEF Signal, lists, Running
  <1>2. CASE pc' = "killed" /\ UNCHANGED <<exit, status, batch>>
    <2>1. UNCHANGED <<queue, code, canceled>> /\ Running' /\ ~Intact' /\ exit # 0 /\ status = <<>>
      BY <1>0, <1>1, <1>2 DEF batch, Running, Intact, CodeInv
    <2>2. Orderly
      BY <1>0, <1>1, <2>1 DEF Orderly, BatchType, Settled, Submitted, Started, Over
    <2>3. ListInv' /\ BatchType' /\ SubmitInv' /\ CodeInv' /\ InOrder'
      <3>1. DOMAIN status' \subseteq DOMAIN job
        BY <1>0, <1>2 DEF CodeInv
      <3> QED
        BY <1>1, <1>2, <2>1, <2>2, <3>1, OrderlyKept
    <2> QED
      BY <1>0, <1>1, <1>2, <2>2, <2>3, ReportedKept DEF BuildbotInv
  <1>3. CASE /\ pc = "wait" /\ pc' = "exited" /\ exit' = 1
             /\ Cancel({o \in DOMAIN job : job[o].jobid /\ Alive(o)}) /\ status' = StatusFile
    <2> DEFINE S == {o \in DOMAIN job : job[o].jobid /\ Alive(o)}
    <2>1. S \in SUBSET DOMAIN queue /\ (S = {} \/ program.system \in Systems \ {CommandLine})
      BY <1>0, <1>1 DEF ListInv, SubmitInv, JobInv, BatchType
    <2>2. Cancel(S) /\ \A o \in S : Alive(o)
      BY <1>3
    <2> HIDE DEF S
    <2>3. Orderly
      BY <1>0, <1>1, <2>1, <2>2, CancelOrderly
    <2>4. Running' /\ ~Intact' /\ DOMAIN status' = DOMAIN job
      BY <1>3 DEF Running, Intact, StatusFile
    <2>5. ListInv' /\ BatchType' /\ SubmitInv' /\ CodeInv' /\ InOrder'
      BY <1>1, <1>3, <2>3, <2>4, OrderlyKept
    <2>6. StatusHonest'
      <3>1. \A o \in DOMAIN queue : Well(o) => Well(o)'
        BY <2>3 DEF Orderly, Settled, Well, Good, Over
      <3>2. \A o \in DOMAIN job : status'[o] = "OK" => Well(o) /\ o \in DOMAIN queue
        BY <1>0, <1>1, <1>3, OnlyWell DEF BatchType
      <3> QED
        BY <1>3, <2>4, <3>1, <3>2 DEF StatusHonest
    <2> QED
      BY <2>5, <2>6 DEF BuildbotInv
  <1> QED
    BY <1>2, <1>3 DEF Signal

LEMMA DisturbedKept == BuildbotInv /\ (BatchStep \/ UserCancel) => BuildbotInv'
  <1> SUFFICES ASSUME BuildbotInv, BatchStep \/ UserCancel PROVE BuildbotInv'
    OBVIOUS
  <1>0. ListInv /\ BatchType
    BY DEF BuildbotInv
  <1>1. CASE Running
    <2>1. CASE BatchStep
      <3>1. \A o \in DOMAIN queue : ~SkipJob(o)
        BY <1>1 DEF SkipJob, GitLab, Running
      <3>2. PICK o \in DOMAIN queue : StartJob(o) \/ EndJob(o)
        BY <2>1, <3>1 DEF BatchStep
      <3> QED
        BY <1>1, <3>2, StartJobKept, EndJobKept
    <2> QED
      BY <1>1, <2>1, UserCancelKept
  <1>2. CASE ~Running
    <2>1. ~UserCancel
      BY <1>2 DEF UserCancel, Running
    <2>2. PICK o \in DOMAIN queue : StartJob(o) \/ EndJob(o) \/ SkipJob(o)
      BY <2>1 DEF BatchStep
    <2>3. /\ UNCHANGED <<pc, program, commands, lists, runs, exit, canceled>>
          /\ \E s \in States : queue' = [queue EXCEPT ![o] = s]
          /\ \E c \in Codes : code' = code \/ code' = [code EXCEPT ![o] = c]
      BY <2>2 DEF StartJob, EndJob, SkipJob, States, Codes
    <2>4. queue' \in [DOMAIN queue -> States] /\ code' \in [DOMAIN queue -> Codes]
      BY <1>0, <2>3 DEF BatchType
    <2>5. UNCHANGED <<pc, program, commands, links, todo, calls, job, status, exit, canceled>>
          /\ DOMAIN queue' = DOMAIN queue
      BY <2>3, <2>4 DEF lists, runs
    <2>6. ~Running' /\ Jobless'
      BY <1>0, <1>2, <2>5 DEF Running, Jobless, ListInv
    <2>7. ListInv'
      BY <1>0, <2>5, <2>6, <1>2 DEF ListInv
    <2>8. BatchType'
      BY <1>0, <2>4, <2>5, <2>6 DEF BatchType
    <2>9. SubmitInv' /\ CodeInv' /\ InOrder' /\ StatusHonest'
      BY <2>6, <2>7, <2>8, NoJobs, PTL
    <2> QED
      BY <2>7, <2>8, <2>9 DEF BuildbotInv
  <1> QED
    BY <1>1, <1>2

(* ----------------------------- the submission -------------------------- *)

CallSet == [of : {l.from : l \in links} \union DOMAIN job, by : Seq(links)]

LEMMA Joined ==
    ASSUME NEW S, NEW s \in Seq(S), NEW t \in Seq(S)
    PROVE  /\ t \o s \in Seq(S) /\ Len(t \o s) = Len(t) + Len(s) /\ Len(t) \in Nat
           /\ \A i \in 1 .. Len(t) + Len(s) : (t \o s)[i] = IF i <= Len(t) THEN t[i] ELSE s[i - Len(t)]
  OBVIOUS

LEMMA JoinTail ==
    ASSUME NEW S, NEW s \in Seq(S), s # <<>>, NEW t \in Seq(S)
    PROVE  /\ t \o Tail(s) \in Seq(S)
           /\ DOMAIN (t \o Tail(s)) = 1 .. Len(t) + Len(s) - 1
           /\ \A i \in 1 .. Len(t) : (t \o Tail(s))[i] = t[i]
           /\ \A i \in Len(t) + 1 .. Len(t) + Len(s) - 1 : (t \o Tail(s))[i] = s[i - Len(t) + 1]
  <1> DEFINE r == Tail(s)
  <1>1. /\ r \in Seq(S) /\ Len(r) = Len(s) - 1 /\ Len(s) \in Nat /\ Len(s) > 0
        /\ \A i \in 1 .. Len(s) - 1 : r[i] = s[i + 1]
    OBVIOUS
  <1> HIDE DEF r
  <1>2. /\ t \o r \in Seq(S) /\ Len(t \o r) = Len(t) + Len(r) /\ Len(t) \in Nat
        /\ \A i \in 1 .. Len(t) + Len(r) : (t \o r)[i] = IF i <= Len(t) THEN t[i] ELSE r[i - Len(t)]
    BY <1>1, Joined
  <1>3. DOMAIN (t \o r) = 1 .. Len(t) + Len(r)
    BY <1>2
  <1>4. ASSUME NEW i \in Len(t) + 1 .. Len(t) + Len(s) - 1 PROVE (t \o r)[i] = s[i - Len(t) + 1]
    <2>1. i \in 1 .. Len(t) + Len(r) /\ ~(i <= Len(t)) /\ i - Len(t) \in 1 .. Len(s) - 1
      BY <1>1, <1>2
    <2> QED
      BY <1>1, <1>2, <2>1
  <1>5. \A i \in 1 .. Len(t) : (t \o r)[i] = t[i]
    BY <1>1, <1>2
  <1> QED
    BY <1>1, <1>2, <1>3, <1>4, <1>5 DEF r

LEMMA NextExperimentKept == BuildbotInv /\ NextExperiment => BuildbotInv'
  <1> SUFFICES ASSUME BuildbotInv, NextExperiment PROVE BuildbotInv'
    OBVIOUS
  <1>0. ListInv /\ BatchType /\ SubmitInv /\ CodeInv /\ InOrder /\ StatusHonest
    BY DEF BuildbotInv
  <1>1. PICK o \in todo : calls' = <<[of |-> o, by |-> <<>>]>> /\ todo' = todo \ {o}
    BY DEF NextExperiment
  <1>2. /\ pc = "submit" /\ calls = <<>> /\ Running /\ Running' /\ Intact /\ Intact'
        /\ UNCHANGED <<pc, program, commands, links, job, status, exit, queue, code, canceled>>
    BY DEF NextExperiment, Idle, lists, batch, Running, Intact
  <1>3. ListInv'
    BY <1>0, <1>2 DEF ListInv
  <1>4. BatchType'
    BY <1>0, <1>2 DEF BatchType, JobType, Codes
  <1>5. JobInv /\ CallInv /\ ArrivalInv /\ OnceInv
    BY <1>0, <1>2 DEF SubmitInv
  <1>6. /\ \A p : Parents(p)' = Parents(p) /\ Got(p)' = Got(p) /\ (Submitted(p)' <=> Submitted(p))
        /\ o \in DOMAIN job
    BY <1>2, <1>5 DEF Parents, Got, Submitted, CallInv
  <1>7. JobInv'
    BY <1>2, <1>5, <1>6 DEF JobInv
  <1> DEFINE c == [of |-> o, by |-> <<>>]
  <1>8. /\ c.of = o /\ c.by = <<>> /\ c \in CallSet
        /\ \A l : <<l>> # <<>>
    BY <1>6, EmptyList DEF CallSet
  <1> HIDE DEF c
  <1>9. calls' = <<c>>
    BY <1>1 DEF c
  <1>10. /\ calls' \in Seq(CallSet) /\ DOMAIN calls' = {1} /\ calls'[1] = c /\ Len(calls') = 1
    BY <1>8, <1>9
  <1>11. CallInv'
    <2>1. Outer(c)'
      BY <1>1, <1>2, <1>6, <1>8 DEF Outer
    <2>2. CallSet' = CallSet
      BY <1>2 DEF CallSet
    <2> QED
      BY <1>1, <1>2, <1>5, <1>10, <2>1, <2>2 DEF CallInv, CallSet
  <1>12. /\ \A l : ~Pending(l)
         /\ \A p : ~Asked(p) /\ (Asked(p)' <=> p = o)
    BY <1>2, <1>8, <1>10, EmptyList DEF Pending, Asked
  <1>13. ArrivalInv'
    BY <1>1, <1>2, <1>5, <1>6, <1>12 DEF ArrivalInv
  <1>14. OnceInv'
    BY <1>1, <1>2, <1>5, <1>6, <1>12 DEF OnceInv
  <1>15. SubmitInv'
    BY <1>7, <1>11, <1>13, <1>14 DEF SubmitInv
  <1>16. CodeInv' /\ InOrder' /\ StatusHonest'
    BY <1>0, <1>2 DEF CodeInv, Over, InOrder, StatusHonest, Started, Well, Good
  <1> QED
    BY <1>3, <1>4, <1>15, <1>16 DEF BuildbotInv

LEMMA FirstCall ==
    ASSUME CallInv, calls # <<>>
    PROVE  /\ 1 \in DOMAIN calls /\ Head(calls) = calls[1] /\ DOMAIN calls = 1 .. Len(calls)
           /\ Len(calls) \in Nat /\ Head(calls) \in CallSet
           /\ Inner(Head(calls)) \/ (Outer(Head(calls)) /\ Len(calls) = 1)
  <1>1. calls \in Seq(CallSet)
    BY DEF CallInv, CallSet
  <1> HIDE DEF CallSet
  <1>2. /\ 1 \in DOMAIN calls /\ Head(calls) = calls[1] /\ DOMAIN calls = 1 .. Len(calls)
        /\ Len(calls) \in Nat /\ Head(calls) \in CallSet
    BY <1>1
  <1> QED
    BY <1>2 DEF CallInv

LEMMA IdSet ==
    ASSUME NEW D, NEW S, NEW C, NEW j \in [D -> [jobid : BOOLEAN, parents : S, returncode : C]],
           NEW o \in D, NEW id \in BOOLEAN, NEW f, f = [j EXCEPT ![o].jobid = id]
    PROVE  /\ f \in [D -> [jobid : BOOLEAN, parents : S, returncode : C]]
           /\ f[o].jobid = id
           /\ \A p \in D : /\ f[p].parents = j[p].parents /\ f[p].returncode = j[p].returncode
                           /\ p # o => f[p].jobid = j[p].jobid
  OBVIOUS

LEMMA ParentsSet ==
    ASSUME NEW D, NEW S, NEW C, NEW j \in [D -> [jobid : BOOLEAN, parents : S, returncode : C]],
           NEW o \in D, NEW new \in S
    PROVE  LET f == [j EXCEPT ![o].parents = new]
           IN /\ f \in [D -> [jobid : BOOLEAN, parents : S, returncode : C]]
              /\ f[o].parents = new
              /\ \A p \in D : /\ f[p].jobid = j[p].jobid /\ f[p].returncode = j[p].returncode
                              /\ p # o => f[p].parents = j[p].parents
  OBVIOUS

(* The job with the parent that is noted when the first call is executed.  *)
LEMMA ParentNoted ==
    ASSUME BatchType, JobInv, CallInv, IsFiniteSet(links), Running, calls # <<>>,
           NEW o \in DOMAIN job, o = Head(calls).of, NEW f, f = Called(job)
    PROVE  /\ f \in [DOMAIN job -> JobType]
           /\ \A p \in DOMAIN job :
                 /\ f[p].jobid = job[p].jobid /\ f[p].returncode = job[p].returncode
                 /\ p # o => f[p].parents = job[p].parents
           /\ Distinct(f[o].parents)
           /\ ToSet(f[o].parents) = Got(o) \union ToSet(Head(calls).by)
           /\ ToSet(f[o].parents) \subseteq Parents(o)
           /\ \A l \in ToSet(f[o].parents) : l.to \in DOMAIN job /\ Submitted(l.to)
           /\ Complete(o, f[o].parents) => Parents(o) \subseteq ToSet(f[o].parents)
           /\ ~Complete(o, f[o].parents) => Len(f[o].parents) < Cardinality(Parents(o))
  <1> DEFINE by == Head(calls).by
             old == job[o].parents
  <1>1. /\ job \in [DOMAIN job -> JobType] /\ old \in Seq(links)
        /\ f = [job EXCEPT ![o].parents = old \o by]
    BY DEF BatchType, JobType, Called
  <1>2. /\ Distinct(old) /\ ToSet(old) \subseteq Parents(o)
        /\ \A l \in ToSet(old) : l.to \in DOMAIN job /\ Submitted(l.to)
        /\ Got(o) = ToSet(old)
    BY DEF JobInv, Got
  <1> DEFINE new == old \o by
  <1>3. /\ new \in Seq(links) /\ Distinct(new) /\ ToSet(new) = ToSet(old) \union ToSet(by)
        /\ ToSet(new) \subseteq Parents(o)
        /\ \A l \in ToSet(new) : l.to \in DOMAIN job /\ Submitted(l.to)
    <2>1. CASE Inner(Head(calls))
      <3>1. PICK l \in links : /\ o = l.from /\ by = <<l>> /\ l.to \in DOMAIN job /\ Submitted(l.to)
                               /\ l \notin ToSet(old)
        BY <1>2, <2>1 DEF Inner
      <3> HIDE DEF old, by
      <3>2. /\ old \o <<l>> \in Seq(links) /\ Distinct(old \o <<l>>)
            /\ ToSet(old \o <<l>>) = ToSet(old) \union {l}
        BY <1>1, <1>2, <3>1, JoinOne
      <3>3. ToSet(<<l>>) = {l} /\ l \in Parents(o)
        BY <3>1 DEF ToSet, Parents
      <3>4. new = old \o <<l>> /\ ToSet(by) = {l}
        BY <3>1, <3>3
      <3> HIDE DEF new
      <3> QED
        BY <1>2, <3>1, <3>2, <3>3, <3>4
    <2>2. CASE Outer(Head(calls))
      <3>1. by = <<>>
        BY <2>2 DEF Outer
      <3> HIDE DEF old, by
      <3>2. new = old
        BY <1>1, <3>1, JoinNone
      <3> HIDE DEF new
      <3> QED
        BY <1>1, <1>2, <3>1, <3>2, EmptyList
    <2> QED
      BY <2>1, <2>2, FirstCall
  <1> HIDE DEF new, by, old
  <1>4. f = [job EXCEPT ![o].parents = new]
    BY <1>1 DEF new
  <1>5. /\ f \in [DOMAIN job -> JobType] /\ f[o].parents = new
        /\ \A p \in DOMAIN job :
              /\ f[p].jobid = job[p].jobid /\ f[p].returncode = job[p].returncode
              /\ p # o => f[p].parents = job[p].parents
    <2> DEFINE S == Seq(links)
    <2>1. job \in [DOMAIN job -> [jobid : BOOLEAN, parents : S, returncode : Codes]] /\ new \in S
      BY <1>1, <1>3 DEF JobType
    <2> HIDE DEF S
    <2>2. /\ f \in [DOMAIN job -> [jobid : BOOLEAN, parents : S, returncode : Codes]]
          /\ f[o].parents = new
          /\ \A p \in DOMAIN job :
                /\ f[p].jobid = job[p].jobid /\ f[p].returncode = job[p].returncode
                /\ p # o => f[p].parents = job[p].parents
      BY <1>4, <2>1, ParentsSet
    <2> QED
      BY <2>2 DEF JobType, S
  <1>6. IsFiniteSet(Parents(o))
    BY FS_Subset DEF Parents
  <1>7. new \in Seq(Parents(o))
    BY <1>3, InSeq
  <1>8. /\ Len(new) <= Cardinality(Parents(o))
        /\ Len(new) = Cardinality(Parents(o)) => Parents(o) \subseteq ToSet(new)
    BY <1>3, <1>6, <1>7, AllListed
  <1>9. Cardinality(Parents(o)) \in Nat /\ Len(new) \in Nat
    BY <1>6, <1>7, FS_CardinalityType
  <1>10. /\ Complete(o, new) => Parents(o) \subseteq ToSet(new)
         /\ ~Complete(o, new) => Len(new) < Cardinality(Parents(o))
    BY <1>8, <1>9 DEF Complete
  <1> QED
    BY <1>2, <1>3, <1>5, <1>10 DEF by

(* Submission leaves the program: nothing is called any more.              *)
LEMMA SubmitExits ==
    ASSUME BuildbotInv, pc = "submit", calls # <<>>, Quit("exited"),
           UNCHANGED <<program, commands, links, todo, status, canceled, calls, queue, code>>,
           UNCHANGED job \/ (Head(calls).of \in DOMAIN job /\ job' = Called(job))
    PROVE  BuildbotInv'
  <1>0. ListInv /\ BatchType /\ SubmitInv /\ CodeInv /\ InOrder /\ StatusHonest
    BY DEF BuildbotInv
  <1>1. /\ Running /\ Intact /\ JobInv /\ CallInv /\ IsFiniteSet(links)
        /\ pc' = "exited" /\ exit' = 1 /\ Running' /\ ~Intact'
    BY <1>0 DEF Running, Intact, SubmitInv, Quit, ListInv
  <1>2. job \in [DOMAIN job -> JobType] /\ JobType' = JobType /\ status = <<>>
    BY <1>0, <1>1 DEF BatchType, JobType, Codes, CodeInv
  <1>3. /\ job' \in [DOMAIN job -> JobType]
        /\ \A p \in DOMAIN job :
              /\ job'[p].jobid = job[p].jobid /\ job'[p].returncode = job[p].returncode
              /\ Distinct(job'[p].parents)
              /\ Got(p) \subseteq ToSet(job'[p].parents)
              /\ ToSet(job'[p].parents) \subseteq Parents(p)
              /\ \A l \in ToSet(job'[p].parents) : l.to \in DOMAIN job /\ Submitted(l.to)
    <2>1. CASE UNCHANGED job
      BY <1>1, <1>2, <2>1 DEF JobInv, Got
    <2>2. CASE Head(calls).of \in DOMAIN job /\ job' = Called(job)
      <3> DEFINE o == Head(calls).of
      <3>1. /\ o \in DOMAIN job /\ job' \in [DOMAIN job -> JobType]
            /\ \A p \in DOMAIN job :
                  /\ job'[p].jobid = job[p].jobid /\ job'[p].returncode = job[p].returncode
                  /\ p # o => job'[p].parents = job[p].parents
            /\ Distinct(job'[o].parents)
            /\ Got(o) \subseteq ToSet(job'[o].parents)
            /\ ToSet(job'[o].parents) \subseteq Parents(o)
            /\ \A l \in ToSet(job'[o].parents) : l.to \in DOMAIN job /\ Submitted(l.to)
        BY <1>0, <1>1, <2>2, ParentNoted
      <3> HIDE DEF o
      <3> QED
        BY <1>1, <3>1 DEF JobInv, Got
    <2> QED
      BY <2>1, <2>2
  <1>4. ListInv'
    BY <1>0, <1>1 DEF ListInv
  <1>5. BatchType'
    BY <1>0, <1>1, <1>2, <1>3 DEF BatchType
  <1>6. SubmitInv'
    <2>1. /\ \A p : Parents(p)' = Parents(p) /\ (Submitted(p)' <=> Submitted(p))
          /\ \A p \in DOMAIN job : Got(p)' = ToSet(job'[p].parents)
          /\ DOMAIN job' = DOMAIN job
      BY <1>3 DEF Parents, Got, Submitted
    <2>2. JobInv'
      BY <1>1, <1>3, <2>1 DEF JobInv
    <2> QED
      BY <1>1, <2>2 DEF SubmitInv
  <1>7. CodeInv'
    <2>1. \A p \in DOMAIN job' : job'[p].returncode # NoCode => Over(p)' /\ job'[p].returncode = code'[p]
      BY <1>0, <1>1, <1>3 DEF CodeInv, Over
    <2>2. status' = <<>> /\ DOMAIN status' \subseteq DOMAIN job'
      BY <1>2, EmptyList
    <2> QED
      BY <1>0, <1>1, <1>3, <2>1, <2>2 DEF CodeInv, Over
  <1>8. InOrder' /\ StatusHonest'
    <2>1. DOMAIN status' = {}
      BY <1>2, EmptyList
    <2> QED
      BY <1>0, <1>1, <2>1 DEF InOrder, StatusHonest, Started, Over
  <1> QED
    BY <1>4, <1>5, <1>6, <1>7, <1>8 DEF BuildbotInv

(* A call to an experiment that has a job already, or waits for more calls.*)
LEMMA SubmitWaits ==
    ASSUME BuildbotInv, pc = "submit", calls # <<>>, NEW o \in DOMAIN job, o = Head(calls).of,
           UNCHANGED <<pc, exit, program, commands, links, todo, status, canceled, queue, code>>,
           job' = Called(job), calls' = Tail(calls),
           job[o].jobid \/ ~Complete(o, Called(job)[o].parents)
    PROVE  BuildbotInv'
  <1>0. ListInv /\ BatchType /\ SubmitInv /\ CodeInv /\ InOrder /\ StatusHonest
    BY DEF BuildbotInv
  <1>1. /\ Running /\ Intact /\ JobInv /\ CallInv /\ ArrivalInv /\ OnceInv /\ IsFiniteSet(links)
        /\ Running' /\ Intact'
    BY <1>0 DEF Running, Intact, SubmitInv, ListInv
  <1>2. job \in [DOMAIN job -> JobType] /\ JobType' = JobType /\ CallSet' = CallSet
    <2>1. job \in [DOMAIN job -> JobType]
      BY <1>0, <1>1 DEF BatchType
    <2>2. DOMAIN job' = DOMAIN job
      BY <1>0, <1>1, ParentNoted
    <2> QED
      BY <2>1, <2>2 DEF JobType, Codes, CallSet
  <1> DEFINE by == Head(calls).by
  <1>3. /\ DOMAIN job' = DOMAIN job /\ job' \in [DOMAIN job -> JobType]
        /\ \A p \in DOMAIN job :
              /\ job'[p].jobid = job[p].jobid /\ job'[p].returncode = job[p].returncode
              /\ p # o => job'[p].parents = job[p].parents
        /\ Distinct(job'[o].parents)
        /\ ToSet(job'[o].parents) = Got(o) \union ToSet(by)
        /\ ToSet(job'[o].parents) \subseteq Parents(o)
        /\ \A l \in ToSet(job'[o].parents) : l.to \in DOMAIN job /\ Submitted(l.to)
        /\ ~Complete(o, job'[o].parents) => Len(job'[o].parents) < Cardinality(Parents(o))
    BY <1>0, <1>1, ParentNoted
  <1> HIDE DEF by
  <1>4. /\ \A p : Parents(p)' = Parents(p) /\ (Submitted(p)' <=> Submitted(p))
        /\ \A p \in DOMAIN job : /\ p # o => Got(p)' = Got(p)
                                 /\ Got(p) \subseteq Got(p)'
        /\ Got(o)' = Got(o) \union ToSet(by)
    BY <1>3 DEF Parents, Got, Submitted
  <1>5. JobInv'
    BY <1>1, <1>3, <1>4 DEF JobInv, Got
  <1>6. /\ calls' \in Seq(CallSet) /\ DOMAIN calls' = 1 .. Len(calls) - 1 /\ Len(calls) \in Nat
        /\ \A i \in 1 .. Len(calls) - 1 : calls'[i] = calls[i + 1] /\ i + 1 \in DOMAIN calls
        /\ \A i \in DOMAIN calls : i # 1 => i - 1 \in DOMAIN calls' /\ calls'[i - 1] = calls[i]
    <2>1. calls \in Seq(CallSet)
      BY <1>1 DEF CallInv, CallSet
    <2> HIDE DEF CallSet
    <2> QED
      BY <2>1
  <1>7. calls[1].of = o /\ calls[1].by = by /\ 1 \in DOMAIN calls /\ (Inner(calls[1]) \/ Outer(calls[1]))
    BY <1>1, FirstCall DEF by
  <1>8. CallInv'
    <2>1. ASSUME NEW i \in DOMAIN calls' PROVE Inner(calls[i])'
      <3>1. calls'[i] = calls[i + 1] /\ i + 1 \in DOMAIN calls /\ i + 1 # 1 /\ Len(calls) # 1
        BY <1>6
      <3>2. Inner(calls[i + 1])
        BY <1>1, <3>1 DEF CallInv
      <3>3. PICK l \in links : /\ calls[i + 1].of = l.from /\ calls[i + 1].by = <<l>>
                               /\ l.to \in DOMAIN job /\ Submitted(l.to)
                               /\ l.from \in DOMAIN job => l \notin Got(l.from)
        BY <3>2 DEF Inner
      <3>4. by # <<l>>
        BY <1>1, <1>7, <3>1, <3>3 DEF CallInv
      <3>5. l \notin ToSet(by)
        <4>1. CASE Outer(calls[1])
          BY <1>7, <4>1, EmptyList DEF Outer
        <4>2. CASE Inner(calls[1])
          <5>1. PICK m \in links : by = <<m>>
            BY <1>7, <4>2 DEF Inner
          <5>2. ToSet(by) = {m}
            BY <5>1 DEF ToSet
          <5> QED
            BY <3>4, <5>1, <5>2
        <4> QED
          BY <1>7, <4>1, <4>2
      <3> QED
        BY <1>3, <1>4, <3>1, <3>3, <3>5 DEF Inner
    <2>2. \A i, j \in DOMAIN calls' : calls'[i].by = calls'[j].by => i = j
      <3> SUFFICES ASSUME NEW i \in DOMAIN calls', NEW j \in DOMAIN calls', calls'[i].by = calls'[j].by
                   PROVE  i = j
        OBVIOUS
      <3>1. calls[i + 1].by = calls[j + 1].by /\ i + 1 \in DOMAIN calls /\ j + 1 \in DOMAIN calls
        BY <1>6
      <3>2. i + 1 = j + 1
        BY <1>1, <3>1 DEF CallInv
      <3> QED
        BY <1>6, <3>2
    <2> QED
      BY <1>1, <1>2, <1>3, <1>6, <2>1, <2>2 DEF CallInv, CallSet
  <1>9. \A l : Pending(l) => Pending(l)' \/ by = <<l>>
    BY <1>6, <1>7 DEF Pending
  <1>10. \A p : /\ Asked(p) => Asked(p)' \/ p = o
                /\ Asked(p)' => Asked(p)
    BY <1>6, <1>7 DEF Asked
  <1>11. ArrivalInv'
    <2>1. ASSUME NEW l \in links, l.from \in DOMAIN job, l.to \in DOMAIN job, Submitted(l.to)
          PROVE  l \in Got(l.from)' \/ Pending(l)'
      <3>1. CASE l \in Got(l.from)
        BY <1>4, <2>1, <3>1
      <3>2. CASE Pending(l)
        <4>1. CASE by = <<l>>
          <5>1. ~Outer(calls[1])
            BY <1>7, <4>1 DEF Outer
          <5>2. PICK m \in links : o = m.from /\ by = <<m>>
            BY <1>7, <5>1 DEF Inner
          <5>3. m = l
            BY <4>1, <5>2
          <5>4. ToSet(by) = {l}
            BY <4>1 DEF ToSet
          <5> QED
            BY <1>4, <5>2, <5>3, <5>4
        <4> QED
          BY <1>9, <3>2, <4>1
      <3> QED
        BY <1>1, <2>1, <3>1, <3>2 DEF ArrivalInv
    <2>2. ASSUME NEW p \in DOMAIN job, ~Submitted(p)
          PROVE  p \in todo \/ Asked(p)' \/ Len(job'[p].parents) < Cardinality(Parents(p))
      <3>1. CASE p = o
        <4>1. ~job[o].jobid
          BY <1>1, <2>2, <3>1 DEF JobInv
        <4> QED
          BY <1>3, <3>1, <4>1
      <3>2. CASE p # o
        BY <1>1, <1>3, <1>10, <2>2, <3>2 DEF ArrivalInv
      <3> QED
        BY <3>1, <3>2
    <2> QED
      BY <1>3, <1>4, <2>1, <2>2 DEF ArrivalInv
  <1>12. OnceInv'
    BY <1>1, <1>3, <1>4, <1>10 DEF OnceInv
  <1>13. SubmitInv'
    BY <1>5, <1>8, <1>11, <1>12 DEF SubmitInv
  <1>14. ListInv' /\ BatchType'
    BY <1>0, <1>1, <1>2, <1>3 DEF ListInv, BatchType
  <1>15. CodeInv'
    <2>1. \A p \in DOMAIN job' : job'[p].returncode # NoCode => Over(p)' /\ job'[p].returncode = code'[p]
      BY <1>0, <1>1, <1>3 DEF CodeInv, Over
    <2> QED
      BY <1>0, <1>1, <1>3, <2>1 DEF CodeInv, Over
  <1>16. InOrder' /\ StatusHonest'
    BY <1>0, <1>3 DEF InOrder, StatusHonest, Started, Over, Well, Good
  <1> QED
    BY <1>13, <1>14, <1>15, <1>16 DEF BuildbotInv

(* The calls of the children: each is called once for each of its entries. *)
LEMMA ChildrenCalled ==
    ASSUME IsFiniteSet(links), NEW o, NEW called \in ChildCalls(o)
    PROVE  /\ called \in Seq(CallSet) /\ DOMAIN called = 1 .. Len(called) /\ Len(called) \in Nat
           /\ \A i \in DOMAIN called :
                 \E l \in Children(o) : called[i].of = l.from /\ called[i].by = <<l>>
           /\ \A l \in Children(o) : \E i \in DOMAIN called : called[i].by = <<l>>
           /\ \A i, j \in DOMAIN called : called[i].by = called[j].by => i = j
  <1>1. PICK s \in Listed(o) : called = [i \in DOMAIN s |-> [of |-> s[i].from, by |-> <<s[i]>>]]
    BY DEF ChildCalls
  <1> DEFINE C == Children(o)
             n == Cardinality(C)
  <1>2. IsFiniteSet(C) /\ C \subseteq links
    BY FS_Subset DEF Children
  <1>3. s \in [1 .. n -> C] /\ \A i, j \in 1 .. n : i # j => s[i] # s[j]
    BY <1>1 DEF Listed, SetToSeqs
  <1> HIDE DEF C
  <1>4. n \in Nat /\ IsFiniteSet(1 .. n) /\ Cardinality(1 .. n) = n
    BY <1>2, FS_CardinalityType, FirstNumbers
  <1> HIDE DEF n
  <1>5. s \in Injection(1 .. n, C)
    BY <1>3 DEF Injection, IsInjective
  <1>6. s \in Surjection(1 .. n, C)
    <2>1. Cardinality(1 .. n) = Cardinality(C) <=> s \in Surjection(1 .. n, C)
      BY <1>2, <1>5, FS_Injection
    <2> QED
      BY <1>4, <2>1 DEF n
  <1>7. \A l \in C : \E i \in 1 .. n : s[i] = l
    BY <1>6 DEF Surjection
  <1>8. DOMAIN called = 1 .. n /\ \A i \in 1 .. n : called[i] = [of |-> s[i].from, by |-> <<s[i]>>]
    BY <1>1, <1>3
  <1>9. \A i \in 1 .. n : called[i].of = s[i].from /\ called[i].by = <<s[i]>> /\ s[i] \in C /\ s[i] \in links
    BY <1>2, <1>3, <1>8
  <1>10. called \in [1 .. n -> CallSet]
    <2>1. ASSUME NEW i \in 1 .. n PROVE [of |-> s[i].from, by |-> <<s[i]>>] \in CallSet
      <3>1. <<s[i]>> \in Seq(links) /\ s[i].from \in {l.from : l \in links}
        BY <1>9
      <3> QED
        BY <3>1 DEF CallSet
    <2> QED
      BY <1>1, <1>3, <2>1
  <1>11. called \in Seq(CallSet) /\ Len(called) = n
    <2> HIDE DEF CallSet
    <2> QED
      BY <1>4, <1>10
  <1>12. \A i, j \in 1 .. n : called[i].by = called[j].by => i = j
    <2> SUFFICES ASSUME NEW i \in 1 .. n, NEW j \in 1 .. n, called[i].by = called[j].by PROVE i = j
      OBVIOUS
    <2>1. <<s[i]>> = <<s[j]>>
      BY <1>9
    <2>2. s[i] = s[j]
      BY <2>1
    <2> QED
      BY <1>3, <2>2
  <1>13. \A l \in C : \E i \in 1 .. n : called[i].by = <<l>>
    <2> TAKE l \in C
    <2>1. PICK i \in 1 .. n : s[i] = l
      BY <1>7
    <2> QED
      BY <1>9, <2>1
  <1> QED
    BY <1>4, <1>8, <1>9, <1>11, <1>12, <1>13 DEF C

(* An experiment that has all its parents is submitted for the first time. *)
LEMMA FirstTime ==
    ASSUME JobInv, CallInv, OnceInv, Running, calls # <<>>, NEW o \in DOMAIN job, o = Head(calls).of,
           ~job[o].jobid
    PROVE  ~Submitted(o)
  <1> SUFFICES ASSUME Submitted(o) PROVE FALSE
    OBVIOUS
  <1>1. program.system = CommandLine
    BY DEF JobInv
  <1>2. Parents(o) = {} /\ ~Asked(o)
    BY <1>1 DEF OnceInv
  <1>3. ~Outer(Head(calls))
    BY <1>2, FirstCall DEF Outer, Asked
  <1>4. PICK l \in links : o = l.from
    BY <1>3, FirstCall DEF Inner
  <1> QED
    BY <1>2, <1>4 DEF Parents

(* The submission: the children are called before what is left.            *)
Submits(o, called) ==
    /\ pc = "submit" /\ calls # <<>> /\ o = Head(calls).of
    /\ UNCHANGED <<pc, exit, code, program, commands, links, todo, status, canceled>>
    /\ ~job[o].jobid /\ Complete(o, Called(job)[o].parents)
    /\ program.system = CommandLine => Called(job)[o].parents = <<>>
    /\ job' = [Called(job) EXCEPT ![o].jobid = program.system # CommandLine]
    /\ queue' = [queue EXCEPT ![o] = "pending"]
    /\ calls' = called \o Tail(calls)

LEMMA SubmitGoes ==
    ASSUME BuildbotInv, NEW o \in DOMAIN job, NEW called \in ChildCalls(o), Submits(o, called)
    PROVE  BuildbotInv'
  <1>0. ListInv /\ BatchType /\ SubmitInv /\ CodeInv /\ InOrder /\ StatusHonest
    BY DEF BuildbotInv
  <1>1. /\ Running /\ Intact /\ JobInv /\ CallInv /\ ArrivalInv /\ OnceInv /\ IsFiniteSet(links)
        /\ Running' /\ Intact' /\ DOMAIN job = DOMAIN queue
        /\ queue \in [DOMAIN queue -> States] /\ code \in [DOMAIN queue -> Codes]
    <2>1. pc = "submit" /\ pc' = "submit"
      BY DEF Submits
    <2> QED
      BY <1>0, <2>1 DEF Running, Intact, SubmitInv, ListInv, BatchType
  <1>29. /\ pc = "submit" /\ calls # <<>> /\ o = Head(calls).of /\ ~job[o].jobid /\ calls' = called \o Tail(calls)
         /\ UNCHANGED <<pc, exit, code, program, commands, links, todo, status, canceled>>
    BY DEF Submits
  <1>2. ~Submitted(o)
    BY <1>1, <1>29, FirstTime
  <1> DEFINE by == Head(calls).by
             f == Called(job)
  <1>3. /\ f \in [DOMAIN job -> JobType]
        /\ \A p \in DOMAIN job :
              /\ f[p].jobid = job[p].jobid /\ f[p].returncode = job[p].returncode
              /\ p # o => f[p].parents = job[p].parents
        /\ Distinct(f[o].parents)
        /\ ToSet(f[o].parents) = Got(o) \union ToSet(by)
        /\ ToSet(f[o].parents) \subseteq Parents(o)
        /\ \A l \in ToSet(f[o].parents) : l.to \in DOMAIN job /\ Submitted(l.to)
        /\ Parents(o) \subseteq ToSet(f[o].parents)
    <2>1. Complete(o, f[o].parents)
      BY DEF Submits
    <2> QED
      BY <1>0, <1>1, <1>29, <2>1, ParentNoted
  <1>4. job' = [f EXCEPT ![o].jobid = program.system # CommandLine]
        /\ (program.system = CommandLine => f[o].parents = <<>>) /\ Complete(o, f[o].parents)
    BY DEF Submits
  <1> HIDE DEF by, f
  <1>5. /\ job' \in [DOMAIN job -> JobType] /\ DOMAIN job' = DOMAIN job
        /\ \A p \in DOMAIN job :
              /\ job'[p].returncode = job[p].returncode
              /\ p # o => job'[p].parents = job[p].parents /\ job'[p].jobid = job[p].jobid
        /\ job'[o].parents = f[o].parents
        /\ job'[o].jobid = (program.system # CommandLine)
    <2> DEFINE S == Seq(links)
               id == program.system # CommandLine
    <2>1. /\ f \in [DOMAIN job -> [jobid : BOOLEAN, parents : S, returncode : Codes]]
          /\ job' = [f EXCEPT ![o].jobid = id] /\ id \in BOOLEAN
      BY <1>3, <1>4 DEF JobType
    <2> HIDE DEF S, id
    <2>2. /\ job' \in [DOMAIN job -> [jobid : BOOLEAN, parents : S, returncode : Codes]]
          /\ job'[o].jobid = id
          /\ \A p \in DOMAIN job :
                /\ job'[p].parents = f[p].parents /\ job'[p].returncode = f[p].returncode
                /\ p # o => job'[p].jobid = f[p].jobid
      BY <2>1, IdSet
    <2>3. job' \in [DOMAIN job -> JobType]
      BY <2>2 DEF JobType, S
    <2> QED
      BY <1>3, <2>2, <2>3 DEF id
  <1>30. queue' = [queue EXCEPT ![o] = "pending"]
    BY DEF Submits
  <1>6. /\ queue' \in [DOMAIN queue -> States]
        /\ \A p \in DOMAIN queue : queue'[p] = IF p = o THEN "pending" ELSE queue[p]
    BY <1>1, <1>30 DEF States
  <1>7. JobType' = JobType /\ CallSet' = CallSet
    BY <1>29, <1>5 DEF JobType, Codes, CallSet
  <1>8. /\ \A p : Parents(p)' = Parents(p)
        /\ \A p \in DOMAIN job : /\ Submitted(p)' <=> Submitted(p) \/ p = o
                                 /\ p # o => Got(p)' = Got(p)
        /\ Got(o)' = ToSet(f[o].parents)
    BY <1>29, <1>1, <1>5, <1>6 DEF Parents, Got, Submitted
  <1>9. JobInv'
    <2>1. \A p \in DOMAIN job \ {o} :
             /\ job'[p].jobid <=> Submitted(p)' /\ program.system # CommandLine
             /\ Distinct(job'[p].parents) /\ Got(p)' \subseteq Parents(p)
             /\ Submitted(p)' => Parents(p) \subseteq Got(p)'
             /\ \A l \in Got(p)' : l.to \in DOMAIN job /\ Submitted(l.to)'
      BY <1>1, <1>5, <1>8 DEF JobInv
    <2>2. /\ job'[o].jobid <=> Submitted(o)' /\ program.system # CommandLine
          /\ Distinct(job'[o].parents) /\ Got(o)' \subseteq Parents(o)
          /\ Parents(o) \subseteq Got(o)'
          /\ \A l \in Got(o)' : l.to \in DOMAIN job /\ Submitted(l.to)'
      BY <1>3, <1>5, <1>8
    <2>3. program' = program
      BY <1>29
    <2> QED
      BY <1>5, <1>8, <2>1, <2>2, <2>3 DEF JobInv
  <1>10. ASSUME NEW p \in DOMAIN job, NEW l \in Got(p)' PROVE Submitted(l.to) /\ l.to # o
    BY <1>1, <1>2, <1>3, <1>8 DEF JobInv
  <1> DEFINE n == Len(called)
  <1>11. /\ called \in Seq(CallSet) /\ DOMAIN called = 1 .. n /\ n \in Nat
         /\ \A i \in 1 .. n :
               \E l \in Children(o) : called[i].of = l.from /\ called[i].by = <<l>>
         /\ \A l \in Children(o) : \E i \in 1 .. n : called[i].by = <<l>>
         /\ \A i, j \in 1 .. n : called[i].by = called[j].by => i = j
    <2>1. /\ called \in Seq(CallSet) /\ DOMAIN called = 1 .. Len(called) /\ Len(called) \in Nat
          /\ \A i \in DOMAIN called :
                \E l \in Children(o) : called[i].of = l.from /\ called[i].by = <<l>>
          /\ \A l \in Children(o) : \E i \in DOMAIN called : called[i].by = <<l>>
          /\ \A i, j \in DOMAIN called : called[i].by = called[j].by => i = j
      BY <1>1, ChildrenCalled
    <2>2. DOMAIN called = 1 .. n /\ Len(called) = n
      BY <2>1
    <2> HIDE DEF n, CallSet
    <2> QED
      BY <2>1, <2>2
  <1>12. /\ calls \in Seq(CallSet) /\ Len(calls) \in Nat /\ DOMAIN calls = 1 .. Len(calls)
         /\ calls[1].of = o /\ calls[1].by = by /\ 1 \in DOMAIN calls
         /\ Inner(calls[1]) \/ (Outer(calls[1]) /\ Len(calls) = 1)
    <2>1. calls \in Seq(CallSet)
      BY <1>1 DEF CallInv, CallSet
    <2> QED
      BY <1>1, <1>29, <2>1, FirstCall DEF by
  <1>13. /\ calls' \in Seq(CallSet) /\ DOMAIN calls' = 1 .. n + Len(calls) - 1
         /\ \A i \in 1 .. n : calls'[i] = called[i]
         /\ \A i \in n + 1 .. n + Len(calls) - 1 : calls'[i] = calls[i - n + 1]
    <2> HIDE DEF CallSet
    <2> QED
      BY <1>29, <1>11, <1>12, JoinTail
  <1> HIDE DEF n, CallSet
  <1>14. /\ \A i \in DOMAIN calls' \ (1 .. n) :
               calls'[i] = calls[i - n + 1] /\ i - n + 1 \in DOMAIN calls /\ i - n + 1 # 1 /\ Len(calls) # 1
         /\ \A j \in DOMAIN calls : j # 1 => j + n - 1 \in DOMAIN calls' /\ calls'[j + n - 1] = calls[j]
         /\ 1 .. n \subseteq DOMAIN calls'
    <2>1. ASSUME NEW i \in DOMAIN calls' \ (1 .. n)
          PROVE  calls'[i] = calls[i - n + 1] /\ i - n + 1 \in DOMAIN calls /\ i - n + 1 # 1 /\ Len(calls) # 1
      <3>1. i \in n + 1 .. n + Len(calls) - 1
        BY <1>11, <1>12, <1>13
      <3>2. calls'[i] = calls[i - n + 1]
        BY <1>13, <3>1
      <3>3. i - n + 1 \in 1 .. Len(calls) /\ i - n + 1 # 1 /\ Len(calls) # 1
        BY <1>11, <1>12, <3>1
      <3> QED
        BY <1>12, <3>2, <3>3
    <2>2. ASSUME NEW j \in DOMAIN calls, j # 1
          PROVE  j + n - 1 \in DOMAIN calls' /\ calls'[j + n - 1] = calls[j]
      <3>1. PICK k : k = j + n - 1
        OBVIOUS
      <3>2. k \in n + 1 .. n + Len(calls) - 1 /\ k \in 1 .. n + Len(calls) - 1 /\ k - n + 1 = j
        BY <1>11, <1>12, <2>2, <3>1
      <3>3. k \in DOMAIN calls' /\ calls'[k] = calls[j]
        BY <1>13, <3>2
      <3> QED
        BY <3>1, <3>3
    <2>3. 1 .. n \subseteq DOMAIN calls'
      BY <1>11, <1>12, <1>13
    <2> QED
      BY <2>1, <2>2, <2>3
  <1>15. ASSUME NEW i \in 1 .. n PROVE Inner(calls[i])' /\ \E l \in links : l.to = o /\ calls'[i].by = <<l>>
    <2>1. PICK l \in Children(o) : called[i].of = l.from /\ called[i].by = <<l>>
      BY <1>29, <1>11
    <2>2. l \in links /\ l.to = o /\ calls'[i].of = l.from /\ calls'[i].by = <<l>>
      BY <1>29, <1>13, <2>1 DEF Children
    <2>3. Submitted(o)'
      BY <1>29, <1>8
    <2>4. l.from \in DOMAIN job => l \notin Got(l.from)'
      BY <1>29, <1>10, <2>2
    <2> QED
      BY <1>29, <1>5, <2>2, <2>3, <2>4 DEF Inner
  <1>16. ASSUME NEW i \in DOMAIN calls' \ (1 .. n)
         PROVE  Inner(calls[i])' /\ \E l \in links : l.to # o /\ calls'[i].by = <<l>>
    <2>1. Inner(calls[i - n + 1]) /\ i - n + 1 \in DOMAIN calls /\ calls'[i] = calls[i - n + 1] /\ i - n + 1 # 1
      BY <1>29, <1>1, <1>14 DEF CallInv
    <2>2. PICK l \in links : /\ calls'[i].of = l.from /\ calls'[i].by = <<l>>
                             /\ l.to \in DOMAIN job /\ Submitted(l.to)
                             /\ l.from \in DOMAIN job => l \notin Got(l.from)
      BY <1>29, <2>1 DEF Inner
    <2>3. by # <<l>>
      BY <1>29, <1>1, <1>12, <2>1, <2>2 DEF CallInv
    <2>4. l \notin ToSet(by)
      <3>1. CASE Outer(calls[1])
        BY <1>29, <1>12, <3>1, EmptyList DEF Outer
      <3>2. CASE Inner(calls[1])
        <4>1. PICK m \in links : by = <<m>>
          BY <1>29, <1>12, <3>2 DEF Inner
        <4>2. ToSet(by) = {m}
          BY <1>29, <4>1 DEF ToSet
        <4> QED
          BY <1>29, <2>3, <4>1, <4>2
      <3> QED
        BY <1>29, <1>12, <3>1, <3>2
    <2>5. l.from \in DOMAIN job => l \notin Got(l.from)'
      BY <1>29, <1>3, <1>8, <2>2, <2>4
    <2>6. Submitted(l.to)' /\ l.to # o
      BY <1>29, <1>2, <1>8, <2>2
    <2> QED
      BY <1>29, <1>5, <2>2, <2>5, <2>6 DEF Inner
  <1>17. CallInv'
    <2>1. ASSUME NEW i \in DOMAIN calls', NEW j \in DOMAIN calls', calls'[i].by = calls'[j].by
          PROVE  i = j
      <3>1. CASE i \in 1 .. n /\ j \in 1 .. n
        BY <1>29, <1>11, <1>13, <2>1, <3>1
      <3>2. CASE i \notin 1 .. n /\ j \notin 1 .. n
        <4>1. /\ calls[i - n + 1].by = calls[j - n + 1].by
              /\ i - n + 1 \in DOMAIN calls /\ j - n + 1 \in DOMAIN calls
          BY <1>29, <1>14, <2>1, <3>2
        <4>2. i - n + 1 = j - n + 1
          BY <1>29, <1>1, <4>1 DEF CallInv
        <4> QED
          BY <1>29, <1>11, <1>12, <1>13, <4>2
      <3>3. CASE i \in 1 .. n /\ j \notin 1 .. n
        <4>1. PICK l \in links : l.to = o /\ calls'[i].by = <<l>>
          BY <1>29, <1>15, <3>3
        <4>2. PICK m \in links : m.to # o /\ calls'[j].by = <<m>>
          BY <1>29, <1>16, <3>3
        <4> QED
          BY <1>29, <2>1, <4>1, <4>2
      <3>4. CASE i \notin 1 .. n /\ j \in 1 .. n
        <4>1. PICK l \in links : l.to = o /\ calls'[j].by = <<l>>
          BY <1>29, <1>15, <3>4
        <4>2. PICK m \in links : m.to # o /\ calls'[i].by = <<m>>
          BY <1>29, <1>16, <3>4
        <4> QED
          BY <1>29, <2>1, <4>1, <4>2
      <3> QED
        BY <1>29, <3>1, <3>2, <3>3, <3>4
    <2>2. \A i \in DOMAIN calls' : Inner(calls[i])'
      BY <1>29, <1>15, <1>16
    <2>3. calls' \in Seq([of : {l.from : l \in links'} \union DOMAIN job', by : Seq(links')])
      BY <1>29, <1>7, <1>13 DEF CallSet
    <2> QED
      BY <1>29, <1>1, <1>5, <2>1, <2>2, <2>3 DEF CallInv
  <1>18. \A l : Pending(l) => Pending(l)' \/ by = <<l>>
    BY <1>12, <1>14 DEF Pending
  <1>19. \A p : /\ Asked(p) => Asked(p)' \/ p = o
                /\ ~Asked(p)'
    <2>1. \A i \in DOMAIN calls' : calls'[i].by # <<>>
      <3>1. \A i \in DOMAIN calls' : \E l : calls'[i].by = <<l>>
        BY <1>15, <1>16
      <3>2. \A l : <<l>> # <<>>
        OBVIOUS
      <3> QED
        BY <3>1, <3>2
    <2> QED
      BY <1>12, <1>14, <2>1 DEF Asked
  <1>20. ArrivalInv'
    <2>1. ASSUME NEW l \in links, l.from \in DOMAIN job, l.to \in DOMAIN job, Submitted(l.to)'
          PROVE  l \in Got(l.from)' \/ Pending(l)'
      <3>1. CASE l.to = o
        <4>1. PICK i \in 1 .. n : called[i].by = <<l>>
          BY <1>29, <1>11, <3>1 DEF Children
        <4> QED
          BY <1>29, <1>13, <1>14, <4>1 DEF Pending
      <3>2. CASE l.to # o /\ l \in Got(l.from)
        BY <1>29, <1>3, <1>8, <2>1, <3>2
      <3>3. CASE l.to # o /\ Pending(l)
        <4>1. CASE by = <<l>>
          <5>1. ~Outer(calls[1])
            BY <1>29, <1>12, <4>1 DEF Outer
          <5>2. PICK m \in links : o = m.from /\ by = <<m>>
            BY <1>29, <1>12, <5>1 DEF Inner
          <5>3. m = l
            BY <1>29, <4>1, <5>2
          <5>4. ToSet(by) = {l}
            BY <1>29, <4>1 DEF ToSet
          <5> QED
            BY <1>29, <1>3, <1>8, <5>2, <5>3, <5>4
        <4> QED
          BY <1>29, <1>18, <3>3, <4>1
      <3>4. l.to # o => Submitted(l.to)
        BY <1>29, <1>8, <2>1
      <3> QED
        BY <1>29, <1>1, <2>1, <3>1, <3>2, <3>3, <3>4 DEF ArrivalInv
    <2>2. ASSUME NEW p \in DOMAIN job, ~Submitted(p)'
          PROVE  p \in todo \/ Asked(p)' \/ Len(job'[p].parents) < Cardinality(Parents(p))
      <3>1. p # o /\ ~Submitted(p)
        BY <1>29, <1>8, <2>2
      <3> QED
        BY <1>29, <1>1, <1>5, <1>19, <3>1 DEF ArrivalInv
    <2> QED
      BY <1>29, <1>5, <1>8, <2>1, <2>2 DEF ArrivalInv
  <1>21. OnceInv'
    <2> SUFFICES ASSUME program.system = CommandLine, NEW p \in DOMAIN job, Submitted(p)'
                 PROVE  Parents(p) = {} /\ p \notin todo
      BY <1>29, <1>5, <1>8, <1>19 DEF OnceInv
    <2>1. CASE p # o
      BY <1>29, <1>1, <1>8, <2>1 DEF OnceInv
    <2>2. CASE p = o
      <3>1. f[o].parents = <<>>
        BY <1>29, <1>4
      <3>2. Parents(o) = {} /\ ToSet(by) = {}
        BY <1>29, <1>3, <3>1, EmptyList
      <3>3. ~Inner(calls[1])
        <4> SUFFICES ASSUME Inner(calls[1]) PROVE FALSE
          OBVIOUS
        <4>1. PICK l \in links : by = <<l>>
          BY <1>29, <1>12 DEF Inner
        <4>2. ToSet(by) = {l}
          BY <1>29, <4>1 DEF ToSet
        <4> QED
          BY <1>29, <3>2, <4>2
      <3> QED
        BY <1>29, <1>12, <2>2, <3>2, <3>3 DEF Outer
    <2> QED
      BY <1>29, <2>1, <2>2
  <1>22. SubmitInv'
    BY <1>9, <1>17, <1>20, <1>21 DEF SubmitInv
  <1>23. ListInv'
    BY <1>29, <1>0, <1>1 DEF ListInv
  <1>24. BatchType'
    BY <1>29, <1>0, <1>1, <1>5, <1>6, <1>7 DEF BatchType
  <1>25. ~Over(o) /\ ~Started(o) /\ \A p \in DOMAIN queue : (Over(p)' <=> Over(p)) /\ (Started(p)' <=> Started(p))
    BY <1>1, <1>2, <1>6 DEF Over, Started, Submitted
  <1>26. CodeInv'
    <2>1. \A p \in DOMAIN job' : job'[p].returncode # NoCode => Over(p)' /\ job'[p].returncode = code'[p]
      BY <1>29, <1>0, <1>1, <1>5, <1>25 DEF CodeInv
    <2>2. \A p \in canceled : p \in DOMAIN queue
      BY <1>29, <1>0 DEF BatchType
    <2>3. \A p \in canceled : Over(p)' /\ (code[p] = 1 \/ program.system \in {"Slurm", "SerialSlurm"})
      BY <1>29, <1>0, <1>25, <2>2 DEF CodeInv
    <2>4. \A p \in DOMAIN queue' : queue'[p] = "skipped" => p \in canceled
      BY <1>29, <1>0, <1>1, <1>6 DEF CodeInv
    <2> QED
      BY <1>29, <1>0, <1>1, <1>5, <2>1, <2>3, <2>4 DEF CodeInv
  <1>27. InOrder'
    BY <1>29, <1>0, <1>6, <1>25 DEF InOrder
  <1>28. StatusHonest'
    <2>1. status' = <<>> /\ exit' # 0
      BY <1>29, <1>0 DEF CodeInv
    <2>2. DOMAIN status' = {}
      BY <2>1, EmptyList
    <2> QED
      BY <2>1, <2>2 DEF StatusHonest
  <1> QED
    BY <1>22, <1>23, <1>24, <1>26, <1>27, <1>28 DEF BuildbotInv

LEMMA SubmitKept == BuildbotInv /\ Submit => BuildbotInv'
  <1> SUFFICES ASSUME BuildbotInv, Submit PROVE BuildbotInv'
    OBVIOUS
  <1> DEFINE o == Head(calls).of
  <1>1. /\ pc = "submit" /\ calls # <<>> /\ running = None
        /\ UNCHANGED <<program, commands, lists, todo, incomplete, status, canceled>>
    BY DEF Submit
  <1>2. UNCHANGED <<program, commands, links, todo, status, canceled>>
    BY <1>1 DEF lists
  <1>3. CASE o \notin DOMAIN job
    <2>1. Quit("exited") /\ UNCHANGED <<calls, job, queue, code>>
      BY <1>3 DEF Submit
    <2> QED
      BY <1>1, <1>2, <2>1, SubmitExits
  <1>4. CASE o \in DOMAIN job /\ (job[o].jobid \/ ~Complete(o, Called(job)[o].parents))
    <2>1. job' = Called(job) /\ calls' = Tail(calls) /\ UNCHANGED <<pc, exit, queue, code>>
      BY <1>4 DEF Submit
    <2> HIDE DEF o
    <2> QED
      BY <1>1, <1>2, <1>4, <2>1, SubmitWaits DEF o
  <1>5. CASE o \in DOMAIN job /\ ~job[o].jobid /\ Complete(o, Called(job)[o].parents)
    <2>1. CASE Quit("exited") /\ job' = Called(job) /\ UNCHANGED <<calls, queue, code>>
      BY <1>1, <1>2, <1>5, <2>1, SubmitExits
    <2>2. CASE ~(Quit("exited") /\ job' = Called(job) /\ UNCHANGED <<calls, queue, code>>)
      <3>1. /\ program.system = CommandLine => Called(job)[o].parents = <<>>
            /\ job' = [Called(job) EXCEPT ![o].jobid = program.system # CommandLine]
            /\ queue' = [queue EXCEPT ![o] = "pending"]
            /\ \E called \in ChildCalls(o) : calls' = called \o Tail(calls)
            /\ UNCHANGED <<pc, exit, code>>
        BY <1>5, <2>2 DEF Submit
      <3>2. PICK called \in ChildCalls(o) : calls' = called \o Tail(calls)
        BY <3>1
      <3> HIDE DEF o
      <3>3. Submits(o, called)
        BY <1>1, <1>2, <1>5, <3>1, <3>2 DEF Submits, o
      <3> QED
        BY <1>5, <3>3, SubmitGoes
    <2> QED
      BY <2>1, <2>2
  <1> QED
    BY <1>3, <1>4, <1>5

LEMMA BuildbotStep == BuildbotInv /\ [Next]_vars => BuildbotInv'
  <1> SUFFICES ASSUME BuildbotInv, [Next]_vars PROVE BuildbotInv'
    OBVIOUS
  <1>1. CASE UNCHANGED vars
    <2>0. ListInv /\ BatchType /\ SubmitInv /\ CodeInv /\ InOrder /\ StatusHonest
      BY DEF BuildbotInv
    <2>1. UNCHANGED <<pc, program, commands, links, todo, calls, job, status, exit, queue, code, canceled>>
      BY <1>1 DEF vars, lists, runs, batch
    <2>2. ListInv' /\ (Running' <=> Running) /\ (Intact' <=> Intact)
      BY <2>0, <2>1 DEF ListInv, Running, Intact
    <2>3. BatchType'
      BY <2>0, <2>1, <2>2 DEF BatchType, JobType, Codes
    <2>4. SubmitInv'
      <3>1. CASE ~Running
        BY <2>2, <3>1, Kinds DEF SubmitInv
      <3>2. CASE Running
        <4>1. pc # "submit" => ~Intact \/ (calls = <<>> /\ todo = {})
          BY <2>0 DEF SubmitInv, CallInv
        <4> QED
          BY <2>0, <2>1, <2>2, <3>2, <4>1, ViewKept
      <3> QED
        BY <3>1, <3>2
    <2>5. CodeInv' /\ InOrder' /\ StatusHonest'
      BY <2>0, <2>1, <2>2 DEF CodeInv, Over, InOrder, StatusHonest, Started, Well, Good
    <2> QED
      BY <2>2, <2>3, <2>4, <2>5 DEF BuildbotInv
  <1>2. CASE Next
    BY <1>2, ListStepKept, TriggerKept, BuildKept, NextExperimentKept, SubmitKept, WaitedKept,
       InstallHandlersKept, PollKept, PollNothingKept, ReportKept, SignalKept, DisturbedKept
       DEF Next, Runexp
  <1> QED
    BY <1>1, <1>2

LEMMA BuildbotHolds == Spec => []BuildbotInv
  BY InitBuildbot, BuildbotStep, PTL DEF Spec

(* ------------------------------- theorems ------------------------------ *)

(* Whatever experiments depend on each other, in whatever order they are   *)
(* submitted, fail or are cancelled: none starts on the batch system       *)
(* before those it depends on are over (Experiment.submit, "after").       *)
THEOREM DependenciesHold == Spec => []InOrder
  <1>1. BuildbotInv => InOrder
    BY DEF BuildbotInv
  <1> QED
    BY <1>1, BuildbotHolds, PTL

(* What is missing waits for something that is missing: if runexp waits    *)
(* for jobs, all experiments are submitted, or some of them depend on each *)
(* other in a circle, or on experiments that are not run here.             *)
LEMMA AllSubmitted == BuildbotInv => NoneForgotten
  <1> SUFFICES ASSUME BuildbotInv, pc \in {"wait", "crashed"}, Within,
                      NEW o \in DOMAIN job, queue[o] = "none"
               PROVE  Circular
    BY DEF NoneForgotten
  <1>1. /\ Running /\ JobInv /\ CallInv /\ ArrivalInv /\ calls = <<>> /\ todo = {} /\ IsFiniteSet(links)
        /\ job \in [DOMAIN job -> JobType]
    BY DEF BuildbotInv, SubmitInv, Running, Intact, CallInv, ListInv, BatchType
  <1> DEFINE S == {p \in DOMAIN job : ~Submitted(p)}
  <1>2. o \in S
    BY DEF Submitted
  <1>3. ASSUME NEW p \in S PROVE \E l \in Parents(p) : l.to \in S
    <2>1. p \in DOMAIN job /\ ~Submitted(p)
      OBVIOUS
    <2>2. Len(job[p].parents) < Cardinality(Parents(p))
      BY <1>1, <2>1, EmptyList DEF ArrivalInv, Asked
    <2>3. job[p].parents \in Seq(links) /\ Got(p) \subseteq Parents(p)
      BY <1>1, <2>1 DEF JobInv, JobType
    <2>4. job[p].parents \in Seq(Parents(p))
      BY <2>3, InSeq DEF Got
    <2>5. IsFiniteSet(Parents(p))
      BY <1>1, FS_Subset DEF Parents
    <2>6. PICK l \in Parents(p) : l \notin Got(p)
      BY <2>2, <2>4, <2>5, OneMissing DEF Got
    <2>7. l \in links /\ l.from = p /\ l.to \in DOMAIN job
      BY <2>1, <2>6 DEF Parents, Within
    <2>8. ~Pending(l)
      BY <1>1, EmptyList DEF Pending
    <2>9. ~Submitted(l.to)
      BY <1>1, <2>1, <2>6, <2>7, <2>8 DEF ArrivalInv
    <2> QED
      BY <2>6, <2>7, <2>9
  <1>4. S \in SUBSET DOMAIN job
    OBVIOUS
  <1> HIDE DEF S
  <1>5. S # {}
    BY <1>2
  <1> QED
    BY <1>3, <1>4, <1>5 DEF Circular

(* The recursion over parents and children in Experiment.submit leaves out *)
(* no experiment of any list, however often two of them are connected.     *)
THEOREM NobodyForgotten == Spec => []NoneForgotten
  BY AllSubmitted, BuildbotHolds, PTL

(* For every batch system and every moment of a cancellation: the status   *)
(* file of runexp and its exit code call nothing good that was not.        *)
THEOREM ReportHonest == Spec => []StatusHonest
  <1>1. BuildbotInv => StatusHonest
    BY DEF BuildbotInv
  <1> QED
    BY <1>1, BuildbotHolds, PTL

(* --------------------------- lists in one piece ------------------------ *)

LEMMA LeastNat ==
    ASSUME NEW S \in SUBSET Nat, S # {}
    PROVE  \E m \in S : \A x \in S : m <= x
  <1> DEFINE R == {ss \in Nat \X Nat : ss[1] < ss[2]}
  <1>1. OpToRel(<, Nat) = R
    BY Zenon DEF OpToRel
  <1>2. IsWellFoundedOn(R, Nat)
    BY <1>1, NatLessThanWellFounded, Zenon
  <1>3. \E m \in S : \A x \in S : <<x, m>> \notin R
    <2> HIDE DEF R
    <2> QED BY <1>2, WFMin
  <1>4. PICK m \in S : \A x \in S : <<x, m>> \notin R
    BY <1>3
  <1>5. ASSUME NEW x \in S, x < m PROVE FALSE
    <2>1. <<x, m>> \in Nat \X Nat /\ <<x, m>>[1] = x /\ <<x, m>>[2] = m
      OBVIOUS
    <2>2. <<x, m>> \in R
      BY <2>1, <1>5
    <2> QED BY <2>2, <1>4
  <1> QED BY <1>5

(* What the loop in FlattenSeq has put together after each turn.           *)
Joins(f, ss, n) ==
    /\ f = [k \in 1 .. n |-> f[k]]
    /\ \A k \in 1 .. n : f[k] = IF k = 1 THEN ss[k] ELSE f[k - 1] \o ss[k]

LEMMA JoinsExist ==
    ASSUME NEW n \in Nat, NEW ss
    PROVE  \E f : Joins(f, ss, n)
  <1> DEFINE bad == {d \in 0 .. n : ~ \E f : Joins(f, ss, d)}
  <1>1. ASSUME bad # {} PROVE FALSE
    <2>1. bad \subseteq Nat
      OBVIOUS
    <2> HIDE DEF bad
    <2>2. PICK m \in bad : \A x \in bad : m <= x
      BY <1>1, <2>1, LeastNat
    <2>3. m \in 0 .. n /\ ~ \E f : Joins(f, ss, m)
      BY DEF bad
    <2>4. m # 0
      <3> DEFINE z == [k \in 1 .. 0 |-> 0]
      <3>1. Joins(z, ss, 0)
        BY DEF Joins
      <3> QED BY <3>1, <2>3
    <2>5. m - 1 \in 0 .. n /\ ~(m <= m - 1)
      BY <2>3, <2>4
    <2>6. PICK f : Joins(f, ss, m - 1)
      BY <2>5, <2>2 DEF bad
    <2> DEFINE last == IF m = 1 THEN ss[m] ELSE f[m - 1] \o ss[m]
               h == [k \in 1 .. m |-> IF k = m THEN last ELSE f[k]]
    <2>7. ASSUME NEW k \in 1 .. m PROVE h[k] = IF k = 1 THEN ss[k] ELSE h[k - 1] \o ss[k]
      <3>1. CASE k = m
        <4>1. k # 1 => k - 1 \in 1 .. m /\ k - 1 # m
          BY <3>1, <2>3
        <4>2. k # 1 => h[k - 1] = f[m - 1]
          BY <4>1, <3>1
        <4>3. h[k] = last
          BY <3>1
        <4> HIDE DEF h
        <4> QED BY <4>2, <4>3, <3>1
      <3>2. CASE k # m
        <4>1. k \in 1 .. m - 1 /\ (k # 1 => k - 1 \in 1 .. m /\ k - 1 # m)
          BY <3>2, <2>3
        <4>2. f[k] = IF k = 1 THEN ss[k] ELSE f[k - 1] \o ss[k]
          BY <4>1, <2>6 DEF Joins
        <4>3. h[k] = f[k] /\ (k # 1 => h[k - 1] = f[k - 1])
          BY <4>1, <3>2
        <4> HIDE DEF h
        <4> QED BY <4>2, <4>3
      <3> QED BY <3>1, <3>2
    <2>8. h = [k \in 1 .. m |-> h[k]]
      OBVIOUS
    <2> HIDE DEF h
    <2>9. Joins(h, ss, m)
      BY <2>7, <2>8 DEF Joins
    <2> QED BY <2>9, <2>3
  <1>2. n \in 0 .. n
    OBVIOUS
  <1> QED BY <1>1, <1>2

LEMMA FlattenJoins ==
    ASSUME NEW ss, NEW n \in Nat, n = Len(ss), n # 0
    PROVE  \E f : Joins(f, ss, n) /\ FlattenSeq(ss) = f[n]
  <1> DEFINE Eq(h) == h = [i \in 1 .. Len(ss) |-> IF i = 1 THEN ss[i] ELSE h[i - 1] \o ss[i]]
             acc == CHOOSE h : Eq(h)
  <1>1. PICK f : Joins(f, ss, n)
    BY JoinsExist
  <1>2. Eq(f)
    <2>1. f = [k \in 1 .. n |-> f[k]]
      BY <1>1 DEF Joins
    <2>2. \A k \in 1 .. n : f[k] = IF k = 1 THEN ss[k] ELSE f[k - 1] \o ss[k]
      BY <1>1 DEF Joins
    <2> DEFINE r == [i \in 1 .. n |-> IF i = 1 THEN ss[i] ELSE f[i - 1] \o ss[i]]
    <2>3. f = r
      BY <2>1, <2>2, Zenon
    <2> QED BY <2>3
  <1>3. Eq(acc)
    <2> HIDE DEF Eq
    <2> QED BY <1>2
  <1>4. FlattenSeq(ss) = acc[Len(ss)]
    <2>1. Len(ss) # 0
      OBVIOUS
    <2> QED BY <2>1, Zenon DEF FlattenSeq
  <1> HIDE DEF acc
  <1>5. Joins(acc, ss, n)
    <2>1. acc = [i \in 1 .. n |-> IF i = 1 THEN ss[i] ELSE acc[i - 1] \o ss[i]]
      BY <1>3
    <2> HIDE DEF Eq
    <2>2. \A k \in 1 .. n : acc[k] = IF k = 1 THEN ss[k] ELSE acc[k - 1] \o ss[k]
      BY <2>1, Zenon
    <2>3. acc = [k \in 1 .. n |-> acc[k]]
      BY <2>1, Zenon
    <2> QED BY <2>2, <2>3 DEF Joins
  <1> QED BY <1>4, <1>5

(* Each place of a joined list is one of a part, with the rest of that     *)
(* part around it.                                                         *)
Blocks(F, ss, n) ==
    \A k \in 1 .. Len(F) : \E i \in 1 .. n : \E m \in 1 .. Len(ss[i]) :
        \A q \in 1 .. Len(ss[i]) : (k - m) + q \in 1 .. Len(F) /\ F[(k - m) + q] = ss[i][q]

LEMMA BlocksJoin ==
    ASSUME NEW A, NEW F \in Seq(A), NEW n \in Nat, NEW ss, Blocks(F, ss, n), ss[n + 1] \in Seq(A)
    PROVE  F \o ss[n + 1] \in Seq(A) /\ Blocks(F \o ss[n + 1], ss, n + 1)
  <1> DEFINE s == ss[n + 1]
             G == F \o s
             N == Len(F)
             M == Len(s)
  <1>1. /\ s \in Seq(A) /\ G \in Seq(A) /\ N \in Nat /\ M \in Nat /\ Len(G) = N + M
        /\ \A q \in 1 .. N : G[q] = F[q]
        /\ \A q \in 1 .. M : G[N + q] = s[q]
    OBVIOUS
  <1>2. n + 1 \in 1 .. n + 1 /\ ss[n + 1] = s
    OBVIOUS
  <1> HIDE DEF s, G, N, M
  <1>3. ASSUME NEW k \in 1 .. Len(G)
        PROVE  \E i \in 1 .. n + 1 : \E m \in 1 .. Len(ss[i]) :
                   \A q \in 1 .. Len(ss[i]) : (k - m) + q \in 1 .. Len(G) /\ G[(k - m) + q] = ss[i][q]
    <2>1. CASE k <= N
      <3>1. k \in 1 .. Len(F)
        BY <2>1, <1>1 DEF N
      <3>2. PICK i \in 1 .. n : \E m \in 1 .. Len(ss[i]) :
                \A q \in 1 .. Len(ss[i]) : (k - m) + q \in 1 .. Len(F) /\ F[(k - m) + q] = ss[i][q]
        BY <3>1 DEF Blocks
      <3>3. PICK m \in 1 .. Len(ss[i]) :
                \A q \in 1 .. Len(ss[i]) : (k - m) + q \in 1 .. Len(F) /\ F[(k - m) + q] = ss[i][q]
        BY <3>2
      <3>4. ASSUME NEW q \in 1 .. Len(ss[i]) PROVE (k - m) + q \in 1 .. Len(G) /\ G[(k - m) + q] = ss[i][q]
        <4>1. PICK x : x = (k - m) + q
          OBVIOUS
        <4>2. x \in 1 .. N /\ F[x] = ss[i][q]
          BY <3>3, <4>1 DEF N
        <4>3. x \in 1 .. Len(G) /\ G[x] = ss[i][q]
          BY <4>2, <1>1
        <4> QED BY <4>1, <4>3
      <3>5. i \in 1 .. n + 1
        OBVIOUS
      <3> QED BY <3>4, <3>5
    <2>2. CASE ~(k <= N)
      <3>1. PICK m : m = k - N
        OBVIOUS
      <3>2. m \in 1 .. M /\ k - m = N
        BY <2>2, <3>1, <1>1
      <3>3. \A q \in 1 .. M : (k - m) + q \in 1 .. Len(G) /\ G[(k - m) + q] = s[q]
        BY <3>2, <1>1
      <3>4. m \in 1 .. Len(ss[n + 1]) /\
            \A q \in 1 .. Len(ss[n + 1]) : (k - m) + q \in 1 .. Len(G) /\ G[(k - m) + q] = ss[n + 1][q]
        BY <3>2, <3>3, <1>2 DEF M
      <3> QED BY <3>4, <1>2
    <2> QED BY <2>1, <2>2
  <1>4. Blocks(G, ss, n + 1)
    BY <1>3 DEF Blocks
  <1> QED BY <1>1, <1>4 DEF G, s

LEMMA Flattened ==
    ASSUME NEW A, NEW ss \in Seq(Seq(A))
    PROVE  FlattenSeq(ss) \in Seq(A) /\ Blocks(FlattenSeq(ss), ss, Len(ss))
  <1> DEFINE n == Len(ss)
  <1>1. n \in Nat /\ \A i \in 1 .. n : ss[i] \in Seq(A)
    OBVIOUS
  <1>2. CASE n = 0
    <2>1. FlattenSeq(ss) = <<>>
      <3>1. ss = <<>>
        BY <1>2
      <3>2. FlattenSeq(ss) = ss
        BY <1>2, Zenon DEF FlattenSeq
      <3> QED BY <3>1, <3>2
    <2>2. <<>> \in Seq(A) /\ 1 .. Len(<<>>) = {}
      OBVIOUS
    <2> QED BY <2>1, <2>2 DEF Blocks
  <1>3. CASE n # 0
    <2>1. PICK f : Joins(f, ss, n) /\ FlattenSeq(ss) = f[n]
      BY <1>1, <1>3, FlattenJoins
    <2> DEFINE bad == {k \in 1 .. n : ~(f[k] \in Seq(A) /\ Blocks(f[k], ss, k))}
    <2>2. ASSUME bad # {} PROVE FALSE
      <3>1. bad \subseteq Nat
        OBVIOUS
      <3>2. PICK m \in bad : \A x \in bad : m <= x
        <4> HIDE DEF bad
        <4> QED BY <2>2, <3>1, LeastNat
      <3>3. m \in 1 .. n /\ ~(f[m] \in Seq(A) /\ Blocks(f[m], ss, m))
        OBVIOUS
      <3>4. CASE m = 1
        <4>1. f[1] = ss[1] /\ ss[1] \in Seq(A)
          BY <2>1, <3>3, <3>4, <1>1 DEF Joins
        <4>2. Blocks(ss[1], ss, 1)
          <5>1. \A k \in 1 .. Len(ss[1]) : k \in 1 .. Len(ss[1]) /\
                    \A q \in 1 .. Len(ss[1]) : (k - k) + q \in 1 .. Len(ss[1]) /\ ss[1][(k - k) + q] = ss[1][q]
            BY <4>1
          <5> QED BY <5>1 DEF Blocks
        <4> QED BY <4>1, <4>2, <3>3, <3>4
      <3>5. CASE m # 1
        <4>1. PICK x : x = m - 1
          OBVIOUS
        <4>2. x \in 1 .. n /\ x \in Nat /\ x + 1 = m /\ ~(m <= x)
          BY <4>1, <3>3, <3>5, <1>1
        <4>3. f[x] \in Seq(A) /\ Blocks(f[x], ss, x)
          BY <4>2, <3>2
        <4>4. f[m] = f[x] \o ss[x + 1] /\ ss[x + 1] \in Seq(A)
          BY <4>1, <4>2, <3>3, <3>5, <2>1, <1>1 DEF Joins
        <4> HIDE DEF bad
        <4> QED BY <4>2, <4>3, <4>4, <3>3, BlocksJoin
      <3> QED BY <3>4, <3>5
    <2>3. n \in 1 .. n
      BY <1>1, <1>3
    <2> QED BY <2>1, <2>2, <2>3
  <1> QED BY <1>2, <1>3

IsList(s) == \E T : s \in Seq(T)

LEMMA OnlySome ==
    ASSUME NEW T, NEW list \in Seq(T), NEW places
    PROVE  Only(list, places) \in Seq(T)
  <1> DEFINE ss == [i \in DOMAIN list |-> IF i \in places THEN <<list[i]>> ELSE <<>>]
  <1>1. \A i \in DOMAIN list : (IF i \in places THEN <<list[i]>> ELSE <<>>) \in Seq(T)
    OBVIOUS
  <1>2. DOMAIN list = 1 .. Len(list) /\ Len(list) \in Nat
    OBVIOUS
  <1>3. ss \in Seq(Seq(T))
    BY <1>1, <1>2
  <1> HIDE DEF ss
  <1>4. FlattenSeq(ss) \in Seq(T)
    BY <1>3, Flattened
  <1> QED BY <1>4 DEF Only, ss

LEMMA OnlyList ==
    ASSUME NEW list, IsList(list), NEW places
    PROVE  IsList(Only(list, places))
  BY OnlySome DEF IsList

(* ------------------- what is registered waits for what ----------------- *)

Reader == {"tolerance", "collect"}
ReadBy(r, p) == \/ r[1] = "tolerance" /\ p[1] = "member" /\ p[2] = r[2]
                \/ r[1] = "collect" /\ p[1] = "tolerance"
Ties(c, r, p) == c.op = "adddep" /\ c.from = <<r>> /\ p \in ToSet(c.to)

(* A list for one builder that names the experiments P: whatever it adds,  *)
(* it connects afterwards with all that read it and all that it reads.     *)
Tied(cs, b, P) ==
    \A k \in 1 .. Len(cs) :
        /\ cs[k].op \in {"addexp", "adddep"} /\ cs[k].where = On({b})
        /\ cs[k].op = "adddep" => cs[k].across = <<>>
        /\ cs[k].op = "addexp" =>
              /\ cs[k].exps \subseteq P
              /\ \A r, p \in P : ReadBy(r, p) /\ (r \in cs[k].exps \/ p \in cs[k].exps) =>
                    \E j \in 1 .. Len(cs) : k < j /\ Ties(cs[j], r, p)

(* A list without experiments that read the output of others.              *)
Plain(cs) == \A k \in 1 .. Len(cs) : cs[k].op = "addexp" => \A e \in cs[k].exps : e[1] \notin Reader

LEMMA CommandFields ==
    ASSUME NEW exps, NEW where, NEW from, NEW to
    PROVE  /\ AddExp(exps, where).op = "addexp" /\ AddExp(exps, where).exps = exps
           /\ AddExp(exps, where).where = where
           /\ AddDep(from, to, where).op = "adddep" /\ AddDep(from, to, where).from = from
           /\ AddDep(from, to, where).to = to /\ AddDep(from, to, where).where = where
           /\ AddDep(from, to, where).across = <<>>
           /\ RmExp(exps, where).op = "rmexp"
  BY DEF AddExp, AddDep, RmExp

(* The experiments of an ensemble, and the names of all of them.           *)
Named(t, members) == {<<"exp", t.name>>, <<"tolerance", t.name>>} \union ToSet(Perturbed(t, members))

LEMMA NamedFacts ==
    ASSUME NEW t, NEW members, NEW e \in Named(t, members)
    PROVE  /\ e[1] \in {"exp", "tolerance", "member"} /\ e[2] = t.name
           /\ e[1] = "tolerance" => e = <<"tolerance", t.name>>
           /\ e[1] = "member" => e \in ToSet(Perturbed(t, members))
  <1>1. ASSUME e \in ToSet(Perturbed(t, members)) PROVE e[1] = "member" /\ e[2] = t.name
    <2>1. PICK i \in DOMAIN members : e = <<"member", t.name, members[i]>>
      BY <1>1 DEF ToSet, Perturbed
    <2> QED BY <2>1
  <1>2. ASSUME e \notin ToSet(Perturbed(t, members))
        PROVE  e = <<"exp", t.name>> \/ e = <<"tolerance", t.name>>
    BY <1>2 DEF Named
  <1> QED BY <1>1, <1>2

LEMMA PerturbedNames ==
    ASSUME NEW s, NEW t, s.name = t.name, NEW members
    PROVE  Perturbed(s, members) = Perturbed(t, members)
  BY DEF Perturbed

LEMMA WiderSeq ==
    ASSUME NEW A, NEW B \in SUBSET A, NEW s \in Seq(B) PROVE s \in Seq(A)
  OBVIOUS

LEMMA FourOf ==
    ASSUME NEW x, NEW y, NEW z, NEW w, NEW s, s = <<x, y, z, w>>
    PROVE  s \in Seq({x, y, z, w}) /\ Len(s) = 4 /\ s[1] = x /\ s[2] = y /\ s[3] = z /\ s[4] = w
  OBVIOUS

LEMMA OneOfFour ==
    ASSUME NEW t, NEW members, NEW b, NEW c,
           \/ c = AddExp({<<"exp", t.name>>}, On({b}))
           \/ c = AddExp({<<"tolerance", t.name>>}, On({b}))
           \/ c = AddExp(ToSet(Perturbed(t, members)), On({b}))
           \/ c = AddDep(<<<<"tolerance", t.name>>>>, Perturbed(t, members), On({b}))
    PROVE  /\ c.op \in {"addexp", "adddep"} /\ c.where = On({b})
           /\ c.op = "adddep" => c.across = <<>>
           /\ c.op = "addexp" => /\ c # AddDep(<<<<"tolerance", t.name>>>>, Perturbed(t, members), On({b}))
                                 /\ c.exps \subseteq Named(t, members)
  <1> DEFINE A1 == {<<"exp", t.name>>}
             A2 == {<<"tolerance", t.name>>}
             A3 == ToSet(Perturbed(t, members))
             w == On({b})
             from == <<<<"tolerance", t.name>>>>
             to == Perturbed(t, members)
  <1>1. A1 \subseteq Named(t, members) /\ A2 \subseteq Named(t, members) /\ A3 \subseteq Named(t, members)
    BY DEF Named
  <1>2. (\E S \in {A1, A2, A3} : c = AddExp(S, w)) \/ c = AddDep(from, to, w)
    OBVIOUS
  <1>3. \A S \in {A1, A2, A3} : S \subseteq Named(t, members)
    BY <1>1
  <1> HIDE DEF A1, A2, A3, w, from, to
  <1>4. AddDep(from, to, w).op = "adddep"
    BY CommandFields
  <1>5. CASE \E S \in {A1, A2, A3} : c = AddExp(S, w)
    <2>1. PICK S \in {A1, A2, A3} : c = AddExp(S, w)
      BY <1>5
    <2>2. c.op = "addexp" /\ c.where = w /\ c.exps = S
      BY <2>1, CommandFields
    <2>3. c.exps \subseteq Named(t, members)
      BY <1>3, <2>2
    <2>4. c # AddDep(from, to, w)
      BY <1>4, <2>2
    <2> QED BY <2>2, <2>3, <2>4 DEF w, from, to
  <1>6. CASE c = AddDep(from, to, w)
    <2>1. c.op = "adddep" /\ c.where = w /\ c.across = <<>>
      BY <1>6, CommandFields
    <2> QED BY <2>1 DEF w
  <1> QED BY <1>2, <1>5, <1>6

LEMMA TiesOf ==
    ASSUME NEW c, NEW r, NEW p, NEW to, NEW where, c = AddDep(<<r>>, to, where), p \in ToSet(to)
    PROVE  Ties(c, r, p)
  <1>1. c.op = "adddep" /\ c.from = <<r>> /\ c.to = to
    BY CommandFields
  <1> QED BY <1>1 DEF Ties

LEMMA ReadInEnsembles ==
    ASSUME NEW s, NEW sm, NEW t, NEW tm, NEW r \in Named(s, sm), NEW p \in Named(t, tm), ReadBy(r, p)
    PROVE  /\ r = <<"tolerance", s.name>> /\ p \in ToSet(Perturbed(t, tm))
           /\ r[2] = s.name /\ p[2] = t.name /\ s.name = t.name
  <1>1. r[1] \in {"exp", "tolerance", "member"} /\ r[2] = s.name /\ (r[1] = "tolerance" => r = <<"tolerance", s.name>>)
    BY NamedFacts
  <1>2. p[1] \in {"exp", "tolerance", "member"} /\ p[2] = t.name
        /\ (p[1] = "member" => p \in ToSet(Perturbed(t, tm)))
    BY NamedFacts
  <1>3. r[1] = "tolerance" /\ p[1] = "member" /\ p[2] = r[2]
    BY <1>1 DEF ReadBy
  <1> QED BY <1>1, <1>2, <1>3

(* The four commands of each ensemble; tests of one name have one ensemble. *)
SameMembers(mine, mem) == \A i, j \in DOMAIN mine : mine[i].name = mine[j].name => mem[i] = mem[j]
FourEach(ss, mine, mem, b) ==
    /\ Len(ss) = Len(mine)
    /\ \A i \in DOMAIN mine :
          /\ Len(ss[i]) = 4
          /\ ss[i][1] = AddExp({<<"exp", mine[i].name>>}, On({b}))
          /\ ss[i][2] = AddExp({<<"tolerance", mine[i].name>>}, On({b}))
          /\ ss[i][3] = AddExp(ToSet(Perturbed(mine[i], mem[i])), On({b}))
          /\ ss[i][4] = AddDep(<<<<"tolerance", mine[i].name>>>>, Perturbed(mine[i], mem[i]), On({b}))
AllNamed(mine, mem) == UNION {Named(mine[i], mem[i]) : i \in DOMAIN mine}

LEMMA EnsemblesTied ==
    ASSUME NEW T, NEW mine \in Seq(T), NEW mem, NEW b, SameMembers(mine, mem),
           NEW A, NEW ss \in Seq(Seq(A)), FourEach(ss, mine, mem, b)
    PROVE  FlattenSeq(ss) \in Seq(A) /\ Tied(FlattenSeq(ss), b, AllNamed(mine, mem))
  <1> DEFINE D == DOMAIN mine
             F == FlattenSeq(ss)
             P == AllNamed(mine, mem)
  <1>1. D = 1 .. Len(mine) /\ Len(mine) \in Nat
    OBVIOUS
  <1>2. /\ \A i, j \in D : mine[i].name = mine[j].name => mem[i] = mem[j]
        /\ Len(ss) = Len(mine)
        /\ \A i \in D :
              /\ Len(ss[i]) = 4
              /\ ss[i][1] = AddExp({<<"exp", mine[i].name>>}, On({b}))
              /\ ss[i][2] = AddExp({<<"tolerance", mine[i].name>>}, On({b}))
              /\ ss[i][3] = AddExp(ToSet(Perturbed(mine[i], mem[i])), On({b}))
              /\ ss[i][4] = AddDep(<<<<"tolerance", mine[i].name>>>>, Perturbed(mine[i], mem[i]), On({b}))
    BY DEF SameMembers, FourEach
  <1>5. F \in Seq(A) /\ Blocks(F, ss, Len(mine))
    BY <1>1, <1>2, Flattened
  <1> HIDE DEF F, P
  <1>6. ASSUME NEW k \in 1 .. Len(F)
        PROVE  \E i \in D : \E m \in 1 .. 4 :
                   /\ F[k] = ss[i][m] /\ (k - m) + 4 \in 1 .. Len(F) /\ F[(k - m) + 4] = ss[i][4]
    <2>1. PICK i \in 1 .. Len(mine) : \E m \in 1 .. Len(ss[i]) :
              \A q \in 1 .. Len(ss[i]) : (k - m) + q \in 1 .. Len(F) /\ F[(k - m) + q] = ss[i][q]
      BY <1>5 DEF Blocks
    <2>2. i \in D /\ Len(ss[i]) = 4
      BY <1>1, <1>2
    <2>3. PICK m \in 1 .. Len(ss[i]) :
              \A q \in 1 .. Len(ss[i]) : (k - m) + q \in 1 .. Len(F) /\ F[(k - m) + q] = ss[i][q]
      BY <2>1
    <2>4. m \in 1 .. 4 /\ 4 \in 1 .. Len(ss[i]) /\ (k - m) + m = k
      BY <2>2
    <2>5. F[(k - m) + m] = ss[i][m] /\ (k - m) + 4 \in 1 .. Len(F) /\ F[(k - m) + 4] = ss[i][4]
      BY <2>3, <2>4
    <2> QED BY <2>2, <2>4, <2>5
  <1>7. ASSUME NEW e \in P PROVE \E i \in D : e \in Named(mine[i], mem[i])
    BY DEF P, AllNamed
  <1>8. ASSUME NEW k \in 1 .. Len(F)
        PROVE  /\ F[k].op \in {"addexp", "adddep"} /\ F[k].where = On({b})
               /\ F[k].op = "adddep" => F[k].across = <<>>
               /\ F[k].op = "addexp" =>
                     /\ F[k].exps \subseteq P
                     /\ \A r, p \in P : ReadBy(r, p) /\ (r \in F[k].exps \/ p \in F[k].exps) =>
                           \E j \in 1 .. Len(F) : k < j /\ Ties(F[j], r, p)
    <2>1. PICK i \in D, m \in 1 .. 4 :
              /\ F[k] = ss[i][m] /\ (k - m) + 4 \in 1 .. Len(F) /\ F[(k - m) + 4] = ss[i][4]
      BY <1>6
    <2>2. /\ ss[i][1] = AddExp({<<"exp", mine[i].name>>}, On({b}))
          /\ ss[i][2] = AddExp({<<"tolerance", mine[i].name>>}, On({b}))
          /\ ss[i][3] = AddExp(ToSet(Perturbed(mine[i], mem[i])), On({b}))
          /\ ss[i][4] = AddDep(<<<<"tolerance", mine[i].name>>>>, Perturbed(mine[i], mem[i]), On({b}))
      BY <1>2
    <2>3. m \in {1, 2, 3, 4}
      OBVIOUS
    <2>4. /\ F[k].op \in {"addexp", "adddep"} /\ F[k].where = On({b})
          /\ F[k].op = "adddep" => F[k].across = <<>>
          /\ F[k].op = "addexp" => m # 4 /\ F[k].exps \subseteq Named(mine[i], mem[i])
      <3> DEFINE t == mine[i]
                 ms == mem[i]
                 c == F[k]
      <3>1. /\ m = 1 => c = AddExp({<<"exp", t.name>>}, On({b}))
            /\ m = 2 => c = AddExp({<<"tolerance", t.name>>}, On({b}))
            /\ m = 3 => c = AddExp(ToSet(Perturbed(t, ms)), On({b}))
            /\ m = 4 => c = AddDep(<<<<"tolerance", t.name>>>>, Perturbed(t, ms), On({b}))
        BY <2>1, <2>2
      <3> HIDE DEF t, ms, c
      <3>2. \/ c = AddExp({<<"exp", t.name>>}, On({b}))
            \/ c = AddExp({<<"tolerance", t.name>>}, On({b}))
            \/ c = AddExp(ToSet(Perturbed(t, ms)), On({b}))
            \/ c = AddDep(<<<<"tolerance", t.name>>>>, Perturbed(t, ms), On({b}))
        BY ONLY <2>3, <3>1
      <3>3. /\ c.op \in {"addexp", "adddep"} /\ c.where = On({b})
            /\ c.op = "adddep" => c.across = <<>>
            /\ c.op = "addexp" => /\ c # AddDep(<<<<"tolerance", t.name>>>>, Perturbed(t, ms), On({b}))
                                  /\ c.exps \subseteq Named(t, ms)
        BY ONLY <3>2, OneOfFour
      <3>4. c.op = "addexp" => m # 4
        BY ONLY <3>1, <3>3
      <3> QED BY ONLY <3>3, <3>4 DEF t, ms, c
    <2>5. Named(mine[i], mem[i]) \subseteq P
      BY DEF P, AllNamed
    <2>6. ASSUME F[k].op = "addexp", NEW r \in P, NEW p \in P, ReadBy(r, p), r \in F[k].exps \/ p \in F[k].exps
          PROVE  \E j \in 1 .. Len(F) : k < j /\ Ties(F[j], r, p)
      <3>1. PICK u \in D, v \in D : r \in Named(mine[u], mem[u]) /\ p \in Named(mine[v], mem[v])
        BY <1>7
      <3>2. r = <<"tolerance", mine[u].name>> /\ p \in ToSet(Perturbed(mine[v], mem[v]))
            /\ r[2] = mine[u].name /\ p[2] = mine[v].name /\ mine[u].name = mine[v].name
        BY ONLY <3>1, <2>6, ReadInEnsembles
      <3>3. mine[u].name = mine[i].name /\ mine[v].name = mine[i].name
        <4>1. r[2] = mine[i].name \/ p[2] = mine[i].name
          BY <2>4, <2>6, NamedFacts
        <4> QED BY <3>2, <4>1
      <3>4. mem[v] = mem[i]
        BY <1>2, <3>3
      <3>5. r = <<"tolerance", mine[i].name>> /\ p \in ToSet(Perturbed(mine[i], mem[i]))
        BY <3>2, <3>3, <3>4, PerturbedNames
      <3>6. PICK j : j = (k - m) + 4
        OBVIOUS
      <3>7. j \in 1 .. Len(F) /\ k < j
        BY <2>1, <2>4, <2>6, <3>6
      <3>8. Ties(F[j], r, p)
        <4>1. F[j] = AddDep(<<r>>, Perturbed(mine[i], mem[i]), On({b}))
          BY <2>1, <2>2, <3>5, <3>6
        <4> QED BY ONLY <3>5, <4>1, TiesOf
      <3> QED BY <3>7, <3>8
    <2> QED BY <2>4, <2>5, <2>6
  <1>9. Tied(F, b, P)
    BY <1>8 DEF Tied
  <1> QED BY <1>5, <1>9 DEF F, P

LEMMA EnsemblesMade ==
    ASSUME NEW mine, IsList(mine), NEW mem, NEW b, NEW ss,
           SameMembers(mine, mem),
           ss = [i \in DOMAIN mine |-> RegisterEnsemble(mine[i], b, mem[i])]
    PROVE  IsList(FlattenSeq(ss)) /\ Tied(FlattenSeq(ss), b, AllNamed(mine, mem))
  <1>1. PICK T : mine \in Seq(T)
    BY DEF IsList
  <1>2. DOMAIN mine = 1 .. Len(mine) /\ Len(mine) \in Nat
    BY <1>1
  <1> DEFINE X(i) == AddExp({<<"exp", mine[i].name>>}, On({b}))
             Y(i) == AddExp({<<"tolerance", mine[i].name>>}, On({b}))
             Z(i) == AddExp(ToSet(Perturbed(mine[i], mem[i])), On({b}))
             W(i) == AddDep(<<<<"tolerance", mine[i].name>>>>, Perturbed(mine[i], mem[i]), On({b}))
             A == UNION {{X(i), Y(i), Z(i), W(i)} : i \in DOMAIN mine}
  <1>3. \A i \in DOMAIN mine : ss[i] = <<X(i), Y(i), Z(i), W(i)>>
    BY DEF RegisterEnsemble
  <1>4. ASSUME NEW i \in DOMAIN mine PROVE {X(i), Y(i), Z(i), W(i)} \subseteq A
    OBVIOUS
  <1> HIDE DEF A, X, Y, Z, W
  <1>5. ASSUME NEW i \in DOMAIN mine
        PROVE  ss[i] \in Seq(A) /\ Len(ss[i]) = 4
               /\ ss[i][1] = X(i) /\ ss[i][2] = Y(i) /\ ss[i][3] = Z(i) /\ ss[i][4] = W(i)
    <2>1. ss[i] \in Seq({X(i), Y(i), Z(i), W(i)}) /\ Len(ss[i]) = 4
          /\ ss[i][1] = X(i) /\ ss[i][2] = Y(i) /\ ss[i][3] = Z(i) /\ ss[i][4] = W(i)
      <3>1. PICK s, x, y, z, w : s = ss[i] /\ x = X(i) /\ y = Y(i) /\ z = Z(i) /\ w = W(i)
        OBVIOUS
      <3>2. s = <<x, y, z, w>>
        BY <1>3, <3>1
      <3>3. s \in Seq({x, y, z, w}) /\ Len(s) = 4 /\ s[1] = x /\ s[2] = y /\ s[3] = z /\ s[4] = w
        BY ONLY <3>2, FourOf
      <3> QED BY ONLY <3>1, <3>3
    <2>2. ss[i] \in Seq(A)
      BY ONLY <2>1, <1>4, WiderSeq
    <2> QED BY <2>1, <2>2
  <1>6. ss \in Seq(Seq(A)) /\ Len(ss) = Len(mine)
    BY <1>2, <1>5
  <1>7. FlattenSeq(ss) \in Seq(A) /\ Tied(FlattenSeq(ss), b, AllNamed(mine, mem))
    <2>1. FourEach(ss, mine, mem, b)
      BY <1>5, <1>6 DEF FourEach, X, Y, Z, W
    <2> QED BY ONLY <1>1, <1>6, <2>1, SameMembers(mine, mem), EnsemblesTied
  <1> QED BY <1>7 DEF IsList

LEMMA JoinedLists ==
    ASSUME NEW s, NEW t, IsList(s), IsList(t)
    PROVE  /\ IsList(s \o t) /\ Len(s \o t) = Len(s) + Len(t) /\ Len(s) \in Nat /\ Len(t) \in Nat
           /\ \A k \in 1 .. Len(s) : (s \o t)[k] = s[k]
           /\ \A k \in 1 .. Len(t) : (s \o t)[Len(s) + k] = t[k]
  <1>1. PICK S, T : s \in Seq(S) /\ t \in Seq(T)
    BY DEF IsList
  <1>2. s \in Seq(S \union T) /\ t \in Seq(S \union T)
    BY <1>1, WiderSeq
  <1>3. s \o t \in Seq(S \union T)
    BY <1>2
  <1> QED BY <1>2, <1>3 DEF IsList

LEMMA PairList == ASSUME NEW x, NEW y PROVE IsList(<<x, y>>) /\ Len(<<x, y>>) = 2 /\ <<x, y>>[1] = x /\ <<x, y>>[2] = y
  <1>1. <<x, y>> \in Seq({x, y})
    OBVIOUS
  <1> QED BY <1>1 DEF IsList

(* A job that collects from all tolerances.                                *)
LEMMA CollectTied ==
    ASSUME NEW cs, IsList(cs), NEW b, NEW P, Tied(cs, b, P), NEW what, NEW read,
           {p \in P : p[1] = "tolerance"} \subseteq ToSet(read),
           NEW more, more = <<AddExp({<<"collect", what>>}, On({b})), AddDep(<<<<"collect", what>>>>, read, On({b}))>>
    PROVE  IsList(cs \o more) /\ Tied(cs \o more, b, P \union {<<"collect", what>>})
  <1> DEFINE n == Len(cs)
             F == cs \o more
             x == AddExp({<<"collect", what>>}, On({b}))
             y == AddDep(<<<<"collect", what>>>>, read, On({b}))
             Q == P \union {<<"collect", what>>}
  <1>1. PICK c : c = <<"collect", what>> /\ c[1] = "collect"
    OBVIOUS
  <1>2. IsList(more) /\ Len(more) = 2 /\ more[1] = x /\ more[2] = y
    BY PairList
  <1>3. /\ IsList(F) /\ Len(F) = n + 2 /\ n \in Nat
        /\ \A k \in 1 .. n : F[k] = cs[k]
        /\ F[n + 1] = x /\ F[n + 2] = y
    <2> HIDE DEF x, y
    <2>1. /\ IsList(F) /\ Len(F) = n + 2 /\ n \in Nat
          /\ \A k \in 1 .. n : F[k] = cs[k]
          /\ \A k \in 1 .. 2 : F[n + k] = more[k]
      BY <1>2, JoinedLists
    <2> QED BY <2>1, <1>2
  <1>4. /\ x.op = "addexp" /\ x.exps = {c} /\ x.where = On({b})
        /\ y.op = "adddep" /\ y.where = On({b}) /\ y.across = <<>>
    BY <1>1, CommandFields
  <1>5. ASSUME NEW p, p \in ToSet(read) PROVE Ties(y, c, p)
    BY <1>1, <1>5, TiesOf
  <1>6. Q = P \union {c}
    BY <1>1
  <1> HIDE DEF F, x, y, n, Q
  <1>7. ASSUME NEW r \in Q, NEW p \in Q, ReadBy(r, p) PROVE p \in P /\ (r \notin P => r = c /\ p \in ToSet(read))
    BY <1>1, <1>6, <1>7 DEF ReadBy
  <1>8. ASSUME NEW k \in 1 .. Len(F)
        PROVE  /\ F[k].op \in {"addexp", "adddep"} /\ F[k].where = On({b})
               /\ F[k].op = "adddep" => F[k].across = <<>>
               /\ F[k].op = "addexp" =>
                     /\ F[k].exps \subseteq Q
                     /\ \A r, p \in Q : ReadBy(r, p) /\ (r \in F[k].exps \/ p \in F[k].exps) =>
                           \E j \in 1 .. Len(F) : k < j /\ Ties(F[j], r, p)
    <2>1. CASE k \in 1 .. n
      <3>1. /\ cs[k].op \in {"addexp", "adddep"} /\ cs[k].where = On({b})
            /\ cs[k].op = "adddep" => cs[k].across = <<>>
            /\ cs[k].op = "addexp" =>
                  /\ cs[k].exps \subseteq P
                  /\ \A r, p \in P : ReadBy(r, p) /\ (r \in cs[k].exps \/ p \in cs[k].exps) =>
                        \E j \in 1 .. n : k < j /\ Ties(cs[j], r, p)
        BY <2>1 DEF Tied, n
      <3>2. F[k] = cs[k]
        BY <1>3, <2>1
      <3>3. ASSUME F[k].op = "addexp", NEW r \in Q, NEW p \in Q, ReadBy(r, p), r \in F[k].exps \/ p \in F[k].exps
            PROVE  \E j \in 1 .. Len(F) : k < j /\ Ties(F[j], r, p)
        <4>1. CASE r \in P
          <5>1. p \in P
            BY <1>7, <3>3
          <5>2. PICK j \in 1 .. n : k < j /\ Ties(cs[j], r, p)
            BY <3>1, <3>2, <3>3, <4>1, <5>1
          <5>3. j \in 1 .. Len(F) /\ F[j] = cs[j]
            BY <1>3
          <5> QED BY <5>2, <5>3
        <4>2. CASE r \notin P
          <5>1. Ties(F[n + 2], r, p)
            BY <1>3, <1>5, <1>7, <3>3, <4>2
          <5>2. n + 2 \in 1 .. Len(F) /\ k < n + 2
            BY <1>3, <2>1
          <5> QED BY <5>1, <5>2
        <4> QED BY <4>1, <4>2
      <3> QED BY <3>1, <3>2, <3>3, <1>6
    <2>2. CASE k = n + 1
      <3>1. F[k] = x
        BY <1>3, <2>2
      <3>2. ASSUME NEW r \in Q, NEW p \in Q, ReadBy(r, p), r \in F[k].exps \/ p \in F[k].exps
            PROVE  \E j \in 1 .. Len(F) : k < j /\ Ties(F[j], r, p)
        <4>1. r = c \/ p = c
          BY <3>1, <3>2, <1>4
        <4>2. p[1] \in {"member", "tolerance"} /\ (r = c => p[1] = "tolerance")
          BY <3>2, <1>1 DEF ReadBy
        <4>3. r = c /\ p[1] = "tolerance"
          BY <4>1, <4>2, <1>1
        <4>4. p \in ToSet(read)
          BY <1>7, <3>2, <4>3
        <4>5. Ties(F[n + 2], r, p)
          BY <1>3, <1>5, <4>3, <4>4
        <4>6. n + 2 \in 1 .. Len(F) /\ k < n + 2
          BY <1>3, <2>2
        <4> QED BY <4>5, <4>6
      <3> QED BY <3>1, <3>2, <1>4, <1>6
    <2>3. CASE k = n + 2
      <3>1. F[k] = y
        BY <1>3, <2>3
      <3> QED BY <3>1, <1>4
    <2> QED BY <1>3, <2>1, <2>2, <2>3
  <1>9. Tied(F, b, Q)
    BY <1>8 DEF Tied
  <1> QED BY <1>3, <1>9 DEF F, Q

(* Members belong to the name of a test.                                   *)
LEMMA MembersByName ==
    ASSUME NEW tests, NEW s, NEW t, s.name = t.name, NEW b
    PROVE  MembersOf(tests, s, b) = MembersOf(tests, t, b)
  <1>1. First(tests, s.name) = First(tests, t.name)
    OBVIOUS
  <1> QED BY <1>1, Zenon DEF MembersOf

LEMMA AllTolerances ==
    ASSUME NEW mine, NEW mem, NEW read, read = [i \in DOMAIN mine |-> <<"tolerance", mine[i].name>>]
    PROVE  {p \in AllNamed(mine, mem) : p[1] = "tolerance"} \subseteq ToSet(read)
  <1>1. ASSUME NEW p \in AllNamed(mine, mem), p[1] = "tolerance" PROVE p \in ToSet(read)
    <2>1. PICK i \in DOMAIN mine : p \in Named(mine[i], mem[i])
      BY DEF AllNamed
    <2>2. p = <<"tolerance", mine[i].name>>
      BY <1>1, <2>1, NamedFacts
    <2>3. i \in DOMAIN read /\ read[i] = p
      BY <2>2
    <2> QED BY <2>3 DEF ToSet
  <1> QED BY <1>1

LEMMA RegisterListTied ==
    ASSUME NEW tests, IsList(tests), NEW b, NEW tag
    PROVE  \E P : IsList(RegisterList(tests, b, tag)) /\ Tied(RegisterList(tests, b, tag), b, P)
  <1> DEFINE mine == Only(tests, {i \in DOMAIN tests : b \in tests[i].refgen})
             members(t) == IF tag = "select-members" THEN AllMembers ELSE MembersOf(tests, t, b)
             ss == [i \in DOMAIN mine |-> RegisterEnsemble(mine[i], b, members(mine[i]))]
             mem == [i \in DOMAIN mine |-> members(mine[i])]
             read == [i \in DOMAIN mine |-> <<"tolerance", mine[i].name>>]
             collect(what) == <<AddExp({<<"collect", what>>}, On({b})), AddDep(<<<<"collect", what>>>>, read, On({b}))>>
             F == FlattenSeq(ss)
             P == AllNamed(mine, mem)
             G == F \o collect("hashes")
             Q == P \union {<<"collect", "hashes">>}
  <1>1. RegisterList(tests, b, tag) = G \o IF tag = "select-members" THEN collect("members") ELSE <<>>
    BY Zenon DEF RegisterList
  <1>2. IsList(mine)
    BY OnlyList
  <1>3. SameMembers(mine, mem)
    <2> HIDE DEF mine
    <2>1. \A s, t : s.name = t.name => MembersOf(tests, s, b) = MembersOf(tests, t, b)
      BY MembersByName
    <2>2. \A s, t : s.name = t.name => members(s) = members(t)
      BY <2>1
    <2> HIDE DEF members
    <2> QED BY <2>2 DEF SameMembers
  <1>4. IsList(F) /\ Tied(F, b, P)
    <2>1. ss = [i \in DOMAIN mine |-> RegisterEnsemble(mine[i], b, mem[i])]
      <3> HIDE DEF mine, members
      <3> QED OBVIOUS
    <2> HIDE DEF mine, members, mem, ss
    <2> QED BY <1>2, <1>3, <2>1, EnsemblesMade
  <1>5. {p \in P : p[1] = "tolerance"} \subseteq ToSet(read)
    <2> HIDE DEF mine, mem
    <2> QED BY AllTolerances
  <1>6. {p \in Q : p[1] = "tolerance"} \subseteq ToSet(read)
    <2>1. PICK c : c = <<"collect", "hashes">> /\ c[1] = "collect"
      <3>1. <<"collect", "hashes">>[1] = "collect"
        OBVIOUS
      <3> HIDE DEF mine, mem, members, ss, read, collect, F, P, G, Q
      <3> QED BY ONLY <3>1, Zenon
    <2>2. Q = P \union {c}
      BY <2>1
    <2> HIDE DEF P, Q, read
    <2> QED BY <1>5, <2>1, <2>2
  <1>7. IsList(G) /\ Tied(G, b, Q)
    <2> HIDE DEF F, P, read
    <2> QED BY <1>4, <1>5, CollectTied
  <1>8. CASE tag = "select-members"
    <2>1. IsList(G \o collect("members")) /\ Tied(G \o collect("members"), b, Q \union {<<"collect", "members">>})
      <3> HIDE DEF G, Q, read
      <3> QED BY <1>6, <1>7, CollectTied
    <2> QED BY <1>1, <1>8, <2>1
  <1>9. CASE tag # "select-members"
    <2>1. G \o <<>> = G
      <3> HIDE DEF G
      <3> QED BY <1>7, JoinNone DEF IsList
    <2> QED BY <1>1, <1>7, <1>9, <2>1
  <1> QED BY <1>8, <1>9

(* The tests are a list with lists of machines, and names are theirs.      *)
HasMachines(t) == "machines" \in DOMAIN t /\ IsList(t.machines)
Lists(all, names) ==
    /\ IsList(all) /\ \A i \in DOMAIN all : HasMachines(all[i])
    /\ IsList(names) /\ \A i \in DOMAIN names : \E j \in DOMAIN all : all[j].name = names[i]

LEMMA FirstFound ==
    ASSUME NEW tests, IsList(tests), NEW name, NEW k \in DOMAIN tests, tests[k].name = name
    PROVE  \E i \in DOMAIN tests : First(tests, name) = tests[i] /\ tests[i].name = name
  <1> DEFINE S == {i \in DOMAIN tests : tests[i].name = name}
             ok(i) == tests[i].name = name /\ \A j \in 1 .. i - 1 : tests[j].name # name
  <1>1. PICK T : tests \in Seq(T)
    BY DEF IsList
  <1>2. DOMAIN tests = 1 .. Len(tests) /\ Len(tests) \in Nat
    BY <1>1
  <1>3. S \in SUBSET Nat /\ k \in S
    BY <1>2
  <1>4. PICK m \in S : \A x \in S : m <= x
    <2> HIDE DEF S
    <2> QED BY <1>3, LeastNat
  <1>5. m \in DOMAIN tests /\ m \in 1 .. Len(tests) /\ tests[m].name = name
    BY <1>2
  <1>6. ASSUME NEW j \in 1 .. m - 1, tests[j].name = name PROVE FALSE
    <2>1. j \in S /\ ~(m <= j)
      BY <1>2, <1>5, <1>6
    <2> QED BY <2>1, <1>4
  <1>7. \E i \in DOMAIN tests : ok(i)
    BY <1>5, <1>6
  <1>8. PICK i : i = CHOOSE q \in DOMAIN tests : ok(q)
    OBVIOUS
  <1> HIDE DEF ok
  <1>9. i \in DOMAIN tests /\ ok(i)
    BY <1>7, <1>8
  <1>10. First(tests, name) = tests[i]
    BY <1>8, Zenon DEF First, ok
  <1> QED BY <1>9, <1>10 DEF ok

LEMMA FoundByNames ==
    ASSUME NEW all, NEW names, Lists(all, names)
    PROVE  /\ IsList(ByNames(all, names))
           /\ \A i \in DOMAIN ByNames(all, names) : HasMachines(ByNames(all, names)[i])
  <1>1. CASE names = <<>>
    BY <1>1 DEF ByNames, Lists
  <1>2. CASE names # <<>>
    <2> DEFINE found == [i \in DOMAIN names |-> First(all, names[i])]
               M == {First(all, names[i]) : i \in DOMAIN names}
    <2>1. ByNames(all, names) = found
      BY <1>2 DEF ByNames
    <2>2. PICK T : names \in Seq(T)
      BY DEF Lists, IsList
    <2>3. found \in Seq(M)
      BY <2>2
    <2>4. ASSUME NEW i \in DOMAIN names PROVE HasMachines(found[i])
      <3>1. PICK j \in DOMAIN all : all[j].name = names[i]
        BY DEF Lists
      <3>2. PICK k \in DOMAIN all : First(all, names[i]) = all[k]
        BY <3>1, FirstFound DEF Lists
      <3> QED BY <3>2 DEF Lists
    <2> QED BY <2>1, <2>3, <2>4 DEF IsList
  <1> QED BY <1>1, <1>2

(* The entries at some places are among all.                               *)
LEMMA OnlyAmong ==
    ASSUME NEW list, IsList(list), NEW places, NEW e \in ToSet(Only(list, places))
    PROVE  \E i \in DOMAIN list : list[i] = e
  <1>1. PICK T : list \in Seq(T)
    BY DEF IsList
  <1> DEFINE R == {list[i] : i \in DOMAIN list}
  <1>2. list \in Seq(R)
    BY <1>1
  <1>3. Only(list, places) \in Seq(R)
    BY <1>2, OnlySome
  <1> HIDE DEF R
  <1>4. e \in R
    BY <1>3, InSeq
  <1> QED BY <1>4 DEF R

LEMMA OnlyWithMachines ==
    ASSUME NEW list, IsList(list), \A i \in DOMAIN list : HasMachines(list[i]), NEW places
    PROVE  IsList(Only(list, places)) /\ \A i \in DOMAIN Only(list, places) : HasMachines(Only(list, places)[i])
  <1>1. PICK s : s = Only(list, places)
    OBVIOUS
  <1>2. IsList(s)
    BY <1>1, OnlyList
  <1>3. ASSUME NEW i \in DOMAIN s PROVE HasMachines(s[i])
    <2>1. s[i] \in ToSet(s)
      BY DEF ToSet
    <2>2. PICK j \in DOMAIN list : list[j] = s[i]
      BY <1>1, <2>1, OnlyAmong
    <2> QED BY <2>2
  <1> QED BY <1>1, <1>2, <1>3

LEMMA MachinesOf == ASSUME NEW t, "machines" \in DOMAIN t, NEW v PROVE [t EXCEPT !.machines = v].machines = v
  OBVIOUS

LEMMA OnBuildbotLists ==
    ASSUME NEW tests, IsList(tests), \A i \in DOMAIN tests : HasMachines(tests[i])
    PROVE  /\ IsList(OnBuildbot(tests))
           /\ \A i \in DOMAIN OnBuildbot(tests) : IsList(OnBuildbot(tests)[i].machines)
  <1> DEFINE on(t) == Only(t.machines, {m \in DOMAIN t.machines : t.machines[m].name \in SupportedMachines(FALSE)})
             kept == Only(tests, {i \in DOMAIN tests : on(tests[i]) # <<>>})
             new(i) == [kept[i] EXCEPT !.machines = on(kept[i])]
             s == [i \in DOMAIN kept |-> new(i)]
             R == {new(i) : i \in DOMAIN kept}
  <1>1. OnBuildbot(tests) = s
    BY Zenon DEF OnBuildbot
  <1>2. IsList(kept) /\ \A i \in DOMAIN kept : HasMachines(kept[i])
    <2>1. PICK places : places = {i \in DOMAIN tests : on(tests[i]) # <<>>}
      OBVIOUS
    <2>2. kept = Only(tests, places)
      BY <2>1
    <2> HIDE DEF kept
    <2> QED BY <2>2, OnlyWithMachines
  <1>3. ASSUME NEW t, HasMachines(t) PROVE IsList(on(t))
    BY <1>3, OnlyList DEF HasMachines
  <1> HIDE DEF on, kept
  <1>4. ASSUME NEW i \in DOMAIN kept PROVE IsList(new(i).machines)
    <2>1. HasMachines(kept[i])
      BY <1>2
    <2>2. new(i).machines = on(kept[i])
      BY <2>1, MachinesOf DEF HasMachines
    <2> QED BY <1>3, <2>1, <2>2
  <1>5. PICK T : kept \in Seq(T)
    BY <1>2 DEF IsList
  <1> HIDE DEF new
  <1>6. s \in Seq(R)
    BY <1>5
  <1> QED BY <1>1, <1>4, <1>6 DEF IsList

LEMMA TestsOnBuildbot ==
    ASSUME NEW all, NEW names, Lists(all, names), NEW tag
    PROVE  LET tests == OnBuildbot(ByTag(ByNames(all, names), tag))
           IN IsList(tests) /\ \A i \in DOMAIN tests : IsList(tests[i].machines)
  <1>1. PICK s : s = ByNames(all, names)
    OBVIOUS
  <1>2. IsList(s) /\ \A i \in DOMAIN s : HasMachines(s[i])
    BY <1>1, FoundByNames
  <1>3. PICK places : ByTag(s, tag) = Only(s, places)
    BY DEF ByTag
  <1>4. PICK t : t = Only(s, places)
    OBVIOUS
  <1>5. IsList(t) /\ \A i \in DOMAIN t : HasMachines(t[i])
    BY <1>2, <1>4, OnlyWithMachines
  <1>6. IsList(OnBuildbot(t)) /\ \A i \in DOMAIN OnBuildbot(t) : IsList(OnBuildbot(t)[i].machines)
    BY <1>5, OnBuildbotLists
  <1> QED BY <1>1, <1>3, <1>4, <1>6

LEMMA FlattenAmong ==
    ASSUME NEW n \in Nat, NEW ss, DOMAIN ss = 1 .. n, ss = [i \in 1 .. n |-> ss[i]], \A i \in 1 .. n : IsList(ss[i])
    PROVE  /\ IsList(FlattenSeq(ss))
           /\ \A c \in ToSet(FlattenSeq(ss)) : \E i \in 1 .. n : c \in ToSet(ss[i])
  <1> DEFINE A == UNION {ToSet(ss[i]) : i \in 1 .. n}
  <1>1. ASSUME NEW i \in 1 .. n PROVE ss[i] \in Seq(A)
    <2>1. PICK T : ss[i] \in Seq(T)
      BY <1>1 DEF IsList
    <2>2. ss[i] \in Seq(ToSet(ss[i]))
      BY <2>1 DEF ToSet
    <2>3. ToSet(ss[i]) \subseteq A
      OBVIOUS
    <2> HIDE DEF A
    <2> QED BY <2>2, <2>3, WiderSeq
  <1> HIDE DEF A
  <1>2. ss \in Seq(Seq(A))
    BY <1>1
  <1>3. FlattenSeq(ss) \in Seq(A)
    BY <1>2, Flattened
  <1>4. ASSUME NEW c \in ToSet(FlattenSeq(ss)) PROVE \E i \in 1 .. n : c \in ToSet(ss[i])
    <2>1. c \in A
      BY <1>3, InSeq
    <2> QED BY <2>1 DEF A
  <1> QED BY <1>3, <1>4 DEF IsList

Harmless(c) == c.op = "addexp" => \A e \in c.exps : e[1] \notin Reader

LEMMA CheckHarmless ==
    ASSUME NEW check, NEW where
    PROVE  Harmless(AddExp({<<"check", check>>}, where)) /\ Harmless(RmExp({<<"check", check>>}, where))
  <1>1. PICK e : e = <<"check", check>> /\ e[1] = "check"
    <2>1. <<"check", check>>[1] = "check"
      OBVIOUS
    <2> QED BY <2>1, Zenon
  <1>2. e[1] \notin Reader
    BY <1>1 DEF Reader
  <1>3. /\ AddExp({e}, where).op = "addexp" /\ AddExp({e}, where).exps = {e} /\ RmExp({e}, where).op = "rmexp"
    BY CommandFields
  <1> QED BY <1>1, <1>2, <1>3 DEF Harmless

LEMMA OneList == ASSUME NEW x PROVE IsList(<<x>>) /\ ToSet(<<x>>) = {x}
  <1>1. <<x>> \in Seq({x}) /\ DOMAIN <<x>> = {1} /\ <<x>>[1] = x
    OBVIOUS
  <1>2. PICK s : s = <<x>>
    OBVIOUS
  <1>3. ToSet(s) = {x}
    BY <1>1, <1>2 DEF ToSet
  <1> QED BY <1>1, <1>2, <1>3 DEF IsList

LEMMA TwoList == ASSUME NEW x, NEW y PROVE IsList(<<x, y>>) /\ ToSet(<<x, y>>) = {x, y}
  <1>1. <<x, y>> \in Seq({x, y}) /\ DOMAIN <<x, y>> = {1, 2} /\ <<x, y>>[1] = x /\ <<x, y>>[2] = y
    OBVIOUS
  <1>2. PICK s : s = <<x, y>>
    OBVIOUS
  <1>3. ToSet(s) = {x, y}
    BY <1>1, <1>2 DEF ToSet
  <1> QED BY <1>1, <1>2, <1>3 DEF IsList

LEMMA DefaultHarmless ==
    ASSUME NEW t, IsList(t.machines)
    PROVE  IsList(RegisterDefault(t)) /\ \A c \in ToSet(RegisterDefault(t)) : Harmless(c)
  <1> DEFINE X == {<<"check", t.check>>}
             commands_(m) == IF m.only # NoLimit THEN <<AddExp(X, On(m.only))>>
                             ELSE IF m.except # NoLimit THEN <<AddExp(X, OnMachine(m.name)), RmExp(X, On(m.except))>>
                             ELSE <<AddExp(X, OnMachine(m.name))>>
             ss == [i \in DOMAIN t.machines |-> commands_(t.machines[i])]
  <1>1. RegisterDefault(t) = FlattenSeq(ss)
    BY Zenon DEF RegisterDefault
  <1>2. ASSUME NEW where PROVE Harmless(AddExp(X, where)) /\ Harmless(RmExp(X, where))
    BY CheckHarmless
  <1> HIDE DEF X
  <1>3. ASSUME NEW m PROVE IsList(commands_(m)) /\ \A c \in ToSet(commands_(m)) : Harmless(c)
    <2>1. PICK x, y, z, w : /\ x = AddExp(X, On(m.only)) /\ y = AddExp(X, OnMachine(m.name))
                            /\ z = RmExp(X, On(m.except)) /\ w = commands_(m)
      OBVIOUS
    <2>2. Harmless(x) /\ Harmless(y) /\ Harmless(z)
      BY <1>2, <2>1
    <2>3. w = <<x>> \/ w = <<y, z>> \/ w = <<y>>
      BY <2>1
    <2> HIDE DEF commands_
    <2>4. IsList(w) /\ \A c \in ToSet(w) : Harmless(c)
      BY ONLY <2>2, <2>3, OneList, TwoList
    <2> QED BY <2>1, <2>4
  <1> HIDE DEF commands_
  <1>4. PICK T : t.machines \in Seq(T)
    BY DEF IsList
  <1>5. PICK n \in Nat : DOMAIN t.machines = 1 .. n
    BY <1>4
  <1>6. DOMAIN ss = 1 .. n /\ ss = [i \in 1 .. n |-> ss[i]]
        /\ \A i \in 1 .. n : IsList(ss[i]) /\ \A c \in ToSet(ss[i]) : Harmless(c)
    BY <1>3, <1>5
  <1> HIDE DEF ss
  <1> QED BY <1>1, <1>6, FlattenAmong

LEMMA RegisterPlain ==
    ASSUME NEW all, NEW names, Lists(all, names), NEW tag, tag \notin Probtest, NEW b
    PROVE  Plain(Register(all, tag, b, names))
  <1> DEFINE tests == OnBuildbot(ByTag(ByNames(all, names), tag))
             ss == [i \in DOMAIN tests |-> RegisterDefault(tests[i])]
  <1>1. Register(all, tag, b, names) = FlattenSeq(ss)
    BY Zenon DEF Register
  <1>2. IsList(tests) /\ \A i \in DOMAIN tests : IsList(tests[i].machines)
    BY TestsOnBuildbot
  <1> HIDE DEF tests
  <1>3. PICK n \in Nat : DOMAIN tests = 1 .. n
    BY <1>2 DEF IsList
  <1>4. DOMAIN ss = 1 .. n /\ ss = [i \in 1 .. n |-> ss[i]]
        /\ \A i \in 1 .. n : IsList(ss[i]) /\ \A c \in ToSet(ss[i]) : Harmless(c)
    BY <1>2, <1>3, DefaultHarmless
  <1> HIDE DEF ss
  <1>5. IsList(FlattenSeq(ss)) /\ \A c \in ToSet(FlattenSeq(ss)) : Harmless(c)
    BY <1>4, FlattenAmong
  <1>6. PICK F : F = FlattenSeq(ss)
    OBVIOUS
  <1>7. ASSUME NEW k \in 1 .. Len(F) PROVE Harmless(F[k])
    <2>1. PICK T : F \in Seq(T)
      BY <1>5, <1>6 DEF IsList
    <2>2. F[k] \in ToSet(F)
      BY <2>1, InSeq
    <2> QED BY <1>5, <1>6, <2>2
  <1> QED BY <1>1, <1>6, <1>7 DEF Plain, Harmless

LEMMA RegisterTied ==
    ASSUME NEW all, NEW names, Lists(all, names), NEW tag, tag \in Probtest, NEW b
    PROVE  \E P : Tied(Register(all, tag, b, names), b, P)
  <1> DEFINE tests == OnBuildbot(ByTag(ByNames(all, names), tag))
  <1>1. Register(all, tag, b, names) = RegisterList(tests, b, tag)
    BY Zenon DEF Register
  <1>2. IsList(tests)
    BY TestsOnBuildbot
  <1> HIDE DEF tests
  <1> QED BY <1>1, <1>2, RegisterListTied

(* -------------------- from the tests to the batch system --------------- *)

WaitsFor(r, p, b) == \E l \in links : l.from = matrix[<<r, b>>] /\ l.to = matrix[<<p, b>>]
YetToTie(r, p) == \E k \in 1 .. Len(commands) : Ties(commands[k], r, p)

CellInv == \A c \in DOMAIN matrix : c = <<c[1], c[2]>> /\ Name(matrix[c]) = c[1] /\ matrix[c] # None

ReaderFree == Plain(commands) /\ \A c \in DOMAIN matrix : c[1][1] \notin Reader
TiedTo(b, P) ==
    /\ Tied(commands, b, P)
    /\ \A c \in DOMAIN matrix : c[1] \in P /\ c[2] = b /\ b \in Selected(On({b}))
    /\ \A r, p \in P : ReadBy(r, p) /\ <<r, b>> \in DOMAIN matrix /\ <<p, b>> \in DOMAIN matrix =>
                           WaitsFor(r, p, b) \/ YetToTie(r, p)

(* The list has no job that reads the output of others; or it is one for a *)
(* single builder in which every such job waits, or will do so in the end. *)
TieInv == ReaderFree \/ \E b, P : TiedTo(b, P)

LEMMA TailOf ==
    ASSUME NEW S, NEW s \in Seq(S), s # <<>>
    PROVE  /\ Tail(s) \in Seq(S) /\ Len(Tail(s)) = Len(s) - 1 /\ Len(s) \in Nat \ {0} /\ s[1] = Head(s)
           /\ \A k \in 1 .. Len(s) - 1 : Tail(s)[k] = s[k + 1]
  OBVIOUS

LEMMA TailTied ==
    ASSUME NEW S, NEW s \in Seq(S), s # <<>>, NEW b, NEW P, Tied(s, b, P)
    PROVE  Tied(Tail(s), b, P)
  <1> DEFINE t == Tail(s)
  <1>1. /\ Len(t) = Len(s) - 1 /\ Len(s) \in Nat \ {0}
        /\ \A k \in 1 .. Len(s) - 1 : t[k] = s[k + 1]
    BY TailOf
  <1> HIDE DEF t
  <1>2. ASSUME NEW k \in 1 .. Len(t)
        PROVE  /\ t[k].op \in {"addexp", "adddep"} /\ t[k].where = On({b})
               /\ t[k].op = "adddep" => t[k].across = <<>>
               /\ t[k].op = "addexp" =>
                     /\ t[k].exps \subseteq P
                     /\ \A r, p \in P : ReadBy(r, p) /\ (r \in t[k].exps \/ p \in t[k].exps) =>
                           \E j \in 1 .. Len(t) : k < j /\ Ties(t[j], r, p)
    <2>1. PICK x : x = k + 1 /\ x \in 1 .. Len(s) /\ t[k] = s[x]
      BY <1>1
    <2>2. /\ s[x].op \in {"addexp", "adddep"} /\ s[x].where = On({b})
          /\ s[x].op = "adddep" => s[x].across = <<>>
          /\ s[x].op = "addexp" =>
                /\ s[x].exps \subseteq P
                /\ \A r, p \in P : ReadBy(r, p) /\ (r \in s[x].exps \/ p \in s[x].exps) =>
                      \E j \in 1 .. Len(s) : x < j /\ Ties(s[j], r, p)
      BY <2>1 DEF Tied
    <2>3. ASSUME NEW r, NEW p, \E j \in 1 .. Len(s) : x < j /\ Ties(s[j], r, p)
          PROVE  \E j \in 1 .. Len(t) : k < j /\ Ties(t[j], r, p)
      <3>1. PICK j \in 1 .. Len(s) : x < j /\ Ties(s[j], r, p)
        BY <2>3
      <3>2. PICK y : y = j - 1
        OBVIOUS
      <3>3. y \in 1 .. Len(t) /\ k < y /\ t[y] = s[j]
        BY <1>1, <2>1, <3>1, <3>2
      <3> QED BY <3>1, <3>3
    <2> QED BY <2>1, <2>2, <2>3
  <1> QED BY <1>2 DEF Tied, t

LEMMA TailPlain ==
    ASSUME NEW S, NEW s \in Seq(S), s # <<>>, Plain(s)
    PROVE  Plain(Tail(s))
  <1>1. PICK t : t = Tail(s)
    OBVIOUS
  <1>2. /\ Len(t) = Len(s) - 1 /\ Len(s) \in Nat \ {0}
        /\ \A k \in 1 .. Len(s) - 1 : t[k] = s[k + 1]
    BY <1>1, TailOf
  <1>3. ASSUME NEW k \in 1 .. Len(t), t[k].op = "addexp" PROVE \A e \in t[k].exps : e[1] \notin Reader
    <2>1. k + 1 \in 1 .. Len(s) /\ t[k] = s[k + 1]
      BY <1>2
    <2> QED BY <1>3, <2>1 DEF Plain
  <1> QED BY <1>1, <1>3 DEF Plain

(* Only the builders that are given, and are active.                       *)
LEMMA OnlyOn == ASSUME NEW b PROVE Selected(On({b})) \subseteq {b}
  <1>1. On({b}).builders = {b}
    BY DEF On, Everywhere
  <1>2. {b} # NoLimit
    BY DEF NoLimit
  <1> QED BY <1>1, <1>2 DEF Selected

(* ------------------------ every step of the list ----------------------- *)

LEMMA AddedCells ==
    ASSUME AddExperiments, CellInv, NEW B, B = Selected(Command.where)
    PROVE  /\ CellInv'
           /\ DOMAIN matrix' = DOMAIN matrix \union (Command.exps \X B)
           /\ \A c \in DOMAIN matrix' : c \notin Command.exps \X B => matrix'[c] = matrix[c]
  <1> DEFINE cells == Command.exps \X B
  <1>3. /\ DOMAIN matrix' = DOMAIN matrix \union cells
        /\ \A c \in DOMAIN matrix' : matrix'[c] = IF c \in cells THEN New(c[1], c[2]) ELSE matrix[c]
    BY DEF AddExperiments
  <1>4. ASSUME NEW e, NEW b PROVE Name(New(e, b)) = e /\ New(e, b) # None
    BY DEF New, Name, None
  <1>5. ASSUME NEW c \in DOMAIN matrix' PROVE c = <<c[1], c[2]>> /\ Name(matrix'[c]) = c[1] /\ matrix'[c] # None
    <2>1. CASE c \in cells
      <3>1. c = <<c[1], c[2]>>
        BY <2>1
      <3>2. matrix'[c] = New(c[1], c[2])
        BY <1>3, <2>1
      <3> QED BY <3>1, <3>2, <1>4
    <2>2. CASE c \notin cells
      <3>1. c \in DOMAIN matrix /\ matrix'[c] = matrix[c]
        BY <1>3, <2>2
      <3> QED BY <3>1 DEF CellInv
    <2> QED BY <2>1, <2>2
  <1>6. CellInv'
    BY <1>5 DEF CellInv, Name
  <1> QED BY <1>3, <1>6

LEMMA StillToTie ==
    ASSUME commands \in Seq(CommandSet), commands # <<>>, commands' = Tail(commands),
           NEW r, NEW p, NEW k \in 1 .. Len(commands), k # 1, Ties(commands[k], r, p)
    PROVE  YetToTie(r, p)'
  <1>1. /\ Len(commands') = Len(commands) - 1 /\ Len(commands) \in Nat
        /\ \A i \in 1 .. Len(commands) - 1 : commands'[i] = commands[i + 1]
    BY TailOf
  <1>2. PICK y : y = k - 1
    OBVIOUS
  <1>3. y \in 1 .. Len(commands') /\ commands'[y] = commands[k]
    BY <1>1, <1>2
  <1>4. Ties(commands'[y], r, p)
    BY <1>3
  <1> QED BY <1>3, <1>4 DEF YetToTie, Ties

LEMMA SameSelection == ASSUME UNCHANGED flag, NEW b PROVE Selected(On({b}))' = Selected(On({b}))
  BY DEF Selected

LEMMA AddedTied ==
    ASSUME AddExperiments, CellInv, commands \in Seq(CommandSet), NEW b, NEW P, TiedTo(b, P)
    PROVE  TiedTo(b, P)'
  <1> DEFINE B == Selected(On({b}))
             n == Len(commands)
  <1>1. /\ commands # <<>> /\ commands' = Tail(commands) /\ UNCHANGED <<flag, links>>
        /\ Command = commands[1] /\ Command.op = "addexp" /\ n \in Nat \ {0}
    <2>1. commands # <<>> /\ commands' = Tail(commands) /\ UNCHANGED <<flag, links>> /\ Head(commands).op = "addexp"
      BY DEF AddExperiments, Do
    <2> QED BY <2>1, TailOf DEF Command
  <1>2. /\ Command.where = On({b}) /\ Command.exps \subseteq P
        /\ \A r, p \in P : ReadBy(r, p) /\ (r \in Command.exps \/ p \in Command.exps) =>
              \E j \in 1 .. n : 1 < j /\ Ties(commands[j], r, p)
    <2>1. 1 \in 1 .. n
      BY <1>1
    <2> QED BY <1>1, <2>1 DEF TiedTo, Tied
  <1>3. /\ DOMAIN matrix' = DOMAIN matrix \union (Command.exps \X B)
        /\ \A c \in DOMAIN matrix' : c \notin Command.exps \X B => matrix'[c] = matrix[c]
    BY <1>2, AddedCells
  <1>4. Tied(commands', b, P)
    BY <1>1, TailTied DEF TiedTo
  <1>5. B \subseteq {b} /\ Selected(On({b}))' = B
    BY <1>1, OnlyOn, SameSelection
  <1>6. ASSUME NEW c \in DOMAIN matrix' PROVE c[1] \in P /\ c[2] = b /\ b \in B
    <2>1. CASE c \in DOMAIN matrix
      BY <2>1 DEF TiedTo
    <2>2. CASE c \in Command.exps \X B
      <3> HIDE DEF B
      <3>1. c[1] \in Command.exps /\ c[2] \in B
        BY <2>2
      <3> QED BY <3>1, <1>2, <1>5
    <2> QED BY <1>3, <2>1, <2>2
  <1> HIDE DEF B
  <1>7. ASSUME NEW r \in P, NEW p \in P, ReadBy(r, p), <<r, b>> \in DOMAIN matrix', <<p, b>> \in DOMAIN matrix'
        PROVE  WaitsFor(r, p, b)' \/ YetToTie(r, p)'
    <2>1. CASE r \in Command.exps \/ p \in Command.exps
      <3>1. PICK j \in 1 .. n : 1 < j /\ Ties(commands[j], r, p)
        BY <1>2, <1>7, <2>1
      <3>2. j # 1
        BY <3>1, <1>1
      <3> QED BY <1>1, <3>1, <3>2, StillToTie
    <2>2. CASE r \notin Command.exps /\ p \notin Command.exps
      <3>1. <<r, b>> \notin Command.exps \X B /\ <<p, b>> \notin Command.exps \X B
        BY <2>2
      <3>2. /\ <<r, b>> \in DOMAIN matrix /\ matrix'[<<r, b>>] = matrix[<<r, b>>]
            /\ <<p, b>> \in DOMAIN matrix /\ matrix'[<<p, b>>] = matrix[<<p, b>>]
        BY <1>3, <1>7, <3>1
      <3>3. WaitsFor(r, p, b) \/ YetToTie(r, p)
        BY <1>7, <3>2 DEF TiedTo
      <3>4. CASE WaitsFor(r, p, b)
        BY <1>1, <3>2, <3>4 DEF WaitsFor
      <3>5. CASE YetToTie(r, p)
        <4>1. PICK k \in 1 .. n : Ties(commands[k], r, p)
          BY <3>5 DEF YetToTie
        <4>2. k # 1
          BY <1>1, <4>1 DEF Ties
        <4> QED BY <1>1, <4>1, <4>2, StillToTie
      <3> QED BY <3>3, <3>4, <3>5
    <2> QED BY <2>1, <2>2
  <1> QED BY <1>4, <1>5, <1>6, <1>7 DEF TiedTo, Tied, ReadBy

LEMMA LinkMade ==
    ASSUME AddDependency, CellInv, NEW b, NEW r, NEW p,
           Ties(Command, r, p), Command.across = <<>>, Command.where = On({b}), b \in Selected(On({b})),
           <<r, b>> \in DOMAIN matrix, <<p, b>> \in DOMAIN matrix
    PROVE  WaitsFor(r, p, b)'
  <1> DEFINE c == Command
  <1>1. c.from = <<r>> /\ Len(c.from) = 1 /\ c.from[1] = r
    BY DEF Ties
  <1>2. PICK i \in DOMAIN c.to : c.to[i] = p
    BY DEF Ties, ToSet
  <1>3. Connections(c) = [j \in DOMAIN c.to |-> <<r, c.to[j]>>]
    BY <1>1 DEF Connections
  <1>4. i \in DOMAIN Connections(c) /\ Connections(c)[i] = <<r, p>>
    BY <1>2, <1>3
  <1>5. <<b, b>> \in Ends(c)
    BY DEF Ends
  <1>6. Link(Connections(c)[i], <<b, b>>, <<Len(commands), i>>) \in LinksOf(c, Len(commands))
    BY <1>4, <1>5 DEF LinksOf
  <1>7. PICK l : /\ l = Link(<<r, p>>, <<b, b>>, <<Len(commands), i>>)
                 /\ l.from = Cell(r, b) /\ l.to = Cell(p, b)
    <2>1. <<r, p>>[1] = r /\ <<r, p>>[2] = p /\ <<b, b>>[1] = b /\ <<b, b>>[2] = b
      OBVIOUS
    <2>2. PICK x, y, z : x = Cell(r, b) /\ y = Cell(p, b) /\ z = <<Len(commands), i>>
      OBVIOUS
    <2>3. Link(<<r, p>>, <<b, b>>, <<Len(commands), i>>) = [from |-> x, to |-> y, nr |-> z]
      BY <2>1, <2>2 DEF Link
    <2>4. [from |-> x, to |-> y, nr |-> z].from = x /\ [from |-> x, to |-> y, nr |-> z].to = y
      OBVIOUS
    <2> QED BY <2>2, <2>3, <2>4
  <1>8. Cell(r, b) = matrix[<<r, b>>] /\ Cell(p, b) = matrix[<<p, b>>]
    BY DEF Cell
  <1>9. l.from # None /\ l.to # None
    BY <1>7, <1>8 DEF CellInv
  <1>10. l \in links' /\ matrix' = matrix
    <2>1. l \in LinksOf(c, Len(commands))
      BY <1>4, <1>6, <1>7
    <2> QED BY <2>1, <1>9 DEF AddDependency
  <1> QED BY <1>7, <1>8, <1>10 DEF WaitsFor

LEMMA DependencyTied ==
    ASSUME AddDependency, CellInv, commands \in Seq(CommandSet), NEW b, NEW P, TiedTo(b, P)
    PROVE  TiedTo(b, P)'
  <1> DEFINE n == Len(commands)
  <1>1. /\ commands # <<>> /\ commands' = Tail(commands) /\ UNCHANGED <<flag, matrix>> /\ links \subseteq links'
        /\ Command = commands[1] /\ Command.op = "adddep" /\ n \in Nat \ {0}
    <2>1. commands # <<>> /\ commands' = Tail(commands) /\ UNCHANGED <<flag, matrix>> /\ Head(commands).op = "adddep"
          /\ links \subseteq links'
      BY DEF AddDependency, Do
    <2> QED BY <2>1, TailOf DEF Command
  <1>2. Command.where = On({b}) /\ Command.across = <<>>
    <2>1. 1 \in 1 .. n
      BY <1>1
    <2> QED BY <1>1, <2>1 DEF TiedTo, Tied
  <1>4. Tied(commands', b, P)
    BY <1>1, TailTied DEF TiedTo
  <1>5. Selected(On({b}))' = Selected(On({b}))
    BY <1>1, SameSelection
  <1>6. ASSUME NEW c \in DOMAIN matrix PROVE c[1] \in P /\ c[2] = b /\ b \in Selected(On({b}))
    BY DEF TiedTo
  <1>7. ASSUME NEW r \in P, NEW p \in P, ReadBy(r, p), <<r, b>> \in DOMAIN matrix, <<p, b>> \in DOMAIN matrix
        PROVE  WaitsFor(r, p, b)' \/ YetToTie(r, p)'
    <2>1. WaitsFor(r, p, b) \/ YetToTie(r, p)
      BY <1>7 DEF TiedTo
    <2>2. CASE WaitsFor(r, p, b)
      BY <1>1, <2>2 DEF WaitsFor
    <2>3. CASE YetToTie(r, p)
      <3>1. PICK k \in 1 .. n : Ties(commands[k], r, p)
        BY <2>3 DEF YetToTie
      <3>2. CASE k = 1
        <4>1. Ties(Command, r, p)
          BY <1>1, <3>1, <3>2
        <4>2. b \in Selected(On({b}))
          BY <1>6, <1>7
        <4> QED BY <1>2, <1>7, <4>1, <4>2, LinkMade
      <3>3. CASE k # 1
        BY <1>1, <3>1, <3>3, StillToTie
      <3> QED BY <3>2, <3>3
    <2> QED BY <2>1, <2>2, <2>3
  <1> QED BY <1>1, <1>4, <1>5, <1>6, <1>7 DEF TiedTo, Tied, ReadBy

LEMMA ListLeft ==
    ASSUME CellInv, TieInv, UNCHANGED <<commands, matrix, links, flag>>
    PROVE  CellInv' /\ TieInv'
  <1>1. CellInv'
    BY DEF CellInv, Name
  <1>2. ReaderFree => ReaderFree'
    BY DEF ReaderFree, Plain
  <1>3. ASSUME NEW b, NEW P, TiedTo(b, P) PROVE TiedTo(b, P)'
    <2>1. Selected(On({b}))' = Selected(On({b}))
      BY SameSelection
    <2>2. Tied(commands, b, P)' /\ commands' = commands
      BY <1>3 DEF TiedTo, Tied
    <2>3. \A r, p \in P : (WaitsFor(r, p, b) => WaitsFor(r, p, b)') /\ (YetToTie(r, p) => YetToTie(r, p)')
      BY DEF WaitsFor, YetToTie, Ties
    <2>4. \A c \in DOMAIN matrix' : c[1] \in P /\ c[2] = b /\ b \in Selected(On({b}))'
      BY <1>3, <2>1 DEF TiedTo
    <2>5. \A r, p \in P : ReadBy(r, p) /\ <<r, b>> \in DOMAIN matrix' /\ <<p, b>> \in DOMAIN matrix' =>
                              WaitsFor(r, p, b)' \/ YetToTie(r, p)'
      BY <1>3, <2>3 DEF TiedTo
    <2> QED BY <2>2, <2>4, <2>5 DEF TiedTo, ReadBy
  <1> QED BY <1>1, <1>2, <1>3 DEF TieInv

LEMMA ListTied ==
    ASSUME CellInv, TieInv, commands \in Seq(CommandSet), ListStep
    PROVE  CellInv' /\ TieInv'
  <1>1. CASE AddExperiments
    <2>1. PICK B : B = Selected(Command.where)
      OBVIOUS
    <2>2. /\ CellInv' /\ DOMAIN matrix' = DOMAIN matrix \union (Command.exps \X B)
      BY <1>1, <2>1, AddedCells
    <2>3. CASE ReaderFree
      <3>1. commands # <<>> /\ commands' = Tail(commands) /\ Head(commands).op = "addexp"
        BY <1>1 DEF AddExperiments, Do
      <3>2. Command = commands[1] /\ 1 \in 1 .. Len(commands)
        BY <3>1, TailOf DEF Command
      <3>3. \A e \in Command.exps : e[1] \notin Reader
        BY <2>3, <3>1, <3>2 DEF ReaderFree, Plain, Command
      <3>4. Plain(commands')
        BY <2>3, <3>1, TailPlain DEF ReaderFree
      <3>5. ASSUME NEW c \in DOMAIN matrix' PROVE c[1][1] \notin Reader
        <4>1. CASE c \in DOMAIN matrix
          BY <2>3, <4>1 DEF ReaderFree
        <4>2. CASE c \in Command.exps \X B
          <5>1. c[1] \in Command.exps
            BY <4>2
          <5> QED BY <3>3, <5>1
        <4> QED BY <2>2, <4>1, <4>2
      <3> QED BY <2>2, <3>4, <3>5 DEF TieInv, ReaderFree, Plain
    <2>4. CASE ~ReaderFree
      <3>1. PICK b, P : TiedTo(b, P)
        BY <2>4 DEF TieInv
      <3>2. TiedTo(b, P)'
        BY <1>1, <3>1, AddedTied
      <3> QED BY <2>2, <3>2 DEF TieInv
    <2> QED BY <2>3, <2>4
  <1>2. CASE AddDependency
    <2>1. UNCHANGED matrix /\ commands # <<>> /\ commands' = Tail(commands)
      BY <1>2 DEF AddDependency, Do
    <2>2. CellInv'
      BY <2>1 DEF CellInv, Name
    <2>3. CASE ReaderFree
      <3>1. Plain(commands')
        BY <2>1, <2>3, TailPlain DEF ReaderFree
      <3> QED BY <2>1, <2>2, <2>3, <3>1 DEF TieInv, ReaderFree, Plain
    <2>4. CASE ~ReaderFree
      <3>1. PICK b, P : TiedTo(b, P)
        BY <2>4 DEF TieInv
      <3>2. TiedTo(b, P)'
        BY <1>2, <3>1, DependencyTied
      <3> QED BY <2>2, <3>2 DEF TieInv
    <2> QED BY <2>3, <2>4
  <1>3. CASE RemoveExperiments \/ SetBuilderFlag
    <2>1. /\ commands # <<>> /\ commands' = Tail(commands) /\ Head(commands).op \in {"rmexp", "flag"}
          /\ \E S \in SUBSET DOMAIN matrix : matrix' = [c \in S |-> matrix[c]] \/ UNCHANGED matrix
      BY <1>3 DEF RemoveExperiments, SetBuilderFlag, Do
    <2>2. DOMAIN matrix' \subseteq DOMAIN matrix /\ \A c \in DOMAIN matrix' : matrix'[c] = matrix[c]
      BY <2>1
    <2>3. CellInv'
      BY <2>2 DEF CellInv, Name
    <2>4. ASSUME NEW b, NEW P, TiedTo(b, P) PROVE FALSE
      <3>1. 1 \in 1 .. Len(commands) /\ commands[1] = Head(commands)
        BY <2>1, TailOf
      <3>2. commands[1].op \in {"addexp", "adddep"}
        BY <2>4, <3>1 DEF TiedTo, Tied
      <3> QED BY <2>1, <3>1, <3>2
    <2>5. ReaderFree
      BY <2>4 DEF TieInv
    <2>6. Plain(commands')
      BY <2>1, <2>5, TailPlain DEF ReaderFree
    <2> QED BY <2>2, <2>3, <2>5, <2>6 DEF TieInv, ReaderFree, Plain
  <1>4. CASE RefuseDependency
    <2>1. UNCHANGED <<commands, matrix, links, flag>>
      BY <1>4 DEF RefuseDependency, lists
    <2> QED BY <2>1, ListLeft
  <1> QED BY <1>1, <1>2, <1>3, <1>4 DEF ListStep

LEMMA FirstTied ==
    ASSUME Init, Plain(commands) \/ \E b, P : Tied(commands, b, P)
    PROVE  CellInv /\ TieInv
  <1>1. DOMAIN matrix = {}
    BY EmptyList DEF Init
  <1>2. CellInv
    BY <1>1 DEF CellInv
  <1>3. Plain(commands) => ReaderFree
    BY <1>1 DEF ReaderFree
  <1>4. ASSUME NEW b, NEW P, Tied(commands, b, P) PROVE TiedTo(b, P)
    BY <1>1, <1>4 DEF TiedTo
  <1> QED BY <1>2, <1>3, <1>4 DEF TieInv

(* What waits in the list waits on the batch system.                       *)
LEMMA TiedFirst ==
    ASSUME CellInv, TieInv, commands = <<>>, DOMAIN queue = Mine, InOrder
    PROVE  EnsembleFirst
  <1> SUFFICES ASSUME NEW o \in DOMAIN queue, NEW p \in DOMAIN queue, Reads(o, p), Started(o)
               PROVE  Over(p)
    BY DEF EnsembleFirst
  <1>1. PICK c \in DOMAIN matrix, d \in DOMAIN matrix :
            o = matrix[c] /\ p = matrix[d] /\ c[2] = program.builder /\ d[2] = program.builder
    BY DEF Mine
  <1>2. /\ c = <<c[1], c[2]>> /\ d = <<d[1], d[2]>> /\ Name(o) = c[1] /\ Name(p) = d[1]
    BY <1>1 DEF CellInv
  <1>3. ReadBy(c[1], d[1])
    BY <1>2 DEF Reads, ReadBy
  <1>4. c[1][1] \in Reader
    BY <1>3 DEF ReadBy, Reader
  <1>5. ~ReaderFree
    BY <1>4 DEF ReaderFree
  <1>6. PICK b, P : TiedTo(b, P)
    BY <1>5 DEF TieInv
  <1>7. c[1] \in P /\ d[1] \in P /\ c = <<c[1], b>> /\ d = <<d[1], b>>
    BY <1>2, <1>6 DEF TiedTo
  <1>8. ~YetToTie(c[1], d[1])
    BY EmptyList DEF YetToTie
  <1>9. WaitsFor(c[1], d[1], b)
    BY <1>3, <1>6, <1>7, <1>8 DEF TiedTo
  <1>10. PICK l \in links : l.from = o /\ l.to = p
    BY <1>1, <1>7, <1>9 DEF WaitsFor
  <1> QED BY <1>10 DEF InOrder

(* ------------------------------- GitLab -------------------------------- *)

Members(tests, t, b, tag) == IF tag = "select-members" THEN AllMembers ELSE MembersOf(tests, t, b)

(* What the jobs of a pipeline need and when they run, by their names.     *)
JobFacts(j, tests, b, tag) ==
    /\ j.name[1] = "tolerance" =>
           /\ j.stage = "run"
           /\ \E i \in DOMAIN tests :
                 /\ j.name[2] = tests[i].name
                 /\ j.needs = {<<"exp", tests[i].name>>}
                              \union ToSet(Perturbed(tests[i], Members(tests, tests[i], b, tag)))
    /\ j.name[1] = "collect" => j.stage = "post" /\ j.needs = {}
    /\ j.name[1] = "member" =>
           \E i \in DOMAIN tests :
               /\ j.name[2] = tests[i].name
               /\ j.name \in ToSet(Perturbed(tests[i], Members(tests, tests[i], b, tag)))

LEMMA PerturbedFacts ==
    ASSUME NEW t, NEW members, NEW q \in ToSet(Perturbed(t, members))
    PROVE  q[1] = "member" /\ q[2] = t.name
  <1>1. PICK i \in DOMAIN members : q = <<"member", t.name, members[i]>>
    BY DEF ToSet, Perturbed
  <1> QED BY <1>1

LEMMA OtherJob ==
    ASSUME NEW j, j.name[1] \notin {"tolerance", "collect", "member"}, NEW tests, NEW b, NEW tag
    PROVE  JobFacts(j, tests, b, tag)
  BY DEF JobFacts

LEMMA JobsOfTest ==
    ASSUME NEW tests, NEW i \in DOMAIN tests, NEW b, NEW tag, NEW j \in JobsOf(tests, tests[i], b, tag)
    PROVE  JobFacts(j, tests, b, tag)
  <1> DEFINE t == tests[i]
             ms == Members(tests, t, b, tag)
             perturbed == ToSet(Perturbed(t, ms))
             needs == {<<"exp", t.name>>} \union perturbed
  <1>1. \/ j = Job(<<"check", t.check>>, "run", {}, FALSE)
        \/ j = Job(<<"exp", t.name>>, "run", {}, FALSE)
        \/ \E q \in perturbed : j = Job(q, "run", {}, FALSE)
        \/ j = Job(<<"tolerance", t.name>>, "run", needs, FALSE)
    BY Zenon DEF JobsOf, Members
  <1> HIDE DEF ms, perturbed, needs
  <1>2. CASE j = Job(<<"check", t.check>>, "run", {}, FALSE)
    <2>1. j.name = <<"check", t.check>>
      BY <1>2 DEF Job
    <2>2. j.name[1] = "check"
      BY <2>1
    <2> QED BY <2>2, OtherJob
  <1>3. CASE j = Job(<<"exp", t.name>>, "run", {}, FALSE)
    <2>1. j.name = <<"exp", t.name>>
      BY <1>3 DEF Job
    <2>2. j.name[1] = "exp"
      BY <2>1
    <2> QED BY <2>2, OtherJob
  <1>4. ASSUME NEW q \in perturbed, j = Job(q, "run", {}, FALSE) PROVE JobFacts(j, tests, b, tag)
    <2>1. j.name = q
      BY <1>4 DEF Job
    <2>2. q[1] = "member" /\ q[2] = t.name
      BY PerturbedFacts DEF perturbed
    <2>3. j.name[1] = "member" /\ j.name[2] = tests[i].name /\ j.name \in ToSet(Perturbed(tests[i], Members(tests, tests[i], b, tag)))
      BY <2>1, <2>2 DEF perturbed, ms
    <2> QED BY <2>3 DEF JobFacts
  <1>5. CASE j = Job(<<"tolerance", t.name>>, "run", needs, FALSE)
    <2>1. j.name = <<"tolerance", t.name>> /\ j.stage = "run" /\ j.needs = needs
      BY <1>5 DEF Job
    <2>2. j.name[1] = "tolerance" /\ j.name[2] = tests[i].name
      BY <2>1
    <2>3. j.needs = {<<"exp", tests[i].name>>} \union ToSet(Perturbed(tests[i], Members(tests, tests[i], b, tag)))
      BY <2>1 DEF needs, perturbed, ms
    <2> QED BY <2>1, <2>2, <2>3 DEF JobFacts
  <1> QED BY <1>1, <1>2, <1>3, <1>4, <1>5

LEMMA JobsOfPipeline ==
    ASSUME NEW all, NEW tag, NEW b, NEW names
    PROVE  LET tests == ForBuilder(ByTag(ByNames(all, names), tag), b, tag)
           IN \A j \in Pipeline(all, tag, b, names) : JobFacts(j, tests, b, tag)
  <1> DEFINE tests == ForBuilder(ByTag(ByNames(all, names), tag), b, tag)
             last == {i \in DOMAIN tests : \A j \in DOMAIN tests : tests[j].name = tests[i].name => j <= i}
             whats == {"hashes"} \union IF tag = "select-members" THEN {"members"} ELSE {}
             collect == {Job(<<"collect", what>>, "post", {}, TRUE) : what \in whats}
  <1>1. Pipeline(all, tag, b, names) \subseteq {Job(<<"build">>, "build", {}, FALSE)}
                \union (UNION {JobsOf(tests, tests[i], b, tag) : i \in last}) \union collect
    BY Zenon DEF Pipeline
  <1>2. last \subseteq DOMAIN tests
    OBVIOUS
  <1> HIDE DEF tests, last, whats
  <1>3. ASSUME NEW j, j = Job(<<"build">>, "build", {}, FALSE) PROVE JobFacts(j, tests, b, tag)
    <2>1. j.name = <<"build">>
      BY <1>3 DEF Job
    <2>2. j.name[1] = "build"
      BY <2>1
    <2> QED BY <2>2, OtherJob
  <1>4. ASSUME NEW j, NEW i \in last, j \in JobsOf(tests, tests[i], b, tag) PROVE JobFacts(j, tests, b, tag)
    BY <1>2, <1>4, JobsOfTest
  <1>5. ASSUME NEW j, NEW what \in whats, j = Job(<<"collect", what>>, "post", {}, TRUE) PROVE JobFacts(j, tests, b, tag)
    <2>1. j.name = <<"collect", what>> /\ j.stage = "post" /\ j.needs = {}
      BY <1>5 DEF Job
    <2>2. j.name[1] = "collect"
      BY <2>1
    <2> QED BY <2>1, <2>2 DEF JobFacts
  <1>6. ASSUME NEW j \in Pipeline(all, tag, b, names) PROVE JobFacts(j, tests, b, tag)
    <2>2. j \in collect => \E what \in whats : j = Job(<<"collect", what>>, "post", {}, TRUE)
      OBVIOUS
    <2> HIDE DEF collect
    <2>1. \/ j = Job(<<"build">>, "build", {}, FALSE)
          \/ \E i \in last : j \in JobsOf(tests, tests[i], b, tag)
          \/ j \in collect
      <3>1. PICK x : x = Job(<<"build">>, "build", {}, FALSE)
        OBVIOUS
      <3>2. Pipeline(all, tag, b, names) \subseteq {x} \union (UNION {JobsOf(tests, tests[i], b, tag) : i \in last}) \union collect
        BY <1>1, <3>1
      <3> QED BY <3>1, <3>2
    <2> QED BY <1>3, <1>4, <1>5, <2>1, <2>2
  <1> QED BY <1>6 DEF tests

(* What a job reads is before it.                                          *)
LEMMA ReadBefore ==
    ASSUME NEW tests, NEW b, NEW tag, \A j \in program.pipeline : JobFacts(j, tests, b, tag),
           NEW o, NEW p \in objects, Reads(o, p),
           \E j \in program.pipeline : j.name = Name(o), \E j \in program.pipeline : j.name = Name(p)
    PROVE  p \in Before(o)
  <1>1. JobOf(o) \in program.pipeline /\ JobOf(o).name = Name(o)
    BY DEF JobOf
  <1>2. JobOf(p) \in program.pipeline /\ JobOf(p).name = Name(p)
    BY DEF JobOf
  <1>3. PICK j, k : j = JobOf(o) /\ k = JobOf(p) /\ JobFacts(j, tests, b, tag) /\ JobFacts(k, tests, b, tag)
    BY <1>1, <1>2
  <1>4. CASE j.name[1] = "tolerance" /\ k.name[1] = "member" /\ k.name[2] = j.name[2]
    <2>1. PICK i \in DOMAIN tests :
              /\ j.name[2] = tests[i].name
              /\ j.needs = {<<"exp", tests[i].name>>} \union ToSet(Perturbed(tests[i], Members(tests, tests[i], b, tag)))
      BY <1>3, <1>4 DEF JobFacts
    <2>2. PICK h \in DOMAIN tests :
              /\ k.name[2] = tests[h].name
              /\ k.name \in ToSet(Perturbed(tests[h], Members(tests, tests[h], b, tag)))
      BY <1>3, <1>4 DEF JobFacts
    <2>3. tests[i].name = tests[h].name
      BY <1>4, <2>1, <2>2
    <2>4. Members(tests, tests[i], b, tag) = Members(tests, tests[h], b, tag)
      BY <2>3, MembersByName DEF Members
    <2>5. k.name \in j.needs
      BY <2>1, <2>2, <2>3, <2>4, PerturbedNames
    <2> QED BY <1>2, <1>3, <2>5 DEF Before
  <1>5. CASE j.name[1] = "collect" /\ k.name[1] = "tolerance"
    <2>1. j.needs = {} /\ j.stage = "post" /\ k.stage = "run"
      BY <1>3, <1>5 DEF JobFacts
    <2>2. Rank["run"] < Rank["post"]
      BY DEF Rank
    <2> QED BY <1>3, <2>1, <2>2 DEF Before
  <1>6. j.name = Name(o) /\ k.name = Name(p)
    BY <1>1, <1>2, <1>3
  <1> QED BY <1>4, <1>5, <1>6 DEF Reads

(* ------------------- the list, runexp and the pipeline ----------------- *)

ChosenInv == Running => commands = <<>> /\ DOMAIN queue = Mine

(* On GitLab what has started has waited for all that are before it.       *)
PipelineInv ==
    pc = "gitlab" =>
        /\ objects = DOMAIN queue
        /\ \A o \in objects : \E j \in program.pipeline : j.name = Name(o)
        /\ \A o \in DOMAIN queue : Started(o) => \A p \in Before(o) : Over(p)

EnsembleInv == CellInv /\ TieInv /\ ChosenInv /\ PipelineInv /\ \E p \in Programs : program = p.run

(* A program that is made of lists of tests, or one of experiments that do *)
(* not read the output of others.                                          *)
FromTests(p) ==
    IF p.run.system = "GitLab"
    THEN \E all, tag, names : p.run.pipeline = Pipeline(all, tag, p.run.builder, names)
    ELSE Plain(p.commands) \/ \E all, tag, b, names : Lists(all, names) /\ p.commands = Register(all, tag, b, names)

LEMMA InitEnsemble ==
    ASSUME \A p \in Programs : FromTests(p), Init PROVE EnsembleInv
  <1>1. PICK p \in Programs : program = p.run /\ commands = p.commands
    BY DEF Init
  <1>2. Plain(commands) \/ \E b, P : Tied(commands, b, P)
    <2>1. CASE p.run.system = "GitLab"
      <3>1. commands = <<>>
        BY <1>1, <2>1, BuildbotAssumption
      <3>2. 1 .. Len(commands) = {}
        BY <3>1
      <3> QED BY <3>2 DEF Plain
    <2>2. CASE p.run.system # "GitLab"
      <3>1. Plain(commands) \/ \E all, tag, b, names : Lists(all, names) /\ commands = Register(all, tag, b, names)
        BY <1>1, <2>2 DEF FromTests
      <3>2. ASSUME NEW all, NEW tag, NEW b, NEW names, Lists(all, names), commands = Register(all, tag, b, names)
            PROVE  Plain(commands) \/ \E P : Tied(commands, b, P)
        BY <3>2, RegisterPlain, RegisterTied
      <3> QED BY <3>1, <3>2
    <2> QED BY <2>1, <2>2
  <1>3. pc = "list" /\ ~Running
    BY DEF Init, Running
  <1> QED BY <1>1, <1>2, <1>3, FirstTied DEF EnsembleInv, ChosenInv, PipelineInv

LEMMA EnsembleListStep ==
    ASSUME BuildbotInv, EnsembleInv, ListStep PROVE EnsembleInv'
  <1>1. /\ pc' \in {"list", "failed"} /\ UNCHANGED program
    BY DEF ListStep, AddExperiments, RemoveExperiments, SetBuilderFlag, AddDependency, RefuseDependency, Do
  <1>2. commands \in Seq(CommandSet)
    BY DEF BuildbotInv, ListInv
  <1>3. CellInv' /\ TieInv'
    BY <1>2, ListTied DEF EnsembleInv
  <1> QED BY <1>1, <1>3 DEF EnsembleInv, ChosenInv, PipelineInv, Running

LEMMA EnsembleBuild ==
    ASSUME EnsembleInv, Build PROVE EnsembleInv'
  <1>1. /\ UNCHANGED <<program, commands, matrix, links, flag>> /\ commands = <<>>
        /\ pc' = "failed" \/ (pc' = "submit" /\ queue' = [o \in Mine |-> "none"])
    BY DEF Build, lists
  <1>2. CellInv' /\ TieInv'
    BY <1>1, ListLeft DEF EnsembleInv
  <1>3. Mine' = Mine
    BY <1>1 DEF Mine
  <1>4. ChosenInv'
    BY <1>1, <1>3 DEF ChosenInv, Running
  <1> QED BY <1>1, <1>2, <1>4 DEF EnsembleInv, PipelineInv

LEMMA EnsembleTrigger ==
    ASSUME EnsembleInv, Trigger PROVE EnsembleInv'
  <1> DEFINE jobs == {<<j.name, program.builder, 0>> : j \in program.pipeline}
  <1>1. /\ UNCHANGED <<program, commands, matrix, links, flag>> /\ pc' \in {"failed", "gitlab"}
        /\ objects' = jobs /\ queue' = [o \in jobs |-> "pending"]
    BY DEF Trigger
  <1>2. CellInv' /\ TieInv'
    BY <1>1, ListLeft DEF EnsembleInv
  <1>3. ASSUME NEW o \in jobs PROVE \E j \in program.pipeline : j.name = Name(o)
    BY DEF Name
  <1> HIDE DEF jobs
  <1>4. \A o \in DOMAIN queue' : ~Started(o)'
    BY <1>1 DEF Started
  <1>5. PipelineInv'
    BY <1>1, <1>3, <1>4 DEF PipelineInv, Name
  <1> QED BY <1>1, <1>2, <1>5 DEF EnsembleInv, ChosenInv, Running

LEMMA EnsembleRuns ==
    ASSUME BuildbotInv, EnsembleInv, Running, Running', UNCHANGED <<program, commands, lists>>, DOMAIN queue' = DOMAIN queue
    PROVE  EnsembleInv'
  <1>1. UNCHANGED <<matrix, links, flag>>
    BY DEF lists
  <1>2. CellInv' /\ TieInv'
    BY <1>1, ListLeft DEF EnsembleInv
  <1>3. Mine' = Mine
    BY <1>1 DEF Mine
  <1>4. ChosenInv'
    BY <1>3 DEF EnsembleInv, ChosenInv
  <1>5. PipelineInv'
    BY DEF PipelineInv, Running
  <1> QED BY <1>2, <1>4, <1>5 DEF EnsembleInv

LEMMA EnsembleBatch ==
    ASSUME BuildbotInv, EnsembleInv, BatchStep PROVE EnsembleInv'
  <1>0. queue \in [DOMAIN queue -> States]
    BY DEF BuildbotInv, BatchType
  <1>1. PICK o \in DOMAIN queue : StartJob(o) \/ EndJob(o) \/ SkipJob(o)
    BY DEF BatchStep
  <1>2. PICK new : /\ queue' = [queue EXCEPT ![o] = new]
                   /\ queue[o] \in {"pending", "running"}
                   /\ new = "running" => Ready(o)
                   /\ new = "ended" => queue[o] = "running"
                   /\ new \in {"running", "ended", "skipped"}
    BY <1>1, Zenon DEF StartJob, EndJob, SkipJob
  <1>3. UNCHANGED <<pc, program, commands, lists>>
    BY <1>1 DEF StartJob, EndJob, SkipJob
  <1>4. DOMAIN queue' = DOMAIN queue /\ \A p \in DOMAIN queue : queue'[p] = IF p = o THEN new ELSE queue[p]
    BY <1>0, <1>2
  <1>5. UNCHANGED <<matrix, links, flag, objects>>
    BY <1>3 DEF lists
  <1>6. CellInv' /\ TieInv'
    BY <1>3, <1>5, ListLeft DEF EnsembleInv
  <1>7. ChosenInv'
    <2>1. Mine' = Mine /\ Running' = Running
      BY <1>3, <1>5 DEF Mine, Running
    <2> QED BY <1>3, <1>4, <2>1 DEF EnsembleInv, ChosenInv
  <1>8. ASSUME NEW p \in DOMAIN queue, Over(p) PROVE Over(p)'
    BY <1>2, <1>4, <1>8 DEF Over
  <1>9. PipelineInv'
    <2> SUFFICES ASSUME pc = "gitlab" PROVE PipelineInv'
      BY <1>3 DEF PipelineInv
    <2>1. /\ objects = DOMAIN queue
          /\ \A q \in objects : \E j \in program.pipeline : j.name = Name(q)
          /\ \A q \in DOMAIN queue : Started(q) => \A p \in Before(q) : Over(p)
      BY DEF EnsembleInv, PipelineInv
    <2>2. ASSUME NEW q PROVE Before(q)' = Before(q) /\ Before(q) \subseteq objects
      BY <1>3, <1>5 DEF Before, JobOf, Name
    <2>3. ASSUME NEW q \in DOMAIN queue, Started(q)', NEW p \in Before(q) PROVE Over(p)'
      <3>1. CASE Started(q)
        <4>1. Over(p) /\ p \in DOMAIN queue
          BY <2>1, <2>2, <2>3, <3>1
        <4> QED BY <1>8, <4>1
      <3>2. CASE ~Started(q)
        <4>1. q = o /\ new = "running"
          BY <1>2, <1>4, <2>3, <3>2 DEF Started
        <4>2. Ready(o)
          BY <1>2, <4>1
        <4>3. Over(p) /\ p \in DOMAIN queue
          BY <2>1, <2>2, <2>3, <4>1, <4>2 DEF Ready, GitLab
        <4> QED BY <1>8, <4>3
      <3> QED BY <3>1, <3>2
    <2> QED BY <1>3, <1>4, <1>5, <2>1, <2>2, <2>3 DEF PipelineInv, Name
  <1> QED BY <1>3, <1>6, <1>7, <1>9 DEF EnsembleInv

LEMMA EnsembleStep ==
    BuildbotInv /\ EnsembleInv /\ [Next]_vars => EnsembleInv'
  <1> SUFFICES ASSUME BuildbotInv, EnsembleInv, [Next]_vars PROVE EnsembleInv'
    OBVIOUS
  <1>0. queue \in [DOMAIN queue -> States]
    BY DEF BuildbotInv, BatchType
  <1>1. CASE UNCHANGED vars
    <2>1. UNCHANGED <<pc, program, commands, matrix, links, flag, objects, queue>>
      BY <1>1 DEF vars, lists, batch
    <2>2. CellInv' /\ TieInv'
      BY <2>1, ListLeft DEF EnsembleInv
    <2>3. ChosenInv'
      BY <2>1 DEF EnsembleInv, ChosenInv, Running, Mine
    <2>4. ASSUME NEW q PROVE Before(q)' = Before(q)
      BY <2>1 DEF Before, JobOf, Name
    <2>5. \A o : (Started(o)' <=> Started(o)) /\ (Over(o)' <=> Over(o))
      BY <2>1 DEF Started, Over
    <2>6. PipelineInv'
      BY <2>1, <2>4, <2>5 DEF EnsembleInv, PipelineInv, Name
    <2> QED BY <2>1, <2>2, <2>3, <2>6 DEF EnsembleInv
  <1>2. CASE NextExperiment \/ Submit \/ Waited \/ InstallHandlers \/ Poll \/ PollNothing \/ Report \/ Signal \/ UserCancel
    <2>1. Running /\ Running' /\ UNCHANGED <<program, commands, lists>>
      BY <1>2 DEF NextExperiment, Submit, Waited, InstallHandlers, Poll, PollNothing, Report, Signal, UserCancel,
                  Running, Quit
    <2>2. DOMAIN queue' = DOMAIN queue
      <3>1. CASE UNCHANGED queue
        BY <3>1
      <3>2. CASE Submit
        <4>1. UNCHANGED queue \/ \E o : queue' = [queue EXCEPT ![o] = "pending"]
          BY <3>2, Zenon DEF Submit
        <4> QED BY <1>0, <4>1
      <3>3. CASE \E S : Cancel(S)
        BY <3>3 DEF Cancel
      <3>4. (NextExperiment \/ Waited \/ InstallHandlers \/ Poll \/ PollNothing \/ Report) => UNCHANGED queue
        BY DEF NextExperiment, Waited, InstallHandlers, Poll, PollNothing, Report, batch
      <3>5. Signal \/ UserCancel => UNCHANGED queue \/ \E S : Cancel(S)
        BY DEF Signal, UserCancel, batch
      <3> QED BY <1>2, <3>1, <3>2, <3>3, <3>4, <3>5
    <2> QED BY <2>1, <2>2, EnsembleRuns
  <1> QED BY <1>1, <1>2, EnsembleListStep, EnsembleBuild, EnsembleTrigger, EnsembleBatch DEF Next, Runexp

LEMMA EnsemblesFirst ==
    ASSUME \A p \in Programs : FromTests(p), BuildbotInv, EnsembleInv
    PROVE  EnsembleFirst
  <1>1. CASE Running
    BY <1>1, TiedFirst DEF EnsembleInv, ChosenInv, BuildbotInv
  <1>2. CASE pc = "gitlab"
    <2>1. PICK p \in Programs : program = p.run
      BY DEF EnsembleInv
    <2>2. program.system = "GitLab"
      BY <1>2 DEF BuildbotInv, ListInv
    <2>3. PICK all, tag, names : program.pipeline = Pipeline(all, tag, program.builder, names)
      BY <2>1, <2>2 DEF FromTests
    <2>4. PICK tests : \A j \in program.pipeline : JobFacts(j, tests, program.builder, tag)
      BY <2>3, JobsOfPipeline
    <2>5. /\ objects = DOMAIN queue
          /\ \A q \in objects : \E j \in program.pipeline : j.name = Name(q)
          /\ \A q \in DOMAIN queue : Started(q) => \A r \in Before(q) : Over(r)
      BY <1>2 DEF EnsembleInv, PipelineInv
    <2>6. ASSUME NEW q \in DOMAIN queue, NEW r \in DOMAIN queue, Reads(q, r), Started(q) PROVE Over(r)
      <3>1. r \in Before(q)
        BY <2>4, <2>5, <2>6, ReadBefore
      <3> QED BY <2>5, <2>6, <3>1
    <2> QED BY <2>6 DEF EnsembleFirst
  <1>3. CASE pc \in {"list", "failed"}
    BY <1>3 DEF BuildbotInv, ListInv, EnsembleFirst
  <1> QED BY <1>1, <1>2, <1>3 DEF BuildbotInv, ListInv

(* From any lists of tests, for any tag and names, on Buildbot, however    *)
(* the cells of the list are replaced while it is made, as on GitLab: the  *)
(* tolerances of a test are not computed before the runs of its ensemble   *)
(* are over, nor the results collected before the tolerances are           *)
(* (register_experiments_for_bb, register_experiments_for_cscs_ci).        *)
THEOREM EnsemblesWait ==
    ASSUME \A p \in Programs : FromTests(p)
    PROVE  Spec => []EnsembleFirst
  <1>1. Init => EnsembleInv
    BY InitEnsemble
  <1>2. BuildbotInv /\ EnsembleInv /\ [Next]_vars => EnsembleInv'
    BY EnsembleStep
  <1>3. BuildbotInv /\ EnsembleInv => EnsembleFirst
    BY EnsemblesFirst
  <1> QED BY <1>1, <1>2, <1>3, BuildbotHolds, PTL DEF Spec
=============================================================================
