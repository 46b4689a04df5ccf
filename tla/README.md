# A verification development for ICON

ICON is a Fortran model of atmosphere, ocean and land, with Python programs
around it that build it, test it, feed it and schedule it. Most of the model is
floating-point numerics that runs the same way on every process. What is
concurrent, and what a test hardly reaches, lies around the numerics: processes
of their own ("PEs") that write restart files while the compute PEs go on;
programs that send data to a running model; lists of jobs with dependencies on
batch systems; suites of repeated families of tasks; and the generators of the
dependencies that the build relies on. This project models that machinery.
Paths of Fortran files are relative to `src/src/`, all others to `src/`.

## 1. Inventory

| Part | State | Operations | Talks to | What is hard | What makes it correct |
|---|---|---|---|---|---|
| Asynchronous restart protocol (`io/restart/mo_async_restart.f90`, `sync` of `mo_async_restart_comm_data.f90`, `mo_restart_patch_description.f90`) | patch descriptions on every PE, windows and lock epochs, restart arguments | update, writeRestart, destruct; main loop of the restart PEs | time loop, packed messages, windows | work PEs run on while files are written; locks with `MPI_MODE_NOCHECK`; only some PEs know a nest's metadata | a file is a snapshot of one step; no window is posted while read; no message overtakes another; both sides stop |
| In-flight pool (`mo_async_restart_comm_data.f90`: acquire, waitall, apply) | slots, request pool, cursor | iterate over the PEs | windows | completion in any order; two builds | each part is applied once; no buffer is reused early |
| Reorder information and gather (`io/shared/mo_reorder_info.f90`, `mo_async_restart_patch_data.f90`) | index lists, window offsets on two sides | construct, postData, collectData, writeData | pool, files | offset arithmetic agreed on by nobody; time levels that are skipped | every value arrives at its global place |
| Restart files and loading (`mo_restart_descriptor.f90`, `mo_restart_util.f90`, `mo_load_restart.f90`, `mo_load_singlefile_restart.f90`) | files, links | create, write, link, close; find, check, load | the next run | crashes between any two steps | finished work is kept, the next run finds a set it can use |
| Time loop and nesting (`atm_dyn_iconam/mo_nh_stepping.f90`) | active domains, dates | start and stop of nests, checkpoints | all servers | nests start on some PEs only | all PEs decide alike |
| Packed messages (`parallel_infrastructure/mo_packed_message.f90`) | a buffer | pack, unpack, send, recv, bcast | protocol | blocking, overflow | what is unpacked is what was packed |
| Multifile restart (`mo_multifile_restart*.f90`, `mo_load_multifile_restart.f90`) | collector buffers, access flags | local_access, remote_access, fetch, fileStuff, link | time loop, files | flags pair barriers and epochs; a link turned by the master alone | files complete before the link is turned |
| Name-list output (`io/shared/mo_name_list_output*.f90`) | windows, request lists | write_name_list_output, handshakes | output events | one handshake per I/O PE, non-blocking; ready files served meanwhile | no step is lost, both sides stop |
| Output events (`io/shared/mo_output_event_*.f90`) | step counters, pending receives | pass_output_step, trigger_output_step_irecv | name-list output | each PE steps its own copy of the events | a ready file only after every part is written |
| Boundary prefetch (`io/atmo/mo_async_latbc*.f90`) | window, time levels, last date read, on both sides | prefetch, recv, handshakes | time loop | two clocks and early returns that must agree | the data read belong to the date expected |
| Decomposition, halo exchange, MPI layer (`parallel_infrastructure/`) | index lists, communicators | set-up, exchange | everything | index arithmetic | each halo point gets its owner's value |
| Coupling, output model, ComIn | handles of external libraries | calls into YAC, ComIn | other models | order of collective calls | outside this tree: the libraries are submodules |
| Dynamics, physics, ocean, waves, biogeochemistry, ragnarok | fields | numerics | | floating point | not a matter for TLC |
| Dependency lists (`utils/mkhelper/deplist.py`) | a graph of names, visited vertices, a path | read, traverse, follow hints, print | the makefiles of the build | one set of visited vertices for several traversals, hints, two directions | a complete list in an order in which the files can be made; cycles reported |
| Dependency generator (`utils/mkhelper/depgen.py`, `utils/mkhelper/depgen/`) | states of open conditionals, macros, current module, six sets of names | read a file through preprocessor and Fortran reader, write rules | compiler, make | conditions it cannot evaluate; state kept between lines and between files | it reads what the compiler reads |
| Test lists and Buildbot (`scripts/experiments/yaml_experiment_test_processor.py`, `scripts/buildbot_scripts/`) | pickled list of experiments and dependencies, jobs and their status | add, remove, flag, submit, wait, report | batch systems, GitLab | recursive submission; jobs that fail or are cancelled; signals | order, nothing forgotten, an honest report |
| Data providers (`etc/*_provider.py`) | open files, the months held, the date sent | set up, step, put | ICON through YAC | two programs that count time alike without telling each other; turns of months and years | the data fetched are those of the model's date; nobody waits for ever |
| ecFlow suites (`schedulers/ecmwf/`) | dates of repeats, events, meters, files | tasks, triggers, complete expressions | ecFlow server, batch system, operator | families that repeat over dates of their own; second tries | no task uses what is not there; the suite ends |
| Other scripts (archiving, `pvcs.py`, `test_driver.py`, checks, single column model, plots) | files | | | sequential | |

`PROJECT.json` lists the parts with their status, and under `hazards` the
places where each of these difficulties bites, with the properties that would
notice.

## 2. Modules

In the order in which they were written:

| Module | Models | Status |
|---|---|---|
| `AsyncRestart` | the protocol between work and restart PEs, from the model step to the file | done |
| `RestartService` | abstract: what the protocol promises | done, refined by `AsyncRestart` |
| `AsyncRestartProofs` | all safety properties of `AsyncRestart` and the refinement of `RestartService`, proved | done |
| `RestartInflight`, `RestartInflightProofs` | the pool of gets of a restart PE, both builds; all its properties proved | done |
| `ReorderInfo` | the reorder index of `mask2reorder_info` | done |
| `RestartGather` (extends `ReorderInfo`) | the way of every value through the windows into the file; both modules' properties proved in `RestartDataProofs` | done |
| `RestartFiles` | files, links, crashes, load; all its properties proved in `RestartDataProofs` | done |
| `DepList`, `DepListProofs` | `deplist.py`, from the rules to the printed list; order, completeness, cycles and checks proved | done |
| `DepGen`, `DepGenProofs` | `depgen.py` next to a compiler that reads the same lines; that it finds what the compiler does, and no more, and that the rules suffice, proved | done |
| `TestLists` | how entries of the YAML lists become commands and pipelines | done |
| `Buildbot` (extends `TestLists`), `BuildbotProofs` | those commands, the submission, the batch systems, the report; all its safety properties proved | done |
| `Calendar` | dates in minutes, leap days, middles of months | done |
| `AeroProvider`, `OzoneProvider`, `ForcingProvider` (extend `Calendar`) | which field of which file each provider sends for a date | done |
| `Providers` (extends the three), `ProvidersProofs` | their composition with ICON through YAC; its safety properties proved | done |
| `FcSuite`, `FcSuiteProofs` | the ecFlow suites; their safety properties proved | done |

The modules cut the asynchronous restart along its layers and meet at named
places: `AsyncRestart` says who may touch a window when and fetches a PE's part
in one step (`GetPart`); `RestartInflight` refines the order of the gets inside
that step; `RestartGather` says what a part contains and where it goes;
`RestartFiles` looks at the files from outside, over several runs.

### AsyncRestart

One process per PE. `wpc` and `rpc` are the places a work or restart PE can
stand at, `idom` and `ridom` the index of its loop over the domains. A field's
content is the time step that computed it. A channel of MPI messages is a slot
that holds one message; that a slot is never overwritten is `NothingLost`.

| Actions | Code |
|---|---|
| `TimeStep` | `perform_nh_timeloop` and `integrate_nh`: an owner integrates its domains, nests start and stop |
| `UpdatePatch` | `update`: the activity flag on every PE, attributes on PE 0 and the domain's first PE only |
| `RecvDone`, `WaitBarrier` | `compute_wait_for_restart` |
| `SkipMaster`, `SendUpdate`, `UpdateSent`, `RecvUpdate` | `updateOnMaster`, domain by domain |
| `BcastMetadata`, `UnpackMetadata` | the broadcast of `compute_prepare_restart` |
| `SkipPost`, `LockWindow`, `PostVars`, `PostBarrier` | `compute_write_var_list` and the barrier |
| `SendTrigger`, `TriggerSent` | the trigger |
| `Destruct`, `RecvLastDone`, `LastBarrier`, `SendShutdown`, `ShutdownSent` | `destruct` |
| `SendDone`, `DoneSent`, `RecvTrigger`, `UnpackTrigger` | head of `asyncRestart_mainLoop`, `restart_wait_for_trigger` |
| `LockAll`, `UnlockPassing`, `UnlockAll` | `restart_sync`: a server keeps its own domains locked, the others it locks and unlocks at once |
| `BeginWrite`, `SkipFile`, `OpenFile`, `GetPart`, `CloseFile`, `RestBarrier` | `writeFiles`, `writeData` |
| `FreeWindows` | collective `MPI_Win_free` of both groups |

A blocking send may return before or after its message is received
(`UpdateSent`, `TriggerSent`, `ShutdownSent`, `DoneSent`). Constants describe domains: who owns them, who is their first PE,
when they start and end (`NestAssumption`, from `mo_setup_subdivision.f90` and
the conditions of the time loop).

### RestartInflight

One chunk of one variable is one call of `iterate`. A slot is a buffer, `req`
the request pool, `map` the `inbuffer_map` of `waitall`. `flying` is the truth
about which buffers a get is under way into, which the code cannot see;
`applied` counts how often a PE's part reached its destination. `rget` tells
the build with `MPI_Rget` from the one without it, where a get is a lock epoch
that `MPI_Win_unlock` completes in the order of a cursor. An unlock of a slot
without a get fails, and the model stops ("aborted").

### ReorderInfo and RestartGather

`ReorderInfo` builds what `mask2reorder_info` builds: sorted own indices,
per-PE offsets, an occupancy mask in words of `Bits` bits, its prefix sum, and
from them the reorder index. The loops that add up (`pe_off`, the bits of the
mask, the size of a window) are one function, `RunningSum`. Any decomposition, any local order and, with
`Holes`, points nobody owns, which the name-list output has for physical
domains (a setup without variables). `RestartGather` adds windows made of half
words, so that elements of one half (`SINGLE_T`, `INT_T`) and of two (`REAL_T`)
can get out of step, the offsets both sides keep for themselves, and the chunks
of `restart_chunk_size` levels. A value is the tuple of checkpoint, variable,
level and point: a wrong one in the file is seen.

### RestartFiles

Domains are written by their servers, each file created, filled, linked, closed;
the job can be killed anywhere, and the next run starts from what the links
name. A file that was never closed may be readable or not. The links, dates and
the choice of domains are those of `findRestartFile`, `read_restart_header`,
`singlefileCheckRestartFiles` and the driver.

`NestsInTime` restricts the times of nests inside nests. The time loop starts a
nest only if its parent already runs (`mo_nh_stepping.f90:2852`), a restarted run
takes every nest that is due (`mo_atmo_nonhydrostatic.f90:401`). A nest that is
due together with its parent starts one step late, so that a checkpoint between
them lacks the file that the next run asks for: with domains that start at 0, 1
and 1 TLC finds `CompletedKept` violated (see Observations). The setups under
`run/` give such nests times one after the other.

### DepList

File names are numbers in alphabetic order, 0 the `_meta_root` of the code, a
shell pattern the set of names it matches, a makefile the sequence of its rules.
`ReadRule` and `Sanitize` fill the graphs, `Setup` chooses the direction and the
start, `TooDeep`, `Skip`, `Visit` and `Finish` are one round of `visit_dfs` each
(`stack` is its recursion), `Postprocess` runs the checks, `NextHint` is the
second loop of `main`, `PrintList` the output. The order in which targets with
hints come up is left open.

### DepGen

A line is one statement or directive. `branch` holds the states of the open
conditionals as `preprocessor.py` keeps them (numbers that change sign at
`#elif` and `#else`), `found` the sets that the callbacks fill, `output` the
rules. On the same lines a compiler runs along (`cpp`, `cpp_macros`, `seen`),
which knows the value of the conditions that the program cannot evaluate
(`oracle`). `agreed` says that no line that only one of the two read changed a
macro or the module; `decided`, that every condition was evaluated. `Accepts` is
what a compiler demands of the lines it reads: no branch after an `#else` (each
level of `cpp` notes in `final` that there was one), no module inside another.
Conditionals are balanced within a file; an `#elif` without an `#if`, on which the code
crashes, does not occur; files outside the source roots define no macro of
interest. `Buildable` is about the rules of all inputs together; from an object
to one that implements a module it uses they lead in three steps at most, over
the file of the module and what stands for it (`Reached`).

### TestLists and Buildbot

`TestLists` gives the commands that `ExperimentTestCollection` issues for a
list of tests (experiments, members of ensembles, tolerances, collections) and
the pipeline it writes for GitLab. `Buildbot` executes them: `objects` are the
`Experiment` objects, also those replaced in their cell; a member of `links` is
one entry in the list of parents of an experiment and one in the list of
children of another, as `add_dependency` makes them, two if a command connects
the same two twice; `calls` is the recursion of `submit`; `job`, `incomplete` and
`status` what runexp keeps; `queue`, `code` and `canceled` the truth of the batch system.
Slurm, serial Slurm, PBS, the command line and GitLab are external and modelled
from the options the code passes.

### Calendar and the providers

Each provider's module says which months, files and weights it uses for a date,
and which those of the date are; a field that is sent is the list of what it was
interpolated from. `Providers` runs them beside ICON. The n-th get of a field
takes its n-th put (YAC), whatever date either side believes it to be, and a put
waits while `Slots` data are not fetched. The model's side is the order of its
calls: AES physics gets ozone and aerosol at each radiation step, NWP physics at
its set-up, at the first slow physics step unless the run is a restart, and at
the first radiation step of a day, an ocean every hour.

### FcSuite

`icon_multi.py` and `icon_fc.py` define the same families and triggers; a setup
says how many forecast families run in parallel and which dates they have.
`Submit` and `CompleteByRule` are the server, with the triggers and the complete
expressions of the two files; `SetEvent`, `LastStep` and `Finish` what tasks do
(`Written` their effect on disk); `Abort` failures; `Requeue` and `Rerun` the operator
who starts a task again; `TouchFlag` the flag file that ends a `check_progress`, which
somebody may write and nobody has to. A complete expression is considered before a trigger,
and a family whose tasks are all complete is requeued with its next date in the
same step; the date of a repeat that is over stays its last.

## 3. Runs

| Run | Shows | Bounds, and why they are enough |
|---|---|---|
| `async_restart` | The protocol is type-correct, passes the baton, posts no window that is read, lets no message overtake another, describes, posts and writes alike on every PE, writes snapshots, ends on every PE with every checkpoint on disk, and refines `RestartService`. | 4 work PEs, 2 restart PEs and 4 domains on halves of the PEs, one inside another: in both groups a PE that is rank 0 and one that is not, nests that live on some PEs only, start, are written and stop, and first PEs that are not work PE 0. 2 steps with a checkpoint after each, so that windows, channels and descriptions are used again. Sends return early or late. |
| `restart_inflight` | Each part is applied exactly once, no buffer is overwritten, the pool is clean after each call, in both builds. | 5 PEs and 3 slots, any PEs own points: the pool stays partly free, fills, overflows by more than one and is drained; 3 calls, so that the cursor wraps. |
| `restart_inflight_no_rget` | *Violation:* `MPI_Win_unlock` of a slot without a get. | As above, the build without `MPI_Rget`. |
| `restart_gather` | The gathered order is that of the used global indices; every value reaches its place in the file. | 2 PEs; 5 points in words of 2 bits (three words, the last one partial) and a grid of 2 points, every decomposition, so that odd, even and empty parts occur, and with holes for reorder infos alone; two local orders; 3 variables with skipped time levels; 2 checkpoints. Chunks of 2 of 3 levels, and whole columns with narrow elements: what `Aligned` allows. |
| `restart_gather_narrow` | *Violation:* narrow elements fetched level by level. | As above, chunks of one level. |
| `restart_files` | A finished checkpoint survives whatever follows, no run starts from before it, and after a crash outside a checkpoint the next run finds all files it needs, of one date. | 3 domains, 2 servers, 5 dates: a nest starts, one inside it starts a step later, both end; any number of crashes. |
| `deplist` | The list is complete, each name once, in an order in which the files can be made; cycles and failed checks are reported; the program ends. | Every graph over 3 names (two orders of its rules, hints and order-only prerequisites, six command lines), every acyclic graph over 4 names with one edge back: a second start, a finished vertex met again and a hint into either part all occur. |
| `deplist_max_depth` | *Violation:* a depth limit leaves out names that are within it. | Two requested names, one the prerequisite of the other. |
| `depgen` | What the compiler reads, uses and makes is found, nothing else where all conditions could be evaluated, and the rules of all files lead make to it. | Conditionals of up to three branches, nested twice, of any truth, with definitions in between; include files in several places; modules, submodules and module procedures over several inputs. |
| `buildbot` | Dependencies hold, also those of ensembles on both systems; every experiment is submitted; the report is honest; the end is reached. | Every digraph of dependencies of 3 experiments up to renaming, on three batch systems; lists with removals, replacements, flags; four collections of tests with the tags that say anything of them (`select-members` where a list has one test). One failing job, one cancelled job, one signal: two of a kind meet no code that one does not. |
| `providers` | Whatever the model fetches is the interpolation for its date (but the runoff of a leap day, see Observations), and all programs end where data exist. | 30 runs of some weeks around what changes: turns of years with and without a change of file, leap Februaries, the first year of data, perpetual and control years, both physics, restarts, out-of-phase and refused runs. One datum under way: with more, the programs wait less. |
| `fcsuite` | Forecasts find their inputs, means cover their month, and the suite ends with all dates done; but after a second try of a model a `check_progress` may poll for ever (`Orphaned`). | Three setups (two parallel families and a month left out; one family and IFS data; as many families as dates); months of 2 days, so that first, second and last days differ as they must; one failure of any task. |

### Findings

1. **Rounding per chunk** (`restart_gather_narrow`). `postData` rounds the size
   of a narrow variable up to full words once, `acquire` once per chunk. With
   chunks smaller than a column, an odd number of points on a PE shifts
   everything behind it. The default chunk, the whole column, is right.
2. **Depth of the first visit** (`deplist_max_depth`). `visit_dfs` keeps the
   depth of the path it came along first; a name near a second requested name
   is left out, contrary to the help text of `--max-depth`.
3. **Unlocking an empty slot** (`restart_inflight_no_rget`). Without
   `MPI_Rget`, `acquire` moves `next_activate` only when the pool is full, and
   `waitall` computes the slot to unlock as if it always moved
   (`mo_async_restart_comm_data.f90:222`). With fewer PEs that own points than
   slots it names a slot without a get, `MPI_Win_unlock` fails, and
   `HANDLE_MPI_ERROR` stops the model. This needs a build with
   `--disable-mpi-rget`, which `configure.ac:305` offers, and an MPI newer than
   3.0; for older ones the pool has one slot, with which it works
   (`OneSlotUnlocks`).

### Observations

What model checking showed beside the properties, not kept as runs:

- A crash between two links (`mo_restart_descriptor.f90:271`) leaves links of
  different dates. The loader takes for granted that there is one
  (`mo_load_singlefile_restart.f90:54`) and nothing notices.
- Two nests inside one another with one start time do not start together
  (`mo_nh_stepping.f90:2852`). A checkpoint at that time has no file of the
  inner one, which the restarted run wants (`mo_atmo_nonhydrostatic.f90:401`).
- `aero_provider.py:447` takes over `this_sw_b14_fin`, which nothing assigns
  after line 395. After the turn of a year the fine aerosol is interpolated
  with last December from the new year's file, then with months of the start
  year: `RightData` is stated for it in the first year only (`FirstYear`).
- With the NWP physics the model gets data at the first radiation step of a day,
  the providers send them every 24 hours after the first time step. The two count
  alike only as `InPhase` says: the run starts with a day and is no restart, and
  the radiation interval divides the day and is longer than a time step. With 7
  hours the first radiation step of the second day comes 28 hours after that of
  the first, and what it gets was made for 24.
- With control or perpetual ozone a run fails on a leap day if the year it is
  replaced by has none, and at once if it starts on one, as 1850 has none
  (`o3_cmip_provider.py:458`, `StartFails`); and a perpetual year always reads the file of 1850
  (`PerpetualYearRead`). After the middle of December 2099 there are no data.
- The comment in `era5g_omip_runoff_provider.py:438` says that a leap day uses the
  runoff of February 28; the comparison in line 439 (`> 59`) gives it that of
  March 1. `RightForcing` asks for the runoff of the same month and day and so
  leaves the leap day out by name (`OnLeapDay`).
- A file that uses a module it also provides does not depend on its file
  (`depgen.py:724`). If a submodule of that module is in another file, no rules
  lead from the object to the submodule's, and a program in the same file would
  be linked without it. `NamesApart` leaves such files out.
- `addexp` on a cell that holds an experiment with dependencies leaves them
  with the old object, and runexp crashes on a job it never had (on the command
  line it reports the experiment as failed); `NoneForgotten`
  is stated for lists without that (`Within`).
- `post_prepare.ecf:95` archives the log of whichever forecast the family runs
  now; `check_progress.ecf:105` makes a copy for it that is not used.
- `doc/doc.html` lets the model end `check_progress` when it completes or
  aborts (line 519); no task does. After a second try only the flag file, which
  no task writes, ends it. `Ends` without its second alternative (`Orphaned`)
  fails: the family stays on its date for ever, with those that wait for it.

## 4. Fairness

- `async_restart`: `Fairness` in `AsyncRestart` is weak fairness of `GoesOn`:
  while some PE can compute, or is in an MPI call that must return, some PE goes
  on. Each PE is an operating system process of its own, and MPI guarantees
  progress: a blocking call whose partner is there returns, a barrier every rank
  has entered is left. A send must return only once its message is received
  (`UpdateUnreceived`, `MasterUnreceived`, `DoneUnreceived` take the others out),
  though it may return before: the protocol may not rely on either. A run of
  the protocol is finite, so that fairness of each PE would ask for no more.
  Nothing is assumed of how long a write takes.
- `deplist`: one sequential program, weak fairness of its next step.
- `buildbot`: the script goes on, and so does the batch system
  (`WF` of each); signals and cancellations need not come.
- `providers`: the providers together and the model go on (`WF` of each).
- `fcsuite`: the server schedules, submitted jobs end one way or the other, and
  the operator starts again what failed (`WF` of the three together: `Ends` is not
  the server's promise alone). `Abort` is not fair, and `TouchFlag` is not: no
  task writes the flag file, and nothing tells an operator to.

The other modules state safety only. Where the system may stop (bounded calls, a
failed load, a program or suite that has ended) the configuration says
`CHECK_DEADLOCK FALSE`; the run of `AsyncRestart` checks deadlock, with
`Terminating` for the one state the system may stay in.

## 5. Proofs

TLAPS proves, for all values of the constants that satisfy the assumptions the
modules name (`SizesAssumption`, `NestAssumption`, `InflightAssumption`,
`FilesAssumption`, `NestsInTime`, `NAssumption`, `InputsAssumption`,
`CallsAssumption`, `SuiteAssumption`, `BuildbotAssumption`, `ReorderAssumption`,
`GatherAssumption`, `ProviderAssumption`, `SetupsAssumption`), the theorems below. Each rests on an
inductive invariant; TLC checked those as invariants of the runs of section 3
before they were proved. The proof modules go through them in the order of the
conjuncts, with one lemma per conjunct and action that can disturb it.

### AsyncRestartProofs

Every safety property of `AsyncRestart`, for all numbers of PEs, domains and
steps, all checkpoint schedules and all layouts of nests. `Inv` has nine parts:

- `TypeInv` (`TypeCorrect`): `TypeOK` with the loops' indices (`LoopInv`).
- `BatonInv` (`BatonPassed`, `RaceFree`). That no work PE has a window locked
  while a restart PE has is not inductive: why may work PE 1 lock its window?
  Because work PE 0 has received DONE and entered the barrier, so restart PE 0
  has passed its own, so no restart PE is serving. `BatonInv` says so: one of the
  work PEs, START or SHUTDOWN under way, the restart PEs, DONE under way has the
  baton (`Baton`); a group is past its barriers only while its rank 0 stands for
  it (`WorkTogether`, `RestTogether`); locks are held only there (`LocksHeld`).
- `LoopTruth`: a PE that has a domain or its parent knows whether it is active,
  and an owner's field is that of its step. The others may not know: hence
- `PhaseInv`, that the work PEs prepare the same checkpoint in the same stage, and
  `MetaInv` (`MetadataAgrees`), which follows a description from the domain's
  first PE (`OwnInv`) through the message to PE 0 (`UpdInv`, `MasterInv`) into
  the broadcast (`CastInv`).
- `WinInv` and `AskInv`: the windows hold the step that is asked for from the end
  of posting until the restart PEs let go, and what is asked for is the next
  checkpoint after the last one served.
- `RestInv` and `FileInv` (`FilesAreSnapshots`, `CheckpointsComplete`): the restart
  PEs serve one request, earlier files are complete, later ones absent, and those
  of the request as far as their servers are.

`MessagesKept` (no channel is written over) and `LeftClean` (what is there when
all PEs have left) follow from the same invariant. `Implements` is the
refinement, `Spec => ServiceSpec`: a step of the protocol is one of
`RestartService` or leaves its variables alone (`ServiceKept`). It needs one
thing more, `PrevInv`: the checkpoint before the one being served exists and is
what the service has reported done.

### RestartInflightProofs

`PoolMatched`: with `MPI_Rget` each PE's part is unread, in one slot, or applied;
requests and slots correspond through `map`, which stays a permutation.
`EpochInv` is its counterpart for the build without: until the pool is full it
holds one get per PE met, and in `waitall` as many gets are under way as are
still to be unlocked. An unlock that names a wrong slot stops the model, so a
call that returns has unlocked all. `Drained`, `PartsGathered` and `BuffersKept`
therefore hold for both builds, for any PEs that own points and any number of
slots. That no unlock stops the model is proved for a pool of one slot only
(`OneSlotUnlocks`); for more it is false (Findings).

### RestartDataProofs: reorder information and gather

`PlacesHold`: the n-th point a PE packs goes where its rank among the used points
says. The lemmas go from sums to places. `SumsUnique` and `RunningSums` say what a
`RunningSum` is, `SumsGrow` that it grows; `AscendingPlaces`, that the n-th of the
sorted own points has n - 1 before it; `WordsFollow`, that the running sum of the
bits of the words equals the number of used points before a word, so that with the
bits below its own in its word (`IndexIsRank`) a point gets its rank; `PartsTile`
and `PartUnique`, that the parts of the PEs follow each other without gap, which
makes the `CHOOSE` of `Gathered` unique. `BitsAreCounted` says that the check in
`occmask_pfxsum`, which stops the model, is never needed.

`FilesAreExact` has as its only hypothesis that the variable lists are `Aligned`:
narrow variables are cut into chunks of whole words, or not at all. Its
invariant, `GatherInv`, writes down the layout the code leaves implicit: `Start`
of a variable in the window of a PE, as the sum of what is posted of the
variables before it. `PostInv` says that what a PE has posted lies there, half
word by half word, and is of this checkpoint; `ReadInv`, that the restart PE's
offset, doubled, is the same `Start` plus the halves of the levels it has
taken, and that it stands at an odd level of a narrow variable. That is
where the hypothesis is used (`OffsetsAgree`): rounding up per chunk and per
variable agree only then, as `restart_gather_narrow` shows. `FetchedElement`,
`SourceIs` and `ReadSoFar` put it together. The module of the runs states that
the setups of the passing run are aligned, and some of the other run are not
(`SetupsAligned`).

### RestartDataProofs: files

`CompletedStays`, `WorkKept` and `RestartsClean` rest on `FilesInv`: every domain
that is due runs (`DueActive`, where `NestsInTime` is needed), a checkpoint is newer
than the last one completed (`Newer`), so that no create or link touches files of
that one; the files of the current one are as far as their stage says
(`Progress`); between checkpoints that no crash hit all links name one date
(`OneDate`).

### DepListProofs

For every makefile and command line. `DepInv` serves `TypeCorrect` and
`OrderIsBuildable`: a finished name has its prerequisites in the list, or on the
path of the traversal, which only a cycle can cause; `PassedFinished` and `Closed`
say so for every traversal, while the limit is off and no cycle was reported
(`Reliable`). The other three relate the traversals to the graph:

- `ListIsComplete`. `DepthInv`: a visited name is within its depth of the requested
  ones. `TakenInv`: of the children of what is finished or was come past none is
  left out, and the requested names are visited or ahead. At the end these make
  the visited names the reachable ones.
- `CyclesAreReported`. A reported name is on a cycle because the path of calls is
  a path of the graph (`Path`, `RealCycles`). If none was reported the list is
  ordered, and an ordered list has no cycle.
- `ChecksAreReported`: each visited name has been checked (`Checked`).

The graph grows while hints are followed; `Between` bounds it. What is reachable
is a recursive function of the number of steps (`Within`); that a set closed
under prerequisites contains all of it is proved by the least step that leaves
the set, since the library's induction theorems are out of reach.

### DepGenProofs

For all files, command lines and truths of conditions. `CompiledBranchesAreRead`
(`NothingSkipped`) rests on `SkipInv`, which relates the numbers of
`preprocessor.py`, level by level, to what the compiler does (`Fits3`): while it
has taken no branch of a conditional, all earlier tests are known to be false or
unknown and the last is not known to be true.

`NothingIsMissed` and `NothingIsForeign` compare the sets that were found with
those seen, and the two current modules (`Covered`, `FoundInv`). For the second
one the numbers must be exact once every condition is known: where the compiler
drops a line some number is negative, and where it compiles all outer levels the
last number is that of the part being read (`Exactly`, `ExactInv`). Both hold for
files that a compiler accepts, `Spec /\ []Accepts => ...`: after `#else` the code
goes on to toggle the sign at a second `#else`, and it keeps one current module.
TLC finds that every input of the run satisfies `Accepts`.

`RulesAreEnough` (`Buildable`) needs a memory of what was found in the inputs
already dealt with: `RuleInv` says that the rules of each are those of some sets
(`RulesOf`) that hold all that the compiler saw in it, and no more if the
conditions were known (`Foreseen`). `RulesBuild` goes through the rules, from
`RuleInv` alone. Its hypothesis `NamesApart` is what the names of a build must
satisfy: with several inputs each has an object; one object or stamp for two of them
would get the prerequisites of both, and so would a module made from two; an object with
the name of a source or of a module file would be its own prerequisite; two
submodules whose files have one name (without an infix, `depgen.py:804`) hide
one another; and for a file that uses what it makes see the observation above.
TLC finds that every input of the run satisfies it, once the rules are written.

### FcSuiteProofs

`ForecastsHaveInputs` and `MeansAreWhole`, for all numbers of parallel families,
dates and months. Each family repeats over dates of its own and drops its tasks'
states when it is requeued; what they did must be remembered. `SuiteInv` does so:
`TaskInv` says what the tasks of the date a family is at rely on and leave on the
disk, `PastInv` what is on the disk for the dates a family has dealt with,
`DateInv` which those are.

### BuildbotProofs

`DependenciesHold`, `NobodyForgotten` and `ReportHonest`, for every series of
commands, graph of dependencies and batch system. `Experiment.submit` compares
two numbers, the calls that came from parents and the parents. That equal numbers
mean that all parents have called is true because no entry of the list of parents
calls twice: `JobInv` says what a job has got from whom, `CallInv` that calls
under way come from entries that have not called, each once, or from the loop
over the experiments. `AllListed` does the counting. In the other direction,
`ArrivalInv`: for each entry whose parent is submitted the call has arrived or is
under way, and what is not submitted waits for one. When nothing is under way any
more, an experiment that is missing has fewer calls than parents, so one of its
parents is missing (`OneMissing`), and the missing ones contain a circle. `OnceInv`
is for the command line, where a job has no id and would be submitted again: it
never has parents there, for then the program ends. `CodeInv` relates the return
codes runexp holds to the truth of the batch system, and a cancelled job's to the
system that reports it.

`EnsemblesWait` (`EnsembleFirst`) goes from the lists of tests to the batch
system. Its hypothesis `FromTests` says where a program comes from: a pipeline is
`Pipeline` of some tests; a list is `Register` of some tests that have machines
and of names that are theirs (for another name the script stops), or has no job
that reads what others write. A list of `Register` is `Tied`: whatever it adds, a
*later* command connects with all that read it and that it reads, also when two
tests have one name, so that the second replaces the cells of the first with
objects that have no dependencies. `TieInv` carries this through the commands:
two cells of which one reads the other are linked, or a command to come will do
it. Of a tied list nothing is removed and no builder is switched off. At the end
there are no commands, so all are linked, and `InOrder` does the rest. On GitLab
the jobs of one name need the same members (`JobFacts`), which is what `Before`
rests on (`PipelineInv`). What `FlattenSeq` makes of any number of tests is
proved by the least turn of its loop at which a statement fails (`Flattened`).

### ProvidersProofs

`ForcingIsRight` and `DataIsRight`, for every setup of `SetupsAssumption`: dates
exist, nobody waits longer than a day for the next data, an ocean run starts at a
full hour. The programs share no clock; that they mean the same date is a matter
of counting. `Flow(put, g)` counts: provider p has put `put[p]` times, the model
is at its exchange `g`. Each is at the minute of its number (`Placed`, `ModelAt`,
with `Minutes` the one schedule of both), the length of a slot is the difference
of the numbers (`SlotInv`), and what is queued or in a slot is right for its
number (`RightAt`). A get, which takes the n-th datum at the n-th date,
keeps `Received`, and both properties follow from that.

The schedule is where `InPhase` is needed: `NextCall` shows that the first
radiation step of a day is 24 hours after that of the day before, since the
interval divides the day. For the ocean `NextHour` and `EndOfHours` follow the
hours over the turn of a year, and `HourGivesYear` says that they are those of
one date only.

The data are the other half. `AroundDate` and `BetweenMiddles` say which months
are around a date; the reference `Interpolated` weighs them by the minutes since
1801, the aerosol provider by the minutes of a month from its middle.
`AeroShares` says that these are the same. What this provider holds depends on
all it has read since the start: `CacheInv` says that it belongs to a date at
most a day before the one that is sent next (`AeroFor`), which is enough for
`AeroGoesOn`: no month is missed, and in the first year none is read from a wrong
file. The ozone provider keeps nothing; `HistoricalMonths` and `PerpetualMonths`
go through the ends of the years that are read (`OzoneYears`) and the perpetual
year, in which December comes before January. `Accepted` excludes namelists it
refuses.

`DataIsRight` says no more than `RightData` does: of the fine aerosol it speaks
of the first year, of a perpetual run of years that the file has (section 3), and
of the NWP physics when `InPhase`. Whether data come at all is `AllEnd`, which
TLC checks.

### What stays with TLC

- Liveness (`Termination`, `AllEnd`, `Finishes`, the `Ends` of `DepList` and
  `FcSuite`), which the prover does not do under fairness.

## 6. What is not modelled

- Numerics and ComIn (section 1); of the coupling, YAC itself.
- The synchronous restart: one collective call after the other.
- The multifile restart, the name-list output with its events, and the boundary
  prefetch. They are protocols like the one modelled, and the first to add.
- The content of attributes, apart from the step they belong to; the growth of
  the buffer of a packed message; 32-bit offsets.
- Files that fail to be written: the code stops the whole job (`finish`), which
  for the files is the same as `Crash`.
- A restart that begins a run: `AsyncRestart` begins at step 0. The protocol has
  no memory of an earlier run.
- `deplist.py` and `depgen.py`: the text of makefiles and sources, regular
  expressions and the evaluation of an expression beyond its outcome.
- Buildbot: commands that show, rename or configure without touching
  dependencies, the text of run scripts, the comparison of results.
- Providers: interpolation in space, more than one domain; the seven coarse
  fields are one, so are the fine ones; runs that end off a whole hour.
- ecFlow: ensembles and the simulation mode of the suites, limits, time
  dependencies, the content of logs.
- `archive_oce.py`: what it decides rests on the output of `cdo`, whose
  behaviour cannot be read from the source. The other scripts are one pass over
  their input in program order.

## 7. Plan

1. `AsyncLatbc`, with an abstract specification of a prefetcher (each date once,
   in order, before it is needed).
2. `OutputEvents` and `NameListOutput`, their composition, and the promise that
   a ready file means all parts are written.
3. `MultifileRestart` with its load, and the choice between the two formats in
   `RestartFiles`.
