---------------------------- MODULE AsyncRestart ----------------------------
(***************************************************************************)
(* Asynchronous restart writing: the compute ("work") PEs take a snapshot  *)
(* of the model state into RMA windows and go on computing while dedicated *)
(* restart PEs fetch it and write one file per domain.                     *)
(*                                                                         *)
(*   io/restart/mo_async_restart.f90            the protocol               *)
(*   io/restart/mo_async_restart_comm_data.f90  sync(): lock epochs        *)
(*   io/restart/mo_restart_patch_description.f90  metadata of a domain     *)
(*   io/restart/mo_restart_descriptor.f90       writeFiles                 *)
(*   atm_dyn_iconam/mo_nh_stepping.f90          who calls it, and when     *)
(*                                                                         *)
(* The content of a field is abstracted to the time step that computed it, *)
(* a message to its command and metadata.  A channel is a slot: NothingLost *)
(* states that no message is ever sent into an occupied one.               *)
(***************************************************************************)
EXTENDS Naturals

CONSTANTS
    NWork,      \* number of work PEs, ranked 0 .. NWork-1 in p_comm_work
    NRest,      \* process_mpi_restart_size
    NDom,       \* n_dom
    NSteps,     \* length of the run in time steps (bound)
    CkptSteps,  \* the steps after which lwrite_checkpoint holds
    Parent,     \* p_patch(jg)%parent_id, for jg >= 2
    Owned,      \* the work PEs with p_patch(jg)%domain_is_owned
    Proc0,      \* p_patch(jg)%proc0, the first PE of the domain
    StartStep,  \* the step at whose end the domain starts (0: from the start)
    EndStep     \* the first step the domain is not integrated in any more

Work  == 0 .. NWork - 1
Rest  == 0 .. NRest - 1
Dom   == 1 .. NDom
Steps == 0 .. NSteps

ASSUME SizesAssumption ==
    /\ NWork \in Nat \ {0} /\ NRest \in Nat \ {0}
    /\ NDom \in Nat \ {0}  /\ NSteps \in Nat
    /\ CkptSteps \subseteq 1 .. NSteps

(* What the subdivision guarantees of the owners (mo_setup_subdivision.f90 *)
(* lines 221-311), and start and end times with which the time loop starts *)
(* a nest when it is due: a nest inside a nest starts later than its       *)
(* parent (RestartFiles shows what happens otherwise).                     *)
ASSUME NestAssumption ==
    /\ Owned \in [Dom -> SUBSET Work] /\ Owned[1] = Work
    /\ Proc0 \in [Dom -> Work] /\ \A d \in Dom : Proc0[d] \in Owned[d]
    /\ StartStep \in [Dom -> Nat] /\ EndStep \in [Dom -> Nat]
    /\ StartStep[1] = 0 /\ EndStep[1] > NSteps
    /\ \A d \in Dom \ {1} : StartStep[d] + 1 < EndStep[d]
    /\ Parent \in [Dom \ {1} -> Dom]
    /\ \A d \in Dom \ {1} :
          /\ Parent[d] < d
          /\ Owned[d] \subseteq Owned[Parent[d]]
          /\ EndStep[d] <= EndStep[Parent[d]]
          /\ \/ StartStep[d] = 0 /\ StartStep[Parent[d]] = 0
             \/ StartStep[d] > StartStep[Parent[d]]

VARIABLES
    \* work PEs
    wpc,      \* control state
    idom,     \* index of the loop over the patches
    step,     \* time step whose fields the PE holds
    ldom,     \* p_patch(jg)%ldom_active as this PE knows it
    dyn,      \* step in which the PE last integrated the domain: stands for
              \* the attributes only owners keep current (time levels,
              \* jstep_adv%marchuk_order, ndyn_substeps, ...)
    desc,     \* the PE's patch descriptions
    win,      \* the PE's part of each domain's RMA window
    xlock,    \* the windows the PE has locked exclusively
    \* restart PEs
    rpc, ridom,
    rstep,    \* restart_args%jstep
    rdesc,    \* the restart PE's patch descriptions
    got,      \* work PEs whose part of the open file has arrived
    slock,    \* the windows the PE holds a shared lock on
    file,     \* restart files on disk, by step and domain
    \* messages
    toWork,   \* restart PE 0 -> work PE 0: MSG_RESTART_DONE
    toRest,   \* work PE 0 -> restart PE 0: packed START or SHUTDOWN
    upd,      \* Proc0[d] -> work PE 0: packed description of d
    wcast,    \* broadcast of work PE 0 in p_comm_work
    rcast     \* broadcast of restart PE 0 among the restart PEs

workVars == <<wpc, idom, step, ldom, dyn, desc, win, xlock>>
restVars == <<rpc, ridom, rstep, rdesc, got, slock, file>>
msgVars  == <<toWork, toRest, upd, wcast, rcast>>
vars     == <<workVars, restVars, msgVars>>

-----------------------------------------------------------------------------
(* Data.                                                                   *)

Description  == [active : BOOLEAN, dyn : Steps]
Descriptions == [Dom -> Description]

NoMsg       == [cmd |-> "none"]
Start(n, D) == [cmd |-> "start", step |-> n, desc |-> D]
Shutdown    == [cmd |-> "shutdown"]
Message     == {NoMsg, Shutdown} \cup
               [cmd : {"start"}, step : Steps, desc : Descriptions]
PatchMsg    == {NoMsg} \cup [cmd : {"patch"}, desc : Description]

NoFile == [state |-> "absent"]
File   == {NoFile} \cup
          [state : {"open", "closed"}, attr : Descriptions,
           part : [Work -> Steps]]

(* A domain's file is written by one restart PE.                           *)
ServerUnwrapped(d) == d - 1
Server(d) == (d - 1) % NRest

(* me%work_pe0_id, the PE that describes the domain to work PE 0.          *)
FirstPEIsRoot(d) == 0
FirstPE(d) == Proc0[d]

(* Domain d is active when step n ends.                                    *)
ActiveAfter(d, n) == StartStep[d] <= n /\ n < EndStep[d]

InitDesc == [d \in Dom |-> [active |-> FALSE, dyn |-> 0]]

Init ==
    /\ wpc   = [w \in Work |-> "step"]
    /\ idom  = [w \in Work |-> 1]
    /\ step  = [w \in Work |-> 0]
    /\ ldom  = [w \in Work |-> [d \in Dom |-> StartStep[d] = 0 /\ EndStep[d] > 0]]
    /\ dyn   = [w \in Work |-> [d \in Dom |-> 0]]
    /\ desc  = [w \in Work |-> InitDesc]
    /\ win   = [w \in Work |-> [d \in Dom |-> 0]]
    /\ xlock = [w \in Work |-> {}]
    /\ rpc   = [r \in Rest |-> IF r = 0 THEN "done" ELSE "recv"]
    /\ ridom = [r \in Rest |-> 1]
    /\ rstep = [r \in Rest |-> 0]
    /\ rdesc = [r \in Rest |-> InitDesc]
    /\ got   = [r \in Rest |-> {}]
    /\ slock = [r \in Rest |-> {}]
    /\ file  = [n \in CkptSteps |-> [d \in Dom |-> NoFile]]
    /\ toWork = "none"
    /\ toRest = NoMsg
    /\ upd    = [d \in Dom |-> NoMsg]
    /\ wcast  = [w \in Work |-> NoMsg]
    /\ rcast  = [r \in Rest |-> NoMsg]

-----------------------------------------------------------------------------
(* Work PEs: the time loop.                                                *)

GotoW(w, from, to) == wpc[w] = from /\ wpc' = [wpc EXCEPT ![w] = to]

(* Domains this PE sees active once the step-n loop top switched off those *)
(* past their end time.                                                    *)
Running(w, n) == {d \in Dom : ldom[w][d] /\ (d # 1 => n < EndStep[d])}

(* Nested domains the PE activates while it integrates their parent.       *)
Starting(w, n) ==
    {d \in Dom \ {1} : /\ d \notin Running(w, n)
                       /\ Parent[d] \in Running(w, n) /\ w \in Owned[Parent[d]]
                       /\ ActiveAfter(d, n)}

(* The time loop is left after this step.                                  *)
LastStepLate(w) == step[w] > NSteps
LastStep(w) == step[w] = NSteps

(* One step of the time loop: deactivate, integrate what the PE owns,      *)
(* activate nests; a checkpoint step goes on to updatePatch/writeRestart.  *)
TimeStep(w) ==
    /\ ~LastStep(w)
    /\ LET n == step[w] + 1 IN
       /\ GotoW(w, "step", IF n \in CkptSteps THEN "update" ELSE "step")
       /\ step' = [step EXCEPT ![w] = n]
       /\ ldom' = [ldom EXCEPT ![w] =
                     [d \in Dom |-> d \in Running(w, n) \cup Starting(w, n)]]
       /\ dyn'  = [dyn EXCEPT ![w] =
                     [d \in Dom |-> IF \/ d \in Running(w, n) /\ w \in Owned[d]
                                       \/ d \in Starting(w, n)
                                    THEN n ELSE @[d]]]
    /\ UNCHANGED <<idom, desc, win, xlock, restVars, msgVars>>

(* updatePatch of every domain: the activity flag on every PE, the dynamic *)
(* attributes on work PE 0 and the domain's first PE only.                 *)
KeepsRootOnly(w, d) == w = 0
Keeps(w, d) == w \in {0, Proc0[d]}

UpdatePatch(w) ==
    /\ GotoW(w, "update", IF w = 0 THEN "wait" ELSE "waitbar")
    /\ desc' = [desc EXCEPT ![w] =
                  [d \in Dom |->
                     [active |-> ldom[w][d],
                      dyn |-> IF Keeps(w, d) THEN dyn[w][d] ELSE desc[w][d].dyn]]]
    /\ UNCHANGED <<idom, step, ldom, dyn, win, xlock, restVars, msgVars>>

(* compute_wait_for_restart: PE 0 receives DONE, then the barrier.         *)
RecvDone ==
    /\ toWork = "done"
    /\ GotoW(0, "wait", "waitbar")
    /\ toWork' = "none"
    /\ UNCHANGED <<idom, step, ldom, dyn, desc, win, xlock, restVars,
                   toRest, upd, wcast, rcast>>

WaitBarrier ==
    /\ \A w \in Work : wpc[w] = "waitbar"
    /\ wpc'  = [w \in Work |-> "master"]
    /\ idom' = [w \in Work |-> 1]
    /\ UNCHANGED <<step, ldom, dyn, desc, win, xlock, restVars, msgVars>>

(* compute_prepare_restart, updateOnMaster of patch idom: its first PE     *)
(* sends its description to PE 0; the others have nothing to do.           *)
NextPatch(w) == idom' = [idom EXCEPT ![w] = @ + 1]

SkipMaster(w) ==
    /\ wpc[w] = "master" /\ idom[w] <= NDom
    /\ FirstPE(idom[w]) = 0 \/ w \notin {0, FirstPE(idom[w])}
    /\ NextPatch(w)
    /\ UNCHANGED <<wpc, step, ldom, dyn, desc, win, xlock, restVars, msgVars>>

SendUpdate(w) ==
    /\ idom[w] <= NDom /\ w # 0 /\ w = FirstPE(idom[w])
    /\ GotoW(w, "master", "updsent")
    /\ upd' = [upd EXCEPT ![idom[w]] = [cmd |-> "patch", desc |-> desc[w][idom[w]]]]
    /\ UNCHANGED <<idom, step, ldom, dyn, desc, win, xlock, restVars,
                   toWork, toRest, wcast, rcast>>

UpdateSent(w) ==
    /\ GotoW(w, "updsent", "master")
    /\ NextPatch(w)
    /\ UNCHANGED <<step, ldom, dyn, desc, win, xlock, restVars, msgVars>>

RecvUpdate ==
    /\ wpc[0] = "master" /\ idom[0] <= NDom
    /\ LET d == idom[0] IN
       /\ FirstPE(d) # 0 /\ upd[d] # NoMsg
       /\ desc' = [desc EXCEPT ![0][d] = upd[d].desc]
       /\ upd'  = [upd EXCEPT ![d] = NoMsg]
    /\ NextPatch(0)
    /\ UNCHANGED <<wpc, step, ldom, dyn, win, xlock, restVars,
                   toWork, toRest, wcast, rcast>>

(* PE 0 packs START and the metadata and broadcasts it, the others unpack. *)
BcastMetadata ==
    /\ wpc[0] = "master" /\ idom[0] = NDom + 1
    /\ wcast' = [w \in Work |-> IF w = 0 THEN wcast[0] ELSE Start(step[0], desc[0])]
    /\ wpc'   = [wpc EXCEPT ![0] = "post"]
    /\ idom'  = [idom EXCEPT ![0] = 1]
    /\ UNCHANGED <<step, ldom, dyn, desc, win, xlock, restVars,
                   toWork, toRest, upd, rcast>>

UnpackMetadata(w) ==
    /\ wpc[w] = "master" /\ idom[w] = NDom + 1
    /\ w # 0 /\ wcast[w] # NoMsg
    /\ desc'  = [desc EXCEPT ![w] = wcast[w].desc]
    /\ wcast' = [wcast EXCEPT ![w] = NoMsg]
    /\ wpc'   = [wpc EXCEPT ![w] = "post"]
    /\ idom'  = [idom EXCEPT ![w] = 1]
    /\ UNCHANGED <<step, ldom, dyn, win, xlock, restVars,
                   toWork, toRest, upd, rcast>>

(* compute_write_var_list for each active domain: lock the own window      *)
(* (MPI_MODE_NOCHECK: the caller vouches that nobody holds it), post every *)
(* variable, unlock.                                                       *)
SkipPost(w) ==
    /\ wpc[w] = "post" /\ idom[w] <= NDom
    /\ ~desc[w][idom[w]].active
    /\ NextPatch(w)
    /\ UNCHANGED <<wpc, step, ldom, dyn, desc, win, xlock, restVars, msgVars>>

LockWindow(w) ==
    /\ idom[w] <= NDom /\ desc[w][idom[w]].active
    /\ GotoW(w, "post", "locked")
    /\ xlock' = [xlock EXCEPT ![w] = @ \cup {idom[w]}]
    /\ UNCHANGED <<idom, step, ldom, dyn, desc, win, restVars, msgVars>>

PostVars(w) ==
    /\ GotoW(w, "locked", "post")
    /\ win'   = [win EXCEPT ![w][idom[w]] = step[w]]
    /\ xlock' = [xlock EXCEPT ![w] = @ \ {idom[w]}]
    /\ NextPatch(w)
    /\ UNCHANGED <<step, ldom, dyn, desc, restVars, msgVars>>

(* The barrier after posting, then PE 0 sends the packed message: the      *)
(* actual trigger.                                                         *)
PostBarrier ==
    /\ \A w \in Work : wpc[w] = "post" /\ idom[w] = NDom + 1
    /\ wpc' = [w \in Work |-> IF w = 0 THEN "trigger" ELSE "step"]
    /\ UNCHANGED <<idom, step, ldom, dyn, desc, win, xlock, restVars, msgVars>>

SendTrigger ==
    /\ GotoW(0, "trigger", "trigsent")
    /\ toRest' = Start(step[0], desc[0])
    /\ UNCHANGED <<idom, step, ldom, dyn, desc, win, xlock, restVars,
                   toWork, upd, wcast, rcast>>

TriggerSent ==
    /\ GotoW(0, "trigsent", "step")
    /\ UNCHANGED <<idom, step, ldom, dyn, desc, win, xlock, restVars, msgVars>>

(* destruct: wait for the last DONE, tell the servers to stop, free the    *)
(* windows (MPI_Win_free is collective over work and restart PEs).         *)
DestructUnawaited(w) ==
    /\ LastStep(w)
    /\ GotoW(w, "step", "lastbar")
    /\ UNCHANGED <<idom, step, ldom, dyn, desc, win, xlock, restVars, msgVars>>

Destruct(w) ==
    /\ LastStep(w)
    /\ GotoW(w, "step", IF w = 0 THEN "lastwait" ELSE "lastbar")
    /\ UNCHANGED <<idom, step, ldom, dyn, desc, win, xlock, restVars, msgVars>>

RecvLastDone ==
    /\ toWork = "done"
    /\ GotoW(0, "lastwait", "lastbar")
    /\ toWork' = "none"
    /\ UNCHANGED <<idom, step, ldom, dyn, desc, win, xlock, restVars,
                   toRest, upd, wcast, rcast>>

LastBarrier ==
    /\ \A w \in Work : wpc[w] = "lastbar"
    /\ wpc' = [w \in Work |-> IF w = 0 THEN "shutdown" ELSE "free"]
    /\ UNCHANGED <<idom, step, ldom, dyn, desc, win, xlock, restVars, msgVars>>

SendShutdown ==
    /\ GotoW(0, "shutdown", "shutsent")
    /\ toRest' = Shutdown
    /\ UNCHANGED <<idom, step, ldom, dyn, desc, win, xlock, restVars,
                   toWork, upd, wcast, rcast>>

ShutdownSent ==
    /\ GotoW(0, "shutsent", "free")
    /\ UNCHANGED <<idom, step, ldom, dyn, desc, win, xlock, restVars, msgVars>>

-----------------------------------------------------------------------------
(* Restart PEs: asyncRestart_mainLoop.                                     *)

GotoR(r, from, to) == rpc[r] = from /\ rpc' = [rpc EXCEPT ![r] = to]

SendDone ==
    /\ GotoR(0, "done", "donesent")
    /\ toWork' = "done"
    /\ UNCHANGED <<workVars, ridom, rstep, rdesc, got, slock, file,
                   toRest, upd, wcast, rcast>>

DoneSent ==
    /\ GotoR(0, "donesent", "recv")
    /\ UNCHANGED <<workVars, ridom, rstep, rdesc, got, slock, file, msgVars>>

(* What a restart PE does with the command it received: unpack the         *)
(* metadata and serve, or leave the loop.                                  *)
Obey(r, m) ==
    IF m.cmd = "start"
    THEN /\ rpc'   = [rpc EXCEPT ![r] = "sync"]
         /\ ridom' = [ridom EXCEPT ![r] = 1]
         /\ rstep' = [rstep EXCEPT ![r] = m.step]
         /\ rdesc' = [rdesc EXCEPT ![r] = m.desc]
    ELSE /\ rpc'   = [rpc EXCEPT ![r] = "free"]
         /\ UNCHANGED <<ridom, rstep, rdesc>>

RecvTrigger ==
    /\ rpc[0] = "recv" /\ toRest # NoMsg
    /\ Obey(0, toRest)
    /\ rcast'  = [r \in Rest |-> IF r = 0 THEN rcast[0] ELSE toRest]
    /\ toRest' = NoMsg
    /\ UNCHANGED <<workVars, got, slock, file, toWork, upd, wcast>>

UnpackTrigger(r) ==
    /\ r # 0 /\ rpc[r] = "recv" /\ rcast[r] # NoMsg
    /\ Obey(r, rcast[r])
    /\ rcast' = [rcast EXCEPT ![r] = NoMsg]
    /\ UNCHANGED <<workVars, got, slock, file, toWork, toRest, upd, wcast>>

(* restart_sync(.FALSE.): lock_all on every window; a PE that does not     *)
(* serve the domain unlocks again at once.                                 *)
NextFile(r) == ridom' = [ridom EXCEPT ![r] = @ + 1]

LockAll(r) ==
    /\ ridom[r] <= NDom
    /\ slock' = [slock EXCEPT ![r] = @ \cup {ridom[r]}]
    /\ IF r = Server(ridom[r])
       THEN GotoR(r, "sync", "sync") /\ NextFile(r)
       ELSE GotoR(r, "sync", "passing") /\ UNCHANGED ridom
    /\ UNCHANGED <<workVars, rstep, rdesc, got, file, msgVars>>

UnlockPassing(r) ==
    /\ GotoR(r, "passing", "sync")
    /\ slock' = [slock EXCEPT ![r] = @ \ {ridom[r]}]
    /\ NextFile(r)
    /\ UNCHANGED <<workVars, rstep, rdesc, got, file, msgVars>>

BeginWrite(r) ==
    /\ ridom[r] = NDom + 1
    /\ GotoR(r, "sync", "write")
    /\ ridom' = [ridom EXCEPT ![r] = 1]
    /\ UNCHANGED <<workVars, rstep, rdesc, got, slock, file, msgVars>>

(* writeFiles: skip a domain that is inactive or another PE's, else create *)
(* the file with the attributes of all domains, fetch the part of every    *)
(* PE that has points of the domain, close.                                *)
SkipFile(r) ==
    /\ rpc[r] = "write" /\ ridom[r] <= NDom
    /\ ~rdesc[r][ridom[r]].active \/ r # Server(ridom[r])
    /\ NextFile(r)
    /\ UNCHANGED <<workVars, rpc, rstep, rdesc, got, slock, file, msgVars>>

OpenFile(r) ==
    /\ ridom[r] <= NDom
    /\ rdesc[r][ridom[r]].active /\ r = Server(ridom[r])
    /\ GotoR(r, "write", "get")
    /\ file' = [file EXCEPT ![rstep[r]][ridom[r]] =
                  [state |-> "open", attr |-> rdesc[r],
                   part |-> [w \in Work |-> 0]]]
    /\ got'  = [got EXCEPT ![r] = {}]
    /\ UNCHANGED <<workVars, ridom, rstep, rdesc, slock, msgVars>>

GetPart(r, w) ==
    /\ rpc[r] = "get"
    /\ w \in Owned[ridom[r]] \ got[r]
    /\ file' = [file EXCEPT ![rstep[r]][ridom[r]].part[w] = win[w][ridom[r]]]
    /\ got'  = [got EXCEPT ![r] = @ \cup {w}]
    /\ UNCHANGED <<workVars, rpc, ridom, rstep, rdesc, slock, msgVars>>

CloseFile(r) ==
    /\ GotoR(r, "get", "write")
    /\ got[r] = Owned[ridom[r]]
    /\ file' = [file EXCEPT ![rstep[r]][ridom[r]].state = "closed"]
    /\ NextFile(r)
    /\ UNCHANGED <<workVars, rstep, rdesc, got, slock, msgVars>>

(* restart_sync(.TRUE.), then the barrier of the restart PEs.              *)
UnlockWrittenOnly(r) == {d \in slock[r] : ~rdesc[r][d].active}
LockedAfter(r) == {}

UnlockAll(r) ==
    /\ ridom[r] = NDom + 1
    /\ GotoR(r, "write", "bar")
    /\ slock' = [slock EXCEPT ![r] = LockedAfter(r)]
    /\ UNCHANGED <<workVars, ridom, rstep, rdesc, got, file, msgVars>>

RestBarrier ==
    /\ \A r \in Rest : rpc[r] = "bar"
    /\ rpc' = [r \in Rest |-> IF r = 0 THEN "done" ELSE "recv"]
    /\ UNCHANGED <<workVars, ridom, rstep, rdesc, got, slock, file, msgVars>>

FreeWindows ==
    /\ \A w \in Work : wpc[w] = "free"
    /\ \A r \in Rest : rpc[r] = "free"
    /\ wpc' = [w \in Work |-> "stopped"]
    /\ rpc' = [r \in Rest |-> "stopped"]
    /\ UNCHANGED <<idom, step, ldom, dyn, desc, win, xlock,
                   ridom, rstep, rdesc, got, slock, file, msgVars>>

-----------------------------------------------------------------------------
WorkStep(w) ==
    \/ TimeStep(w) \/ UpdatePatch(w)
    \/ SkipMaster(w) \/ SendUpdate(w) \/ UpdateSent(w) \/ UnpackMetadata(w)
    \/ SkipPost(w) \/ LockWindow(w) \/ PostVars(w) \/ Destruct(w)

MasterStep ==
    \/ RecvDone \/ RecvUpdate \/ BcastMetadata \/ SendTrigger \/ TriggerSent
    \/ RecvLastDone \/ SendShutdown \/ ShutdownSent

RestStep(r) ==
    \/ UnpackTrigger(r) \/ LockAll(r) \/ UnlockPassing(r) \/ BeginWrite(r)
    \/ SkipFile(r) \/ OpenFile(r) \/ (\E w \in Work : GetPart(r, w))
    \/ CloseFile(r) \/ UnlockAll(r)

ServerStep == SendDone \/ DoneSent \/ RecvTrigger

Collective == WaitBarrier \/ PostBarrier \/ LastBarrier \/ RestBarrier \/ FreeWindows

Stopped ==
    /\ \A w \in Work : wpc[w] = "stopped"
    /\ \A r \in Rest : rpc[r] = "stopped"

Terminating == Stopped /\ UNCHANGED vars

Next ==
    \/ \E w \in Work : WorkStep(w)
    \/ MasterStep
    \/ \E r \in Rest : RestStep(r)
    \/ ServerStep
    \/ Collective
    \/ Terminating

Spec == Init /\ [][Next]_vars

(* MPI_Send may return as soon as MPI has a copy of the message, or only   *)
(* when the receiver has it: UpdateSent, TriggerSent, ShutdownSent and     *)
(* DoneSent are enabled from the start, and a PE whose message is still    *)
(* under way need not take them.                                           *)
UpdateUnreceived(w) == wpc[w] = "updsent" /\ upd[idom[w]] # NoMsg
MasterUnreceived    == wpc[0] \in {"trigsent", "shutsent"} /\ toRest # NoMsg
DoneUnreceived      == rpc[0] = "donesent" /\ toWork # "none"

(* Every PE is a process of its own and MPI makes progress: while some PE  *)
(* can compute, or its MPI call must return, some PE goes on.  (The run is *)
(* finite, so this asks no more than fairness of each PE would.)           *)
GoesOn ==
    \/ \E w \in Work : WorkStep(w) /\ ~UpdateUnreceived(w)
    \/ MasterStep /\ ~MasterUnreceived
    \/ \E r \in Rest : RestStep(r)
    \/ ServerStep /\ ~DoneUnreceived
    \/ Collective

Fairness == WF_vars(GoesOn)

FairSpec == Spec /\ Fairness

-----------------------------------------------------------------------------
(* Properties.                                                             *)

(* Every variable has its type.                                            *)
WorkPC == {"step", "update", "wait", "waitbar", "master", "updsent", "post",
           "locked", "trigger", "trigsent", "lastwait", "lastbar",
           "shutdown", "shutsent", "free", "stopped"}
RestPC == {"done", "donesent", "recv", "sync", "passing", "write", "get",
           "bar", "free", "stopped"}

TypeOK ==
    /\ wpc \in [Work -> WorkPC] /\ rpc \in [Rest -> RestPC]
    /\ idom \in [Work -> 1 .. NDom + 1] /\ ridom \in [Rest -> 1 .. NDom + 1]
    /\ step \in [Work -> Steps] /\ rstep \in [Rest -> Steps]
    /\ ldom \in [Work -> [Dom -> BOOLEAN]]
    /\ dyn \in [Work -> [Dom -> Steps]]
    /\ desc \in [Work -> Descriptions] /\ rdesc \in [Rest -> Descriptions]
    /\ win \in [Work -> [Dom -> Steps]]
    /\ xlock \in [Work -> SUBSET Dom] /\ slock \in [Rest -> SUBSET Dom]
    /\ got \in [Rest -> SUBSET Work]
    /\ file \in [CkptSteps -> [Dom -> File]]
    /\ toWork \in {"none", "done"} /\ toRest \in Message
    /\ upd \in [Dom -> PatchMsg]
    /\ wcast \in [Work -> Message \ {Shutdown}] /\ rcast \in [Rest -> Message]

(* The promise MPI_MODE_NOCHECK makes: while a work PE has its part of a   *)
(* window locked exclusively to post the next snapshot, no restart PE has  *)
(* that window locked, so no get can read a half-written snapshot.         *)
WindowRaceFree ==
    \A w \in Work, r \in Rest : xlock[w] \cap slock[r] = {}

(* Why: the right to touch the windows is a baton.  Exactly one of the     *)
(* work PEs, the START or SHUTDOWN under way, the restart PEs and the DONE *)
(* under way has it, the PEs of a group use it only while their rank 0     *)
(* stands for them, and locks are held only in its possession.             *)
WorkHas == wpc[0] \in {"waitbar", "master", "post", "locked", "trigger",
                       "lastbar", "shutdown"}
RestHas == rpc[0] \notin {"donesent", "recv"}

Serving(r) == rpc[r] \in {"sync", "passing", "write", "get", "bar"}
Left(r)    == rpc[r] \in {"free", "stopped"}

Baton ==
    /\ WorkHas => ~RestHas /\ toRest = NoMsg /\ toWork = "none"
    /\ RestHas => toRest = NoMsg /\ toWork = "none"
    /\ toRest # NoMsg => toWork = "none"
    /\ WorkHas \/ RestHas \/ toRest # NoMsg \/ toWork # "none"

WorkTogether ==
    \A w \in Work : wpc[w] \in {"master", "updsent", "post", "locked"} =>
        wpc[0] \in {"master", "post", "locked"}

RestTogether ==
    \A r \in Rest \ {0} :
        /\ Serving(r) => Serving(0)
        /\ Left(r) \/ rcast[r] = Shutdown => Left(0)
        /\ rcast[r].cmd = "start" => Serving(0) /\ rpc[r] = "recv"
        /\ rpc[r] \notin {"done", "donesent"}

LocksHeld ==
    /\ \A w \in Work : xlock[w] = IF wpc[w] = "locked" THEN {idom[w]} ELSE {}
    /\ \A r \in Rest : slock[r] # {} => Serving(r) /\ rpc[r] # "bar"

BatonInv == Baton /\ WorkTogether /\ RestTogether /\ LocksHeld

(* A restart file that was closed holds, from every PE that has points of  *)
(* the domain, the fields of the very step it is named after, and          *)
(* attributes that describe every domain as it was after that step: the    *)
(* run may be many steps further by then.                                  *)
Snapshot(n, f, d) ==
    /\ \A w \in Owned[d] : f.part[w] = n
    /\ \A e \in Dom : /\ f.attr[e].active = ActiveAfter(e, n)
                      /\ ActiveAfter(e, n) => f.attr[e].dyn = n

SnapshotConsistent ==
    \A n \in CkptSteps, d \in Dom :
        file[n][d].state = "closed" => Snapshot(n, file[n][d], d)

(* When the restart PEs report DONE for a checkpoint, exactly the domains  *)
(* active at that step have a file, and all of them are closed: starting   *)
(* or stopping a nest during the run leaves no incomplete set of files.    *)
Complete(n) ==
    \A d \in Dom :
        file[n][d].state = IF ActiveAfter(d, n) THEN "closed" ELSE "absent"

Reported(n) ==
    \/ n < rstep[0]
    \/ n = rstep[0] /\ rpc[0] \in {"done", "donesent", "recv", "free", "stopped"}

CheckpointComplete == \A n \in CkptSteps : Reported(n) => Complete(n)

(* While PEs post their variables they all describe the domains alike, and *)
(* as they are at that step: posting decides by it whether a window is     *)
(* filled, and the servers decide by it which windows they read.           *)
MetadataAgreed ==
    \A w \in Work : wpc[w] \in {"post", "locked"} =>
        \A d \in Dom : /\ desc[w][d].active = ActiveAfter(d, step[w])
                      /\ desc[w][d] = desc[0][d]

(* No message or broadcast overtakes another: whatever is under way was    *)
(* received before the next one is sent on the same channel.               *)
NothingLost ==
    [][/\ toWork # toWork' => "none" \in {toWork, toWork'}
       /\ toRest # toRest' => NoMsg \in {toRest, toRest'}
       /\ \A d \in Dom  : upd[d] # upd'[d] => NoMsg \in {upd[d], upd'[d]}
       /\ \A w \in Work : wcast[w] # wcast'[w] => NoMsg \in {wcast[w], wcast'[w]}
       /\ \A r \in Rest : rcast[r] # rcast'[r] => NoMsg \in {rcast[r], rcast'[r]}
      ]_msgVars

(* When all PEs have left, no message is under way, no window is locked    *)
(* and every checkpoint of the run is on disk.                             *)
ShutdownClean ==
    Stopped => /\ toWork = "none" /\ toRest = NoMsg
               /\ \A d \in Dom : upd[d] = NoMsg
               /\ \A w \in Work : wcast[w] = NoMsg /\ xlock[w] = {}
               /\ \A r \in Rest : rcast[r] = NoMsg /\ slock[r] = {}
               /\ \A n \in CkptSteps : Complete(n)

(* The protocol implements RestartService: a checkpoint is requested when  *)
(* work PE 0 sends START and done when the restart PEs left their barrier; *)
(* the file of a domain appears when it is closed.                         *)
Requested == IF toRest.cmd = "start" THEN toRest.step ELSE rstep[0]

DoneUpTo == IF Serving(0) THEN CHOOSE m \in {0} \cup CkptSteps :
                              /\ m < rstep[0]
                              /\ \A k \in CkptSteps : k < rstep[0] => k <= m
            ELSE rstep[0]

FullContent(n, d) ==
    [part |-> [w \in Owned[d] |-> n],
     active |-> {e \in Dom : ActiveAfter(e, n)},
     dyn |-> [e \in {e \in Dom : ActiveAfter(e, n)} |-> n]]

ContentOf(f, d) ==
    [part |-> [w \in Owned[d] |-> f.part[w]],
     active |-> {e \in Dom : f.attr[e].active},
     dyn |-> [e \in {e \in Dom : f.attr[e].active} |-> f.attr[e].dyn]]

Disk == [n \in CkptSteps |-> [d \in Dom |->
            IF file[n][d].state = "closed" THEN {ContentOf(file[n][d], d)}
            ELSE {}]]

Service == INSTANCE RestartService WITH
             Ckpts <- CkptSteps, Domains <- Dom,
             IsActive <- ActiveAfter, Content <- FullContent,
             requested <- Requested, done <- DoneUpTo, disk <- Disk

ServiceSpec == Service!Spec

(* The run ends on all PEs, even if no send returns before its message was *)
(* received: nobody waits for a message, a broadcast or a barrier that     *)
(* never comes.                                                            *)
Termination == <>Stopped
=============================================================================
