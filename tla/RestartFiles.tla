---------------------------- MODULE RestartFiles ----------------------------
(***************************************************************************)
(* Restart files, the symbolic links to the newest of them, crashes, and   *)
(* the run that starts from the links.  A restart PE writes the domains it *)
(* serves one after the other: it creates the file, puts the data, turns   *)
(* the link of the domain to the file, and closes it (writeFiles in        *)
(* io/restart/mo_restart_descriptor.f90).  The links of several domains    *)
(* are turned at different times, and the run that restarts takes its date *)
(* from the link of domain 1 and its data from the link of each active     *)
(* domain (mo_load_restart.f90, mo_load_singlefile_restart.f90).           *)
(*                                                                         *)
(* A date counts time steps of the base domain; any step may end in a      *)
(* checkpoint.  A file name contains the date, so a run that repeats a     *)
(* checkpoint writes the same file again.                                  *)
(***************************************************************************)
EXTENDS Integers

CONSTANTS
    NDom,          \* n_dom
    NServer,       \* process_mpi_restart_size
    MaxDate,       \* date the experiment ends (bound)
    Parent,        \* p_patch(jg)%parent_id, for jg >= 2
    DomStart,      \* start_time and end_time of the domains, as dates
    DomEnd

Dom  == 1 .. NDom
Date == 0 .. MaxDate
None == -1

ASSUME FilesAssumption ==
    /\ NDom \in Nat \ {0} /\ NServer \in Nat \ {0} /\ MaxDate \in Nat
    /\ DomStart \in [Dom -> Date] /\ DomEnd \in [Dom -> Nat]
    /\ DomStart[1] = 0 /\ DomEnd[1] > MaxDate
    /\ Parent \in [Dom \ {1} -> Dom] /\ \A d \in Dom \ {1} : Parent[d] < d

(* A nest inside a nest starts later than its parent, which has not ended  *)
(* then.  Otherwise the time loop starts it a step late or never, and a    *)
(* checkpoint between has no file of a domain that the next run needs.     *)
ASSUME NestsInTime ==
    \A d \in Dom \ {1} :
        \/ DomStart[d] = 0
        \/ DomStart[Parent[d]] < DomStart[d] /\ DomStart[d] <= DomEnd[Parent[d]]

VARIABLES
    run,       \* "up", "down" after a crash, "failed" if a load stopped
    date,      \* current date of the run
    ldom,      \* the domains that are ldom_active
    last,      \* date of the run's last checkpoint, or of its start
    ckpt,      \* date of the checkpoint being written, or None
    stage,     \* per domain: "todo", "created", "put", "linked" or "closed"
    files,     \* per domain and date: "absent", "open" or "complete"
    link,      \* per domain: the date of the file its link names, or None
    loaded,    \* per domain: the date of the data the run started with
    completed, \* date of the last checkpoint that was written to its end
    torn       \* a crash hit a checkpoint, and none was completed since

vars == <<run, date, ldom, last, ckpt, stage, files, link, loaded, completed,
          torn>>

(* ldom_active of a run that starts at date t                              *)
ActiveAt(t) == {d \in Dom : DomStart[d] <= t /\ t < DomEnd[d]}

Server(d) == (d - 1) % NServer

Init ==
    /\ run = "up" /\ date = 0 /\ ldom = ActiveAt(0) /\ last = 0 /\ ckpt = None
    /\ stage = [d \in Dom |-> "closed"]
    /\ files = [d \in Dom |-> [t \in Date |-> "absent"]]
    /\ link = [d \in Dom |-> None]
    /\ loaded = [d \in Dom |-> 0]
    /\ completed = None /\ torn = FALSE

(* Domains past their end are switched off before the step, nests are      *)
(* started after the step of their parent, if it took one.                 *)
Running  == {d \in ldom : date < DomEnd[d]}
Starting == {d \in Dom \ ({1} \union Running) :
                Parent[d] \in Running /\ d \in ActiveAt(date + 1)}

(* The work PEs go on while the restart PEs write.                         *)
Step ==
    /\ run = "up" /\ date < MaxDate
    /\ date' = date + 1
    /\ ldom' = Running \union Starting
    /\ UNCHANGED <<run, last, ckpt, stage, files, link, loaded, completed, torn>>

(* The checkpoint starts once the one before has been written.             *)
BeginCheckpoint ==
    /\ run = "up" /\ ckpt = None /\ last < date
    /\ ckpt' = date /\ last' = date
    /\ stage' = [d \in Dom |-> IF d \in ldom THEN "todo" ELSE "closed"]
    /\ UNCHANGED <<run, date, ldom, files, link, loaded, completed, torn>>

(* restartfile_open                                                        *)
CreateFile(d) ==
    /\ run = "up" /\ stage[d] = "todo"
    /\ \A e \in 1 .. d - 1 : Server(e) = Server(d) => stage[e] = "closed"
    /\ stage' = [stage EXCEPT ![d] = "created"]
    /\ files' = [files EXCEPT ![d][ckpt] = "open"]
    /\ UNCHANGED <<run, date, ldom, last, ckpt, link, loaded, completed, torn>>

WriteData(d) ==
    /\ run = "up" /\ stage[d] = "created"
    /\ stage' = [stage EXCEPT ![d] = "put"]
    /\ UNCHANGED <<run, date, ldom, last, ckpt, files, link, loaded, completed,
                   torn>>

(* Mutant: the domain number is left out of the name of the link.          *)
LinkRoot(d) == 1

(* restartSymlinkName                                                      *)
LinkName(d) == d

(* create_restart_file_link                                                *)
CreateLink(d) ==
    /\ run = "up" /\ stage[d] = "put"
    /\ stage' = [stage EXCEPT ![d] = "linked"]
    /\ link' = [link EXCEPT ![LinkName(d)] = ckpt]
    /\ UNCHANGED <<run, date, ldom, last, ckpt, files, loaded, completed, torn>>

(* nf90_close                                                              *)
CloseFile(d) ==
    /\ run = "up" /\ stage[d] = "linked"
    /\ stage' = [stage EXCEPT ![d] = "closed"]
    /\ files' = [files EXCEPT ![d][ckpt] = "complete"]
    /\ UNCHANGED <<run, date, ldom, last, ckpt, link, loaded, completed, torn>>

(* Mutant: any restart PE that is done reports for all.                    *)
SomeClosed == \E d \in Dom : files[d][ckpt] = "complete"

AllClosed == \A d \in Dom : stage[d] = "closed"

(* All restart PEs have passed the barrier and DONE is sent.               *)
EndCheckpoint ==
    /\ run = "up" /\ ckpt # None /\ AllClosed
    /\ ckpt' = None /\ completed' = ckpt /\ torn' = FALSE
    /\ UNCHANGED <<run, date, ldom, last, stage, files, link, loaded>>

Crash ==
    /\ run = "up"
    /\ run' = "down" /\ ckpt' = None /\ torn' = (torn \/ ckpt # None)
    /\ stage' = [d \in Dom |-> "closed"]
    /\ UNCHANGED <<date, ldom, last, files, link, loaded, completed>>

(* The files the next run needs: of domain 1, whose attributes hold the    *)
(* date, and of every domain active at that date.                          *)
Needed == IF link[1] = None THEN {1} ELSE ActiveAt(link[1])

(* A file that was never closed may or may not be readable.                *)
Readable(d) == link[d] # None /\ files[d][link[d]] # "absent"
Sound(d)    == link[d] # None /\ files[d][link[d]] = "complete"

(* findRestartFile, read_restart_header and read_restart_files             *)
Load ==
    /\ run = "down" /\ \A d \in Needed : Readable(d)
    /\ run' = "up" /\ date' = link[1] /\ last' = link[1]
    /\ ldom' = ActiveAt(link[1])
    /\ loaded' = [d \in Dom |-> IF d \in Needed THEN link[d] ELSE link[1]]
    /\ UNCHANGED <<ckpt, stage, files, link, completed, torn>>

LoadFails ==
    /\ run = "down" /\ \E d \in Needed : ~Sound(d)
    /\ run' = "failed"
    /\ UNCHANGED <<date, ldom, last, ckpt, stage, files, link, loaded,
                   completed, torn>>

Next ==
    \/ Step \/ BeginCheckpoint \/ EndCheckpoint
    \/ \E d \in Dom :
          CreateFile(d) \/ WriteData(d) \/ CreateLink(d) \/ CloseFile(d)
    \/ Crash \/ Load \/ LoadFails

Spec == Init /\ [][Next]_vars

----------------------------------------------------------------------------
(* The files of the last checkpoint that was written to its end stay whole *)
(* on disk, whatever crashes, restarts from mixed links and repeated       *)
(* checkpoints come after, and no link of a domain it covers names an      *)
(* older file.                                                             *)
CompletedKept ==
    completed # None =>
        \A d \in ActiveAt(completed) :
            files[d][completed] = "complete" /\ link[d] >= completed

(* A run never starts from an older date than that of the last checkpoint  *)
(* written to its end: finished work is not lost.                          *)
NoWorkLost ==
    [][run = "down" /\ run' = "up" => date' >= completed]_vars

(* Unless the last crash hit a checkpoint that was being written, the run  *)
(* that restarts finds all files it needs, and all are of one date: also   *)
(* after earlier crashes, restarts from mixed links and nests that were    *)
(* started or stopped in between.                                          *)
CleanRestart ==
    [][run = "down" /\ run' # run /\ ~torn /\ completed # None =>
           run' = "up" /\ \A d \in Dom : loaded'[d] = loaded'[1]]_vars

=============================================================================
