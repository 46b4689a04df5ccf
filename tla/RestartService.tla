--------------------------- MODULE RestartService ---------------------------
(***************************************************************************)
(* What asynchronous restart writing promises, whatever processes and      *)
(* messages it takes: checkpoints are taken one at a time and in order,    *)
(* the file of each domain appears at once and holds the snapshot of the   *)
(* requested step, and a checkpoint is done when exactly the domains       *)
(* active at that step have their file.                                    *)
(***************************************************************************)
EXTENDS Naturals

CONSTANTS Ckpts,        \* the checkpoint steps of the run
          Domains,
          IsActive(_, _),  \* IsActive(d, n): d is active after step n
          Content(_, _)    \* Content(n, d): the snapshot of d at step n

VARIABLES requested,  \* step of the latest checkpoint asked for, 0: none
          done,       \* step of the latest checkpoint finished
          disk        \* by step and domain the set of finished files, one or none

vars == <<requested, done, disk>>

Init ==
    /\ requested = 0 /\ done = 0
    /\ disk = [n \in Ckpts |-> [d \in Domains |-> {}]]

Request(n) ==
    /\ done = requested /\ n > requested
    /\ requested' = n
    /\ UNCHANGED <<done, disk>>

Write(d) ==
    /\ done # requested
    /\ IsActive(d, requested) /\ disk[requested][d] = {}
    /\ disk' = [disk EXCEPT ![requested][d] = {Content(requested, d)}]
    /\ UNCHANGED <<requested, done>>

Finish ==
    /\ done # requested
    /\ \A d \in Domains : IsActive(d, requested) => disk[requested][d] # {}
    /\ done' = requested
    /\ UNCHANGED <<requested, disk>>

Next ==
    \/ \E n \in Ckpts : Request(n)
    \/ \E d \in Domains : Write(d)
    \/ Finish

Spec == Init /\ [][Next]_vars
=============================================================================
