-------------------------- MODULE RestartInflight --------------------------
(***************************************************************************)
(* The pool of in-flight gets with which a restart PE fetches one chunk of *)
(* a variable from all work PEs:  asyncRestartCommData_inbuffer_iterate in *)
(* io/restart/mo_async_restart_comm_data.f90.  A slot holds one get; when  *)
(* the pool is full a get has to complete, and its data to be applied,     *)
(* before the slot is used again.  waitall() drains the pool.              *)
(*                                                                         *)
(* With MPI_Rget completions come in any order.  Built with NO_MPI_RGET    *)
(* (configure --disable-mpi-rget) every get is a lock epoch of its own     *)
(* that MPI_Win_unlock completes.                                          *)
(***************************************************************************)
EXTENDS Naturals

CONSTANTS
    NPE,          \* num_work_procs
    MaxInflight,  \* max_inflight
    Builds,       \* TRUE: with MPI_Rget, FALSE: without
    MaxCalls      \* number of calls of iterate (bound)

PE    == 0 .. NPE - 1
Slots == 1 .. MaxInflight
None  == NPE      \* srcPE of a free slot, MPI_REQUEST_NULL

ASSUME InflightAssumption ==
    /\ NPE \in Nat \ {0} /\ MaxInflight \in Nat \ {0} /\ MaxCalls \in Nat
    /\ Builds \subseteq BOOLEAN

VARIABLES
    rget,      \* the program is built with MPI_Rget
    pc,        \* "idle", "acquire", "waitall" or "aborted"
    own,       \* PEs with points of the variable's grid (pe_own > 0)
    srcPE,     \* the loop index of iterate
    in_use, next_activate,
    inbuf,     \* inbuffers(slot)%srcPE
    req,       \* req_pool: the slot whose get the request belongs to, or 0
    map,       \* inbuffer_map of waitall
    remaining, \* the loop index of waitall
    flying,    \* the slots a get is under way into
    applied,   \* per PE, how often its part went to the destination
    calls

vars == <<rget, pc, own, srcPE, in_use, next_activate, inbuf, req, map,
          remaining, flying, applied, calls>>

Init ==
    /\ rget \in Builds
    /\ pc = "idle" /\ own = {} /\ srcPE = 0
    /\ in_use = 0 /\ next_activate = 1
    /\ inbuf = [s \in Slots |-> None]
    /\ req = [s \in Slots |-> 0]
    /\ map = [s \in Slots |-> s]
    /\ remaining = 0
    /\ flying = {}
    /\ applied = [p \in PE |-> 0]
    /\ calls = 0

(* collectData: one chunk of one variable, on a grid of which the PEs of S *)
(* own points.                                                             *)
Iterate(S) ==
    /\ pc = "idle" /\ calls < MaxCalls
    /\ S # {}
    /\ pc' = "acquire" /\ own' = S /\ srcPE' = 0
    /\ applied' = [p \in PE |-> 0]
    /\ calls' = calls + 1
    /\ UNCHANGED <<rget, in_use, next_activate, inbuf, req, map, remaining,
                   flying>>

SkipPE ==
    /\ pc = "acquire" /\ srcPE < NPE /\ srcPE \notin own
    /\ srcPE' = srcPE + 1
    /\ UNCHANGED <<rget, pc, own, in_use, next_activate, inbuf, req, map,
                   remaining, flying, applied, calls>>

(* The get into slot s is complete: apply() copies its part and resets the *)
(* slot; only a get that is under way delivers a part.                     *)
Apply(s) ==
    applied' = IF s \in flying THEN [applied EXCEPT ![inbuf[s]] = @ + 1]
               ELSE applied

Launch(s) ==
    /\ inbuf' = [inbuf EXCEPT ![s] = srcPE]
    /\ req' = IF rget THEN [req EXCEPT ![s] = s] ELSE req
    /\ srcPE' = srcPE + 1

AcquireFree ==
    /\ pc = "acquire" /\ srcPE \in own
    /\ in_use < MaxInflight
    /\ in_use' = in_use + 1
    /\ Launch(in_use + 1)
    /\ flying' = flying \cup {in_use + 1}
    /\ UNCHANGED <<rget, pc, own, next_activate, map, remaining, applied,
                   calls>>

(* The pool is full: MPI_Waitany over the whole pool takes any request,    *)
(* the other build takes the slot next_activate.                           *)
NextActivate(s) == (s % MaxInflight) + 1

AcquireReuse ==
    /\ pc = "acquire" /\ srcPE \in own
    /\ in_use = MaxInflight
    /\ \E s \in IF rget THEN {t \in Slots : req[t] # 0} ELSE {next_activate} :
         /\ Apply(s)
         /\ Launch(s)
         /\ next_activate' = IF rget THEN next_activate ELSE NextActivate(s)
    /\ UNCHANGED <<rget, pc, own, in_use, map, remaining, flying, calls>>

(* waitall: DO remaining = this%in_use, 1, -1.                             *)
PendingButOne == IF in_use = 0 THEN 0 ELSE in_use - 1
Pending == in_use

BeginWaitall ==
    /\ pc = "acquire" /\ srcPE = NPE
    /\ pc' = "waitall"
    /\ remaining' = Pending
    /\ map' = [s \in Slots |-> s]
    /\ UNCHANGED <<rget, own, srcPE, in_use, next_activate, inbuf, req,
                   flying, applied, calls>>

(* MPI_Waitany(remaining, ...) takes any of the first requests; the last   *)
(* one moves to its place, in the pool and in the map.                     *)
UnmovedMap(i) == map
MovedMap(i) == [map EXCEPT ![i] = map[remaining], ![remaining] = map[i]]

WaitRequest ==
    /\ pc = "waitall" /\ rget /\ remaining > 0
    /\ \E i \in 1 .. remaining :
         /\ req[i] # 0
         /\ LET s == map[i] IN
            /\ IF s = req[i] THEN Apply(s) ELSE UNCHANGED applied
            /\ flying' = flying \ {req[i]}
            /\ inbuf' = [inbuf EXCEPT ![s] = None]
         /\ map' = MovedMap(i)
         /\ req' = [req EXCEPT ![i] = req[remaining], ![remaining] = 0]
    /\ remaining' = remaining - 1
    /\ UNCHANGED <<rget, pc, own, srcPE, in_use, next_activate, calls>>

(* NO_MPI_RGET: the slot is computed.  The "PE" of a slot without a get is *)
(* -1 (inbuffer_reset); to unlock it is an MPI error, on which             *)
(* HANDLE_MPI_ERROR aborts.                                                *)
Acquired == ((next_activate + MaxInflight - remaining - 1) % MaxInflight) + 1

WaitUnlock ==
    /\ pc = "waitall" /\ ~rget /\ remaining > 0
    /\ LET s == Acquired IN
       IF inbuf[s] = None
       THEN pc' = "aborted" /\ UNCHANGED <<inbuf, flying, applied, remaining>>
       ELSE /\ Apply(s)
            /\ flying' = flying \ {s}
            /\ inbuf' = [inbuf EXCEPT ![s] = None]
            /\ remaining' = remaining - 1
            /\ UNCHANGED pc
    /\ UNCHANGED <<rget, own, srcPE, in_use, next_activate, req, map, calls>>

EndWaitall ==
    /\ pc = "waitall" /\ remaining = 0
    /\ pc' = "idle" /\ in_use' = 0
    /\ UNCHANGED <<rget, own, srcPE, next_activate, inbuf, req, map,
                   remaining, flying, applied, calls>>

Finished ==
    /\ \/ pc = "idle" /\ calls = MaxCalls
       \/ pc = "aborted"
    /\ UNCHANGED vars

Next ==
    \/ \E S \in SUBSET PE : Iterate(S)
    \/ SkipPE \/ AcquireFree \/ AcquireReuse
    \/ BeginWaitall \/ WaitRequest \/ WaitUnlock \/ EndWaitall
    \/ Finished

Spec == Init /\ [][Next]_vars

-----------------------------------------------------------------------------
(* Properties.                                                             *)

(* Every variable has its type.                                            *)
TypeOK ==
    /\ rget \in Builds
    /\ pc \in {"idle", "acquire", "waitall", "aborted"}
    /\ own \subseteq PE /\ srcPE \in 0 .. NPE
    /\ in_use \in 0 .. MaxInflight /\ next_activate \in Slots
    /\ inbuf \in [Slots -> PE \cup {None}]
    /\ req \in [Slots -> Slots \cup {0}]
    /\ map \in [Slots -> Slots]
    /\ remaining \in 0 .. MaxInflight
    /\ flying \subseteq Slots
    /\ applied \in [PE -> Nat]
    /\ calls \in 0 .. MaxCalls

(* Why, with MPI_Rget: the requests that count are those of the slots in    *)
(* flight, also while waitall() moves them about in the pool; no two slots *)
(* fetch from the same PE; a PE's part was applied once its slot is free.  *)
RequestsMatch ==
    /\ pc = "idle" => flying = {} /\ in_use = 0
    /\ pc = "acquire" => flying = 1 .. in_use
    /\ pc # "waitall" =>
          \A s \in Slots : req[s] = IF s \in flying THEN s ELSE 0
    /\ pc = "waitall" =>
          /\ srcPE = NPE
          /\ \A i \in Slots : req[i] = IF i <= remaining THEN map[i] ELSE 0
          /\ \A s \in Slots : s \in flying <=> \E i \in 1 .. remaining : map[i] = s
          /\ \A i, j \in Slots : map[i] = map[j] => i = j

PartsMatch ==
    /\ \A s \in Slots \ flying : inbuf[s] = None
    /\ \A s \in flying : inbuf[s] \in own /\ inbuf[s] < srcPE
    /\ \A s, t \in flying : inbuf[s] = inbuf[t] => s = t
    /\ pc # "idle" => \A p \in PE :
          applied[p] = IF /\ p \in own /\ p < srcPE
                          /\ \A s \in flying : inbuf[s] # p
                       THEN 1 ELSE 0

PoolInv == rget => pc # "aborted" /\ RequestsMatch /\ PartsMatch

(* A chunk is complete when iterate returns: the part of every PE that has *)
(* points was copied to the destination exactly once, whatever the order   *)
(* in which the gets completed.                                            *)
EachPartOnce ==
    pc = "idle" /\ calls > 0 =>
        applied = [p \in PE |-> IF p \in own THEN 1 ELSE 0]

(* Between two calls nothing is under way and every slot is free: what     *)
(* destruct demands ("dirty buffer"), and what the next call builds on.    *)
PoolDrained ==
    pc = "idle" => /\ in_use = 0 /\ flying = {}
                   /\ \A s \in Slots : inbuf[s] = None /\ req[s] = 0

(* A buffer is not handed to another PE before the part in it was applied. *)
NoOverwrite ==
    [][\A s \in Slots : s \in flying /\ inbuf'[s] # inbuf[s] =>
           applied'[inbuf[s]] = applied[inbuf[s]] + 1]_vars

(* MPI_Win_unlock ends an epoch that exists: HANDLE_MPI_ERROR after the    *)
(* two calls of it asserts that it succeeds.  It does not where fewer PEs  *)
(* own points than the pool has slots.                                     *)
UnlockSucceeds == pc # "aborted"
=============================================================================
