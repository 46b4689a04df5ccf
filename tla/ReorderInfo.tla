---------------------------- MODULE ReorderInfo ----------------------------
(***************************************************************************)
(* The reorder info of io/shared/mo_reorder_info.f90.  Every grid          *)
(* (cells, edges, verts) is distributed over the work PEs; a work PE sends *)
(* its own points as one packed part, and a server has to place the parts  *)
(* of all PEs in global order.  mask2reorder_info computes, collectively,  *)
(* the order in which a PE packs its points and the place of each of them  *)
(* in the gathered array; transfer_reorder_info hands both to the servers. *)
(*                                                                         *)
(* A place is the rank of a global index among the used ones.  It is read  *)
(* off a bit mask of Bits-wide words and the number of bits set in the     *)
(* words before.  A word is modelled as the set of its bits that are set.  *)
(***************************************************************************)
EXTENDS Integers, Sequences, FiniteSets, FiniteSetsExt, SequencesExt

CONSTANTS
    NPE,      \* number of work PEs
    Grid,     \* the grids of a patch
    NPoints,  \* n_points_g of each grid
    Bits,     \* BIT_SIZE(occupation_mask)
    Orders,   \* per grid, the orders a PE may keep its points in
    Holes     \* {} if every point has an owner, {Unused} if some need not

PE     == 0 .. NPE - 1
Unused == NPE

Points(g) == 1 .. NPoints[g]
NOcc(g)   == (NPoints[g] + Bits - 1) \div Bits
Words(g)  == 0 .. NOcc(g) - 1

ASSUME ReorderAssumption ==
    /\ NPE \in Nat \ {0} /\ Bits \in Nat \ {0} /\ Holes \subseteq {Unused}
    /\ \A g \in Grid : /\ NPoints[g] \in Nat \ {0}
                       /\ \A o \in Orders[g] :
                             /\ Len(o) = NPoints[g]
                             /\ ToSet(o) = Points(g)

VARIABLES
    owner,  \* the decomposition: the PE that owns a point
    local,  \* glb_index: the points a PE knows (halo included), in its order
    ri      \* t_reorder_info of each grid, once constructed

reorderVars == <<owner, local, ri>>

NoInfo == [n_glb |-> -1]

ReorderInit ==
    /\ owner \in [Grid -> UNION {[Points(g) -> PE \union Holes] : g \in Grid}]
    /\ \A g \in Grid : DOMAIN owner[g] = Points(g)
    /\ local \in [Grid -> [PE -> UNION {Orders[g] : g \in Grid}]]
    /\ \A g \in Grid, p \in PE : local[g][p] \in Orders[g]
    /\ ri = [g \in Grid |-> NoInfo]

Ascending(S) ==
    [n \in 1 .. Cardinality(S) |->
        CHOOSE i \in S : Cardinality({j \in S : j < i}) = n - 1]

(* glbidx_own after the sort.                                              *)
GlbIdxOwn(g, p) == Ascending({i \in Points(g) : owner[g][i] = p})

(* own_idx after the sort: where the PE keeps each of these points.        *)
OwnIdx(g, p) ==
    LET glbidx_own == GlbIdxOwn(g, p)
    IN  [n \in DOMAIN glbidx_own |->
            CHOOSE l \in DOMAIN local[g][p] : local[g][p][l] = glbidx_own[n]]

(* What a loop over 0 .. n - 1 has accumulated before each of its turns,   *)
(* and after the last one.                                                 *)
RunningSum(count, n) ==
    LET accum[k \in 0 .. n] ==
            IF k = 0 THEN 0 ELSE accum[k - 1] + count[k - 1]
    IN  accum

PeOff(pe_own) == LET il == RunningSum(pe_own, NPE) IN [p \in PE |-> il[p]]

(* indices2occmask                                                         *)
OccMask(g, indices) ==
    [w \in Words(g) |-> {(i - 1) % Bits :
                          i \in {j \in indices : (j - 1) \div Bits = w}}]

(* mpi_allreduce with mpi_bor                                              *)
Reduced(g) ==
    [w \in Words(g) |->
        UNION {OccMask(g, ToSet(GlbIdxOwn(g, p)))[w] : p \in PE}]

Popcnt(g, bmask) == [w \in Words(g) |-> Cardinality(bmask[w])]

(* Mutant: the prefix sum includes the word itself.                        *)
InclusiveSum(g, bmask) ==
    LET occ == RunningSum(Popcnt(g, bmask), NOcc(g))
    IN  [w \in Words(g) |-> occ[w + 1]]

(* occmask_pfxsum                                                          *)
PfxSum(g, bmask) ==
    LET occ == RunningSum(Popcnt(g, bmask), NOcc(g))
    IN  [w \in Words(g) |-> occ[w]]

(* glb_idx2reorder_idx, and the step to 1-based indices                    *)
ReorderIndexOwn(g, bmask, glbidx) ==
    [n \in DOMAIN glbidx |->
        LET apos == (glbidx[n] - 1) \div Bits
            bpos == (glbidx[n] - 1) % Bits
        IN  PfxSum(g, bmask)[apos]
            + Cardinality(bmask[apos] \intersect 0 .. bpos - 1) + 1]

(* mask2reorder_info on all work PEs: what each of them and the allgather  *)
(* and allreduce among them produce.                                       *)
MaskToReorderInfo(g) ==
    LET pe_own == [p \in PE |-> Len(OwnIdx(g, p))]
        bmask  == Reduced(g)
    IN  [pe_own  |-> pe_own,
         pe_off  |-> PeOff(pe_own),
         n_glb   |-> RunningSum(pe_own, NPE)[NPE],
         counted |-> RunningSum(Popcnt(g, bmask), NOcc(g))[NOcc(g)],
         own_idx |-> [p \in PE |-> OwnIdx(g, p)],
         reorder_index_own |->
            [p \in PE |-> ReorderIndexOwn(g, bmask, GlbIdxOwn(g, p))]]

(* transfer_reorder_info: the allgatherv puts the part of PE p at          *)
(* pe_off(p).                                                              *)
Gathered(info) ==
    [j \in 1 .. info.n_glb |->
        LET p == CHOOSE q \in PE :
                    j \in info.pe_off[q] + 1 .. info.pe_off[q] + info.pe_own[q]
        IN  info.reorder_index_own[p][j - info.pe_off[p]]]

(* occmask_pfxsum stops the model if the bits set are not n_glb.           *)
Construct(g) ==
    /\ ri[g] = NoInfo
    /\ LET info == MaskToReorderInfo(g) IN
         /\ info.counted = info.n_glb
         /\ ri' = [ri EXCEPT ![g] = [n_glb   |-> info.n_glb,
                                     pe_own  |-> info.pe_own,
                                     pe_off  |-> info.pe_off,
                                     own_idx |-> info.own_idx,
                                     reorder_index |-> Gathered(info)]]
    /\ UNCHANGED <<owner, local>>

Ready == \A g \in Grid : ri[g] # NoInfo

ReorderNext == \E g \in Grid : Construct(g)

ReorderSpec == ReorderInit /\ [][ReorderNext]_reorderVars
                           /\ WF_reorderVars(ReorderNext)

----------------------------------------------------------------------------
(* The place of a used point in the global arrays, as a reader of the file *)
(* expects it: its rank among the used points.                             *)
Rank(g, i) == Cardinality({j \in 1 .. i : owner[g][j] \in PE})

(* The n-th point a PE packs is put by a server where the rank of that     *)
(* point says, whatever the order the PE keeps its points in, and the      *)
(* parts fill the global array exactly.                                    *)
PlacedByRank ==
    \A g \in Grid : ri[g] # NoInfo =>
        LET info == ri[g] IN
        /\ \A p \in PE : \A n \in 1 .. info.pe_own[p] :
               info.reorder_index[info.pe_off[p] + n]
                   = Rank(g, local[g][p][info.own_idx[p][n]])
        /\ ToSet(info.reorder_index) = 1 .. info.n_glb

=============================================================================
