-------------------------- MODULE MCRestartGather --------------------------
EXTENDS RestartGather

MCNPoints == [cell |-> 5, edge |-> 2]
MCOrders  == [cell |-> {<<1, 2, 3, 4, 5>>, <<4, 2, 5, 1, 3>>},
              edge |-> {<<2, 1>>}]

Var(g, kind, n, t) == [hgrid |-> g, kind |-> kind, nlevs |-> n, tlev |-> t]

(* Double precision only: the default build.                               *)
WideLists ==
    {<<Var("cell", "dp", 3, 1), Var("cell", "dp", 3, 2), Var("edge", "dp", 1, -1)>>,
     <<Var("edge", "dp", 2, 2), Var("cell", "dp", 1, -1), Var("edge", "dp", 3, 1)>>}

(* A mixed-precision build: ddt_exner_phy and ddt_vn_phy among them.       *)
MixedLists ==
    {<<Var("cell", "narrow", 3, -1), Var("cell", "dp", 1, 2), Var("edge", "dp", 2, 1)>>,
     <<Var("cell", "dp", 2, 1), Var("edge", "narrow", 1, -1), Var("cell", "narrow", 1, 2)>>}

WithChunk(lists, n) == {[vars |-> l, chunk |-> n] : l \in lists}

(* Chunks of two levels, and whole columns with narrow variables.          *)
WorkingSetups == WithChunk(WideLists \union MixedLists, 2)
                     \union WithChunk(MixedLists, -1)

(* Reorder infos only, for decompositions with points nobody owns.         *)
ReorderSetups == {[vars |-> <<>>, chunk |-> -1]}

MCSetups == WorkingSetups \union ReorderSetups

(* Level by level with narrow variables.                                   *)
NarrowSetups == WithChunk(MixedLists, 1)

ASSUME SetupsAligned ==
    /\ \A s \in MCSetups : Aligned(s)
    /\ \E s \in NarrowSetups : ~Aligned(s)
=============================================================================
