--------------------------- MODULE RestartGather ---------------------------
(***************************************************************************)
(* The way of the data of one domain through an asynchronous restart:      *)
(* every work PE packs its points of every variable into its memory window *)
(* (compute_write_var_list and postData), and the restart PE takes them    *)
(* out again, chunk of levels by chunk of levels, and puts them in global  *)
(* order into the file (writeData, collectData, acquire and apply).        *)
(* The layout of the window is written down nowhere: both sides step       *)
(* through it with an offset of their own, in units of double precision    *)
(* words.  Who may touch the window when is AsyncRestart's concern, and    *)
(* RestartInflight's in which order the gets of a chunk complete; here a   *)
(* chunk is fetched in one step.                                           *)
(*                                                                         *)
(* A setup without variables stands for the other user of reorder infos:   *)
(* the name-list output constructs them for physical domains, where points *)
(* of the grid may belong to nobody, and gathers by code of its own.       *)
(*                                                                         *)
(* A word is two halves.  A REAL(dp) element takes both halves of a word,  *)
(* a REAL(sp) or INTEGER element one.                                      *)
(***************************************************************************)
EXTENDS ReorderInfo

CONSTANTS
    Setups,     \* the variable lists a domain may have, each with the
                \* restart_chunk_size of the run
    MaxRestart  \* number of checkpoints (bound)

Kind == {"dp", "narrow"}   \* REAL_T, and SINGLE_T or INT_T

ASSUME GatherAssumption ==
    /\ MaxRestart \in Nat
    /\ \A s \in Setups :
          /\ s.chunk \in Int
          /\ s.vars \in Seq([hgrid: Grid, kind: Kind, nlevs: Nat \ {0},
                             tlev: {-1, 1, 2}])

VARIABLES
    pc,      \* "construct", "post", "collect", "written"
    chunkSize, \* restart_chunk_size; not positive means a whole column
    varData, \* the variables of the restart, on all PEs
    nnow,    \* the time level of this checkpoint, on all PEs
    restart, \* number of this checkpoint
    win,     \* the window of each work PE, by halves
    next,    \* per work PE, the variable it posts next
    offset,  \* per work PE, the words it has posted
    iv, lev, \* variable and first level of the next chunk
    ioff,    \* the words the restart PE has fetched from each work PE
    file     \* the restart file: a value per variable, level and place

gatherVars == <<owner, local, ri, pc, chunkSize, varData, nnow, restart, win,
                next, offset, iv, lev, ioff, file>>

NoValue == <<>>
Junk    == <<NoValue, 0>>  \* a half nobody has posted

PerElement(kind) == IF kind = "dp" THEN 2 ELSE 1  \* halves of an element

NOwn(g, p) == ri[g].pe_own[p]

NElements(v, p) == varData[v].nlevs * NOwn(varData[v].hgrid, p)

(* memWindowSize: a word for each element of each variable.                *)
WindowSize(p) ==
    LET n == Len(varData)
    IN  RunningSum([v \in 0 .. n - 1 |-> NElements(v + 1, p)], n)[n]

MaxLevs == Max({varData[v].nlevs : v \in DOMAIN varData})

(* rcs of writeData, restart_chunk_size of construct                       *)
Chunk == IF chunkSize > 0 THEN Min({chunkSize, MaxLevs}) ELSE MaxLevs

HasValidTimeLevel(v) == varData[v].tlev \in {-1, nnow}

GatherInit ==
    /\ ReorderInit
    /\ pc = "construct"
    /\ \E s \in Setups : varData = s.vars /\ chunkSize = s.chunk
    /\ varData # <<>> => \A g \in Grid : ToSet(owner[g]) \subseteq PE
    /\ nnow = 1 /\ restart = 0
    /\ win = [p \in PE |-> <<>>]
    /\ next = [p \in PE |-> 1]
    /\ offset = [p \in PE |-> 0]
    /\ iv = 1 /\ lev = 1
    /\ ioff = [p \in PE |-> 0]
    /\ file = [v \in DOMAIN varData |-> <<>>]

(* asyncRestartCommData_construct: reorder infos, then the window.         *)
ConstructGrid(g) ==
    /\ pc = "construct" /\ Construct(g)
    /\ UNCHANGED <<pc, chunkSize, varData, nnow, restart, win, next, offset,
                   iv, lev, ioff, file>>

OpenMpiWindow ==
    /\ pc = "construct" /\ Ready /\ varData # <<>>
    /\ pc' = "post"
    /\ win' = [p \in PE |-> [h \in 1 .. 2 * WindowSize(p) |-> Junk]]
    /\ UNCHANGED <<owner, local, ri, chunkSize, varData, nnow, restart, next,
                   offset, iv, lev, ioff, file>>

(* What a half of the window holds: a part of the value a variable has at  *)
(* a level and a point.                                                    *)
Value(v, k, i) == <<restart, v, k, i>>

PostedHalf(p, v, h) ==
    LET g == varData[v].hgrid
        w == PerElement(varData[v].kind)
        e == (h - 1) \div w
        i == local[g][p][ri[g].own_idx[p][(e % NOwn(g, p)) + 1]]
    IN  <<Value(v, e \div NOwn(g, p) + 1, i), (h - 1) % w>>

(* The words an array of n elements takes: what postData adds to offset    *)
(* for a variable, and acquire to off for a chunk.                         *)
PostedWords(kind, n) == IF kind = "dp" THEN n ELSE (n + 1) \div 2
FetchedWords(kind, n) == IF kind = "dp" THEN n ELSE (n + 1) \div 2

(* postData and ri_cpy_blk2part: levels are the outer loop, points the     *)
(* inner one.                                                              *)
PostVar(p) ==
    LET v == next[p]
        n == NElements(v, p)
        start == 2 * offset[p]
    IN
    /\ pc = "post" /\ next[p] <= Len(varData)
    /\ HasValidTimeLevel(v)
    /\ win' = [win EXCEPT ![p] =
                  [h \in DOMAIN @ |->
                      IF h \in start + 1
                                 .. start + PerElement(varData[v].kind) * n
                      THEN PostedHalf(p, v, h - start)
                      ELSE @[h]]]
    /\ offset' = [offset EXCEPT ![p] = @ + PostedWords(varData[v].kind, n)]
    /\ next' = [next EXCEPT ![p] = @ + 1]
    /\ UNCHANGED <<owner, local, ri, pc, chunkSize, varData, nnow, restart,
                   iv, lev, ioff, file>>

SkipVar(p) ==
    /\ pc = "post" /\ next[p] <= Len(varData)
    /\ ~HasValidTimeLevel(next[p])
    /\ next' = [next EXCEPT ![p] = @ + 1]
    /\ UNCHANGED <<owner, local, ri, pc, chunkSize, varData, nnow, restart,
                   win, offset, iv, lev, ioff, file>>

(* The windows are unlocked and the restart PE is triggered.               *)
BeginWriteData ==
    /\ pc = "post" /\ \A p \in PE : next[p] > Len(varData)
    /\ pc' = "collect" /\ iv' = 1 /\ lev' = 1
    /\ ioff' = [p \in PE |-> 0]
    /\ file' = [v \in DOMAIN varData |->
                  [k \in 1 .. varData[v].nlevs |->
                     [j \in 1 .. NPoints[varData[v].hgrid] |-> NoValue]]]
    /\ UNCHANGED <<owner, local, ri, chunkSize, varData, nnow, restart, win,
                   next, offset>>

SkipCollect ==
    /\ pc = "collect" /\ iv <= Len(varData)
    /\ ~HasValidTimeLevel(iv)
    /\ iv' = iv + 1
    /\ UNCHANGED <<owner, local, ri, pc, chunkSize, varData, nnow, restart,
                   win, next, offset, lev, ioff, file>>

(* The halves of the window from half h on, read as one element.           *)
Element(w, h, kind) ==
    LET halves == [k \in 0 .. PerElement(kind) - 1 |->
                      IF h + k \in DOMAIN w THEN w[h + k] ELSE Junk]
    IN  IF \A k \in DOMAIN halves : halves[k] = <<halves[0][1], k>>
        THEN halves[0][1]
        ELSE NoValue

FullChunk == Chunk   \* mutant: the last chunk is as long as the others
Levels == Min({lev + Chunk - 1, varData[iv].nlevs}) - lev + 1   \* ct(2)

MoreChunks  == lev + Chunk <= varData[iv].nlevs

(* ri_cpy_part2whole: place j of a level is filled from element n of PE p. *)
Source(g, j) ==
    LET info == ri[g] IN
    CHOOSE s \in UNION {{p} \X (1 .. NOwn(g, p)) : p \in PE} :
        info.reorder_index[info.pe_off[s[1]] + s[2]] = j

(* collectData: a get of a chunk of levels from each PE that owns points.  *)
CollectChunk ==
    LET g    == varData[iv].hgrid
        kind == varData[iv].kind
        Fetched(k, s) ==
            Element(win[s[1]],
                    2 * ioff[s[1]]
                      + PerElement(kind)
                        * ((k - lev) * NOwn(g, s[1]) + s[2] - 1) + 1,
                    kind)
    IN
    /\ pc = "collect" /\ iv <= Len(varData)
    /\ HasValidTimeLevel(iv)
    /\ file' = [file EXCEPT ![iv] =
                  [k \in DOMAIN @ |->
                      IF k \in lev .. lev + Levels - 1
                      THEN [j \in DOMAIN @[k] |-> Fetched(k, Source(g, j))]
                      ELSE @[k]]]
    /\ ioff' = [p \in PE |-> ioff[p] + FetchedWords(kind, Levels * NOwn(g, p))]
    /\ IF MoreChunks
       THEN lev' = lev + Chunk /\ iv' = iv
       ELSE lev' = 1 /\ iv' = iv + 1
    /\ UNCHANGED <<owner, local, ri, pc, chunkSize, varData, nnow, restart,
                   win, next, offset>>

EndWriteData ==
    /\ pc = "collect" /\ iv > Len(varData)
    /\ pc' = "written"
    /\ UNCHANGED <<owner, local, ri, chunkSize, varData, nnow, restart, win,
                   next, offset, iv, lev, ioff, file>>

(* The next checkpoint: a step swaps the time levels, and an odd number of *)
(* steps may lie in between.                                               *)
NextRestart ==
    /\ pc = "written" /\ restart < MaxRestart
    /\ pc' = "post" /\ restart' = restart + 1
    /\ nnow' \in {1, 2}
    /\ next' = [p \in PE |-> 1]
    /\ offset' = [p \in PE |-> 0]
    /\ UNCHANGED <<owner, local, ri, chunkSize, varData, win, iv, lev, ioff,
                   file>>

GatherNext ==
    \/ \E g \in Grid : ConstructGrid(g)
    \/ OpenMpiWindow
    \/ \E p \in PE : PostVar(p) \/ SkipVar(p)
    \/ BeginWriteData \/ SkipCollect \/ CollectChunk \/ EndWriteData
    \/ NextRestart

GatherSpec == GatherInit /\ [][GatherNext]_gatherVars

----------------------------------------------------------------------------
(* A chunk of a narrow variable that is not its last ends on a whole word: *)
(* acquire rounds up once per chunk, postData once per variable.           *)
Aligned(s) ==
    \A v \in DOMAIN s.vars :
        s.vars[v].kind = "narrow" =>
            s.chunk <= 0 \/ s.chunk >= s.vars[v].nlevs \/ s.chunk % 2 = 0

(* Every value in a written file is this checkpoint's value of that        *)
(* variable, level and point: the two sides agree about the layout of      *)
(* every window, whatever the decomposition, the local order of the        *)
(* points, the chunk size and the variables that are skipped, and nothing  *)
(* of an earlier checkpoint is taken for new.                              *)
FileExact ==
    pc = "written" =>
        \A v \in DOMAIN varData : HasValidTimeLevel(v) =>
            \A k \in 1 .. varData[v].nlevs :
                \A i \in Points(varData[v].hgrid) :
                    file[v][k][Rank(varData[v].hgrid, i)] = Value(v, k, i)

=============================================================================
