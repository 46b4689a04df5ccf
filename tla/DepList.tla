------------------------------ MODULE DepList ------------------------------
(* utils/mkhelper/deplist.py: the rules of a set of makefiles are read     *)
(* into a dependency graph, the part of it that hangs on the requested     *)
(* names is traversed depth first, and the names are printed in the order  *)
(* in which their visits finished.  The makefiles of ICON take the objects *)
(* of a library from that list (icon.mk.in:271).                           *)
(*                                                                         *)
(* File names are the numbers 1 .. N, in their alphabetic order, and 0 is  *)
(* the _meta_root of the code.  A makefile is the sequence of its rules; a *)
(* shell pattern is the set of names it matches.                           *)
EXTENDS Integers, Sequences, FiniteSets

CONSTANTS
    N,          \* the number of file names
    Inputs,     \* the calls: [rules, opts]
    Basename    \* the last component of a file name

ASSUME NAssumption == N \in Nat

MetaRoot == 0
Vertex   == 1 .. N
Node     == {MetaRoot} \union Vertex
Unseen   == -2      \* not in visited_vertices
NoLimit  == -1      \* max_depth is None

(* A rule "targets: normal | order_only #-hint hint".                      *)
Rule == [targets : SUBSET Vertex, normal : Seq(Vertex), order_only : Seq(Vertex), hint : Seq(Vertex)]

(* One list of patterns of --check-unique-prereq or --check-exists-prereq: *)
(* the names the first one matches, and those each of the others matches.  *)
Check == [of : SUBSET Vertex, any : Seq(SUBSET Vertex)]

Options == [mode : {"all", "target", "prereq"}, names : Seq(Vertex), max_depth : Int,
            ignore_order_only : BOOLEAN, ignore_hints : BOOLEAN, reverse : BOOLEAN,
            unique_prereq : SUBSET Check, exists_prereq : SUBSET Check,
            unique_basename : SUBSET (SUBSET Vertex), check_cycles : BOOLEAN]


ASSUME InputsAssumption == Inputs \subseteq [rules : Seq(Rule), opts : Options]

VARIABLES
    pc,         \* which part of main runs
    rules,      \* the rules not yet read
    opts,       \* the parsed arguments
    keys,       \* the targets, in the order in which they entered dep_graph
    dep_graph,  \* the prerequisites of each name
    extra_keys, \* the targets with hints, in the order in which they entered extra_edges
    extra,      \* extra_edges: the #-hint prerequisites of each name
    graph,      \* traversed_graph: the successors of each node
    pending,    \* names whose hints the second loop of main has not come to
    visited,    \* visited_vertices: the depth of the visit
    stack,      \* the calls of visit_dfs: vertex, next child, depth
    toposort,   \* the finished vertices
    warnings,   \* what the checks have reported
    printed     \* the standard output

vars == <<pc, rules, opts, keys, dep_graph, extra_keys, extra, graph, pending, visited, stack, toposort, warnings, printed>>
input == <<rules, opts, keys, dep_graph, extra_keys, extra>>

ToSet(s) == {s[i] : i \in DOMAIN s}

(* The elements of s at the indices I, in the order of s.                  *)
Upto(I, i) == {j \in I : j <= i}
SubSeqAt(s, I) ==
    [k \in 1 .. Cardinality(I) |-> s[CHOOSE i \in I : Cardinality(Upto(I, i)) = k]]

Dedupe(s) == SubSeqAt(s, {i \in DOMAIN s : \A j \in 1 .. i - 1 : s[j] # s[i]})
Filter(s, S) == SubSeqAt(s, {i \in DOMAIN s : s[i] \in S})
Reversed(s) == [i \in 1 .. Len(s) |-> s[Len(s) + 1 - i]]

(* The names with a key of their own once the leaves are explicit.         *)
Known == {v \in Vertex : v \in ToSet(keys) \/ \E t \in Vertex : v \in ToSet(dep_graph[t])}

(* The parents of each name, in the order of the keys of the graph.        *)
FlipEdges(g, order) == [v \in Vertex |-> Filter(order, {p \in Vertex : v \in ToSet(g[p])})]

(* The graph to be traversed, before the hints enter it.                   *)
Plain == IF opts.mode = "prereq" THEN FlipEdges(dep_graph, keys) ELSE dep_graph
Hints == IF opts.mode = "prereq" THEN FlipEdges(extra, extra_keys) ELSE extra

NoEdges == [v \in Vertex |-> <<>>]

Init ==
    /\ \E i \in Inputs : rules = i.rules /\ opts = i.opts
    /\ pc = "read"
    /\ keys = <<>> /\ extra_keys = <<>>
    /\ dep_graph = NoEdges /\ extra = NoEdges
    /\ graph = [v \in Node |-> <<>>]
    /\ pending = {}
    /\ visited = [v \in Node |-> Unseen]
    /\ stack = <<>> /\ toposort = <<>> /\ warnings = {} /\ printed = <<>>

(* ------------------------- reading the makefiles ----------------------- *)

(* A set of targets enters a dictionary in any order.                      *)
WithKeys(order, new) ==
    {order \o t : t \in {u \in [1 .. Cardinality(new \ ToSet(order)) -> new \ ToSet(order)] :
                             ToSet(u) = new \ ToSet(order)}}

Extended(g, targets, prereqs) == [v \in Vertex |-> IF v \in targets THEN g[v] \o prereqs ELSE g[v]]

ReadRule ==
    /\ pc = "read" /\ rules # <<>>
    /\ LET r == Head(rules)
           prereqs == r.normal \o (IF opts.ignore_order_only THEN <<>> ELSE r.order_only)
           hints == IF opts.ignore_hints THEN <<>> ELSE r.hint
       IN /\ keys' \in WithKeys(keys, r.targets)
          /\ extra_keys' \in WithKeys(extra_keys, IF hints = <<>> THEN {} ELSE r.targets)
          /\ dep_graph' = Extended(dep_graph, r.targets, prereqs)
          /\ extra' = Extended(extra, r.targets, hints)
    /\ rules' = Tail(rules)
    /\ UNCHANGED <<pc, opts, graph, pending, visited, stack, toposort, warnings, printed>>

SanitizeGraph(g) == [v \in Vertex |-> Dedupe(g[v])]

Sanitize ==
    /\ pc = "read" /\ rules = <<>>
    /\ pc' = IF keys = <<>> THEN "done" ELSE "setup"
    /\ dep_graph' = SanitizeGraph(dep_graph)
    /\ extra' = SanitizeGraph(extra)
    /\ UNCHANGED <<rules, opts, keys, extra_keys, graph, pending, visited, stack, toposort, warnings, printed>>

StartNodes ==
    IF opts.mode = "all" THEN Filter([i \in Vertex |-> i], Known) ELSE Filter(opts.names, Known)

(* visit_dfs(v, depth): the checks look at the prerequisites of v, which   *)
(* the hints have entered when the traversed graph is dep_graph itself.    *)
OfTraversed(v) == graph[v]   \* mutant: dependents are taken for prerequisites

Prerequisites(v) == IF opts.mode = "prereq" THEN dep_graph[v] ELSE graph[v]

Matching(v, c) ==
    {m \in (DOMAIN c.any) \X (DOMAIN Prerequisites(v)) : Prerequisites(v)[m[2]] \in c.any[m[1]]}

StartVisit(v) ==
    IF v = MetaRoot THEN {} ELSE
        {<<"unique", v>> : c \in {d \in opts.unique_prereq : v \in d.of /\ Cardinality(Matching(v, d)) > 1}}
        \union {<<"exists", v>> : c \in {d \in opts.exists_prereq : v \in d.of /\ Matching(v, d) = {}}}

Top == stack[Len(stack)]

ItsOwnChild(v) == Top.vertex = v   \* mutant: only a cycle of one name is noticed

OnPath(v) == \E i \in DOMAIN stack : stack[i].vertex = v

Frame(v, d) == [vertex |-> v, next |-> 1, depth |-> d]

(* traverse(depth): visit_dfs of _meta_root, whose children are starts.    *)
Traverse(g, starts, depth) ==
    /\ graph' = [g EXCEPT ![MetaRoot] = starts]
    /\ visited' = [visited EXCEPT ![MetaRoot] = depth]
    /\ stack' = <<Frame(MetaRoot, depth)>>
    /\ pc' = "visit"

Setup ==
    /\ pc = "setup"
    /\ Traverse([v \in Node |-> IF v = MetaRoot THEN <<>> ELSE Plain[v]], StartNodes, -1)
    /\ pending' = ToSet(extra_keys) \union UNION {ToSet(extra[v]) : v \in Vertex}
    /\ UNCHANGED <<rules, opts, keys, dep_graph, extra_keys, extra, toposort, warnings, printed>>

(* ------------------------- visit_dfs, call by call --------------------- *)

HasChild == Top.next <= Len(graph[Top.vertex])
Child == graph[Top.vertex][Top.next]
Advanced == [stack EXCEPT ![Len(stack)].next = @ + 1]
Limited == opts.max_depth > NoLimit
Beyond(depth) == Limited /\ depth > opts.max_depth

TooDeep ==
    /\ pc = "visit" /\ HasChild /\ Beyond(Top.depth + 1)
    /\ stack' = Advanced
    /\ UNCHANGED <<input, pc, graph, pending, visited, toposort, warnings, printed>>

Skip ==
    /\ pc = "visit" /\ HasChild /\ ~Beyond(Top.depth + 1) /\ visited[Child] # Unseen
    /\ stack' = Advanced
    /\ warnings' = warnings \union
          (IF opts.check_cycles /\ OnPath(Child) THEN {<<"cycle", Child>>} ELSE {})
    /\ UNCHANGED <<input, pc, graph, pending, visited, toposort, printed>>

Visit ==
    /\ pc = "visit" /\ HasChild /\ ~Beyond(Top.depth + 1) /\ visited[Child] = Unseen
    /\ visited' = [visited EXCEPT ![Child] = Top.depth + 1]
    /\ stack' = Append(Advanced, Frame(Child, Top.depth + 1))
    /\ warnings' = warnings \union StartVisit(Child)
    /\ UNCHANGED <<input, pc, graph, pending, toposort, printed>>

Popped == SubSeq(stack, 1, Len(stack) - 1)

Finish ==
    /\ pc = "visit" /\ ~HasChild /\ Top.vertex # MetaRoot
    /\ stack' = Popped
    /\ toposort' = Append(toposort, Top.vertex)
    /\ UNCHANGED <<input, pc, graph, pending, visited, warnings, printed>>

(* The visit of _meta_root ends: toposort_postprocess_cb drops it from the *)
(* list, and the names visited so far are compared by their last component.*)
SameBasename(group) ==
    {v \in group : \E w \in group : /\ v # w /\ Basename[v] = Basename[w]
                                    /\ visited[v] # Unseen /\ visited[w] # Unseen}

Postprocess ==
    /\ pc = "visit" /\ ~HasChild /\ Top.vertex = MetaRoot
    /\ stack' = Popped
    /\ warnings' = warnings \union
          {<<"basename", v>> : v \in UNION {SameBasename(g) : g \in opts.unique_basename}}
    /\ pc' = "hints"
    /\ UNCHANGED <<input, graph, pending, visited, toposort, printed>>

(* The hints enter the graph when the first traversal is over; each        *)
(* visited name that has some starts another traversal at its own depth.   *)
Hinted == [v \in Node |-> IF v = MetaRoot THEN graph[v] ELSE Dedupe(graph[v] \o Hints[v])]

(* Mutants: _meta_root stays in visited_vertices; a name is never dropped. *)
HintAfterRoot ==
    /\ pc = "hints" /\ graph' = Hinted
    /\ \E t \in pending : pending' = pending \ {t}
    /\ UNCHANGED <<input, pc, visited, stack, toposort, warnings, printed>>

HintAgain ==
    /\ pc = "hints"
    /\ \E t \in pending : visited[t] # Unseen /\ Traverse(Hinted, Hints[t], visited[t])
    /\ UNCHANGED <<input, pending, toposort, warnings, printed>>

NextHint ==
    /\ pc = "hints"
    /\ \E t \in pending :
          /\ pending' = pending \ {t}
          /\ IF visited[t] = Unseen
             THEN graph' = Hinted /\ UNCHANGED <<pc, visited, stack>>
             ELSE Traverse(Hinted, Hints[t], visited[t])
    /\ UNCHANGED <<input, toposort, warnings, printed>>

(* Mutant: two reversals reverse.                                          *)
PrintReversed ==
    /\ pc = "hints" /\ pending = {} /\ pc' = "done"
    /\ printed' = IF opts.reverse \/ opts.mode = "prereq" THEN Reversed(toposort) ELSE toposort
    /\ UNCHANGED <<input, graph, pending, visited, stack, toposort, warnings>>

PrintList ==
    /\ pc = "hints" /\ pending = {}
    /\ printed' = IF opts.reverse # (opts.mode = "prereq") THEN Reversed(toposort) ELSE toposort
    /\ pc' = "done"
    /\ UNCHANGED <<input, graph, pending, visited, stack, toposort, warnings>>

Next == ReadRule \/ Sanitize \/ Setup \/ TooDeep \/ Skip \/ Visit \/ Finish \/ Postprocess \/ NextHint \/ PrintList

Spec == Init /\ [][Next]_vars /\ WF_vars(Next)

(* ------------------------------ properties ----------------------------- *)

Edges == [Vertex -> Seq(Vertex)]
Frames == [vertex : Node, next : Nat \ {0}, depth : Int]

TypeOK ==
    /\ pc \in {"read", "setup", "visit", "hints", "done"}
    /\ rules \in Seq(Rule)
    /\ opts \in Options
    /\ keys \in Seq(Vertex) /\ extra_keys \in Seq(Vertex)
    /\ dep_graph \in Edges /\ extra \in Edges
    /\ graph \in [Node -> Seq(Vertex)]
    /\ pending \in SUBSET Vertex
    /\ visited \in [Node -> Int]
    /\ stack \in Seq(Frames) /\ (pc = "visit" => stack # <<>>)
    /\ toposort \in Seq(Vertex) /\ printed \in Seq(Vertex)
    /\ warnings \in SUBSET ({"cycle", "unique", "exists", "basename"} \X Vertex)

CycleReported == \E v \in Vertex : <<"cycle", v>> \in warnings

(* The printed order is one in which the files can be made: unless a cycle *)
(* was reported or the depth limited, each name comes after its            *)
(* prerequisites, order-only ones included, and before them if reversed.   *)
Sorted ==
    opts.check_cycles /\ ~Limited /\ ~CycleReported =>
        \A i, j \in DOMAIN printed :
            printed[i] \in ToSet(dep_graph[printed[j]]) => IF opts.reverse THEN j < i ELSE i < j

(* The names reachable from S in at most d steps.                          *)
Successors(S, g) == UNION {ToSet(g[v]) : v \in S}
Within(S, g, d) ==
    LET near[k \in 0 .. d] == IF k = 0 THEN S ELSE near[k - 1] \union Successors(near[k - 1], g)
    IN near[d]

AllEdges == [v \in Vertex |-> Plain[v] \o Hints[v]]

(* The list is complete, so that a library made of it links: every name    *)
(* reachable from a requested one, hints included, is printed, once, and   *)
(* no other; a depth limit lets through none that is farther away.         *)
Complete ==
    pc = "done" /\ keys # <<>> =>
        LET listed == ToSet(printed)
            starts == ToSet(StartNodes)
        IN /\ Len(printed) = Cardinality(listed)
           /\ ~Limited => listed = Within(starts, AllEdges, N)
           /\ Limited => listed \subseteq Within(starts, AllEdges, opts.max_depth)

Circular(v, g) == v \in Within(ToSet(g[v]), g, N)

(* A cycle of prerequisites among the printed names is always reported,    *)
(* however the names were reached; and what is reported is one, if hints   *)
(* count as prerequisites.                                                 *)
CyclesReported ==
    pc = "done" /\ opts.check_cycles /\ ~Limited =>
        /\ (\E v \in ToSet(printed) : Circular(v, Plain)) => CycleReported
        /\ \A v \in Vertex : <<"cycle", v>> \in warnings => Circular(v, AllEdges)

(* A module that two files define, or none, is reported if it is listed:   *)
(* by its prerequisites in the makefiles, whichever way the graph is       *)
(* traversed, so long as hints are not among those asked for.              *)
ChecksReported ==
    pc = "done" =>
        \A v \in ToSet(printed) :
            LET found(c) == {p \in ToSet(dep_graph[v]) : \E i \in DOMAIN c.any : p \in c.any[i]}
            IN /\ \A c \in opts.unique_prereq :
                      v \in c.of /\ Cardinality(found(c)) > 1 => <<"unique", v>> \in warnings
               /\ \A c \in opts.exists_prereq :
                      v \in c.of /\ found(c) = {} /\ ToSet(extra[v]) = {} => <<"exists", v>> \in warnings
               /\ \A g \in opts.unique_basename, w \in ToSet(printed) :
                      v # w /\ {v, w} \subseteq g /\ Basename[v] = Basename[w]
                          => <<"basename", v>> \in warnings

(* The nearest first: a depth limit leaves out no name that is within it.  *)
NothingNearMissing ==
    pc = "done" /\ Limited /\ keys # <<>> =>
        Within(ToSet(StartNodes), AllEdges, opts.max_depth) \subseteq ToSet(printed)

(* Whatever the graph, the program comes to an end.                        *)
Ends == <>(pc = "done")
=============================================================================
