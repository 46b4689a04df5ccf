--------------------------- MODULE DepListProofs ---------------------------
(* Theorems about DepList for every number of names, every makefile and    *)
(* every command line.                                                     *)
EXTENDS DepList, FiniteSetTheorems, WellFoundedInduction, NaturalsInduction, TLAPS

(* ----------------------- selecting from a sequence --------------------- *)

LEMMA LeastNat ==
    ASSUME NEW S \in SUBSET Nat, S # {}
    PROVE  \E m \in S : \A x \in S : m <= x
  <1> DEFINE R == {ss \in Nat \X Nat : ss[1] < ss[2]}
  <1>1. OpToRel(<, Nat) = R
    BY Zenon DEF OpToRel
  <1>2. IsWellFoundedOn(R, Nat)
    BY <1>1, NatLessThanWellFounded, Zenon
  <1>3. \E m \in S : \A x \in S : <<x, m>> \notin R
    <2> HIDE DEF R
    <2> QED BY <1>2, WFMin
  <1>4. PICK m \in S : \A x \in S : <<x, m>> \notin R
    BY <1>3
  <1>5. ASSUME NEW x \in S, x < m PROVE FALSE
    <2>1. <<x, m>> \in Nat \X Nat /\ <<x, m>>[1] = x /\ <<x, m>>[2] = m
      OBVIOUS
    <2>2. <<x, m>> \in R
      BY <2>1, <1>5
    <2> QED BY <2>2, <1>4
  <1> QED BY <1>5

LEMMA UptoCard ==
    ASSUME NEW I, IsFiniteSet(I), NEW i
    PROVE  IsFiniteSet(Upto(I, i)) /\ Cardinality(Upto(I, i)) \in Nat /\ Cardinality(Upto(I, i)) <= Cardinality(I)
  BY FS_Subset, FS_CardinalityType DEF Upto

(* Every rank occurs in a finite set of numbers.                           *)
LEMMA RankExists ==
    ASSUME NEW n \in Nat, NEW I \in SUBSET (1 .. n), NEW k \in 1 .. Cardinality(I)
    PROVE  \E i \in I : Cardinality(Upto(I, i)) = k
  <1> DEFINE Ranked(J, r) == \E i \in J : Cardinality(Upto(J, i)) = r
             Good(m) == \A J \in SUBSET (1 .. m) : \A r \in 1 .. Cardinality(J) : Ranked(J, r)
             Bad == {m \in Nat : ~Good(m)}
  <1>1. Bad = {}
    <2> SUFFICES ASSUME Bad # {} PROVE FALSE
      OBVIOUS
    <2>1. \E m \in Bad : \A x \in Bad : m <= x
      <3>1. Bad \in SUBSET Nat
        OBVIOUS
      <3> HIDE DEF Bad
      <3> QED BY <3>1, LeastNat
    <2>2. PICK m \in Nat : ~Good(m) /\ \A x \in Nat : x < m => Good(x)
      <3> HIDE DEF Good
      <3> QED BY <2>1
    <2>3. PICK J \in SUBSET (1 .. m) : \E r \in 1 .. Cardinality(J) : ~Ranked(J, r)
      BY <2>2
    <2>4. PICK r \in 1 .. Cardinality(J) : ~Ranked(J, r)
      BY <2>3
    <2> HIDE DEF Bad
    <2>5. IsFiniteSet(J) /\ Cardinality(J) \in Nat /\ r \in Nat /\ 1 <= r /\ r <= Cardinality(J)
      <3>1. IsFiniteSet(1 .. m)
        BY <2>2, FS_Interval
      <3>2. IsFiniteSet(J)
        BY <3>1, <2>3, FS_Subset
      <3>3. Cardinality(J) \in Nat
        BY <3>2, FS_CardinalityType
      <3> QED BY <2>4, <3>2, <3>3
    <2>6. m # 0
      <3>1. ASSUME m = 0 PROVE J = {}
        <4>1. \A j \in J : j \in 1 .. 0
          BY <2>3, <3>1
        <4> QED BY <4>1
      <3>2. J # {}
        BY <2>5, FS_EmptySet
      <3> QED BY <3>1, <3>2
    <2>7. m - 1 \in Nat /\ Good(m - 1)
      <3> HIDE DEF Good
      <3> QED BY <2>2, <2>6
    <2>8. CASE m \in J
      <3> DEFINE K == J \ {m}
      <3>1. K \in SUBSET (1 .. m - 1)
        BY <2>2, <2>3
      <3>2. IsFiniteSet(K) /\ Cardinality(K) = Cardinality(J) - 1
        BY <2>5, <2>8, FS_RemoveElement
      <3>3. \A i \in K : Upto(K, i) = Upto(J, i)
        <4> TAKE i \in K
        <4>1. i <= m - 1 /\ i \in Int
          BY <3>1, <2>2
        <4> QED BY <4>1, <2>2 DEF Upto
      <3>4. ~(r \in 1 .. Cardinality(K))
        <4> SUFFICES ASSUME r \in 1 .. Cardinality(K) PROVE FALSE
          OBVIOUS
        <4>1. PICK i \in K : Cardinality(Upto(K, i)) = r
          BY <2>7, <3>1
        <4>2. Cardinality(Upto(J, i)) = r
          BY <3>3, <4>1
        <4> QED BY <2>4, <4>1, <4>2
      <3>5. r = Cardinality(J)
        BY <3>2, <3>4, <2>5
      <3>6. Upto(J, m) = J
        <4>1. \A j \in J : j <= m
          BY <2>2, <2>3
        <4> QED BY <4>1 DEF Upto
      <3> QED BY <2>4, <2>8, <3>5, <3>6
    <2>9. CASE m \notin J
      <3>1. J \in SUBSET (1 .. m - 1)
        BY <2>2, <2>3, <2>9
      <3> QED BY <2>4, <2>7, <3>1
    <2> QED BY <2>8, <2>9
  <1>2. Good(n)
    <2> HIDE DEF Good
    <2> QED BY <1>1
  <1> QED BY <1>2

(* The elements at the indices I, and no others.                           *)
LEMMA SubSeqAtFacts ==
    ASSUME NEW S, NEW s \in Seq(S), NEW I \in SUBSET (DOMAIN s)
    PROVE  /\ SubSeqAt(s, I) \in Seq(S)
           /\ ToSet(SubSeqAt(s, I)) = {s[i] : i \in I}
  <1> DEFINE At(k) == CHOOSE i \in I : Cardinality(Upto(I, i)) = k
  <1>1. Len(s) \in Nat /\ DOMAIN s = 1 .. Len(s) /\ \A i \in DOMAIN s : s[i] \in S
    OBVIOUS
  <1>2. IsFiniteSet(I) /\ Cardinality(I) \in Nat
    <2>1. IsFiniteSet(1 .. Len(s))
      BY <1>1, FS_Interval
    <2>2. IsFiniteSet(I)
      BY <1>1, <2>1, FS_Subset
    <2> QED BY <2>2, FS_CardinalityType
  <1>3. \A k \in 1 .. Cardinality(I) : At(k) \in I /\ Cardinality(Upto(I, At(k))) = k
    BY <1>1, RankExists
  <1>4. \A i \in I : Cardinality(Upto(I, i)) \in 1 .. Cardinality(I)
    <2> TAKE i \in I
    <2>0. i \in Upto(I, i)
      BY <1>1 DEF Upto
    <2>1. Upto(I, i) # {} /\ IsFiniteSet(Upto(I, i))
      BY <1>2, <2>0, UptoCard
    <2> QED BY <2>1, <1>2, UptoCard, FS_EmptySet
  <1>5. \A i, j \in I : Cardinality(Upto(I, i)) = Cardinality(Upto(I, j)) => i = j
    <2>1. ASSUME NEW i \in I, NEW j \in I, i < j
          PROVE  Cardinality(Upto(I, i)) # Cardinality(Upto(I, j))
      <3>1. Upto(I, i) \subseteq Upto(I, j) /\ j \in Upto(I, j) /\ j \notin Upto(I, i)
        BY <1>1, <2>1 DEF Upto
      <3> QED BY <3>1, <1>2, UptoCard, FS_Subset
    <2> QED BY <2>1, <1>1
  <1>6. \A i \in I : At(Cardinality(Upto(I, i))) = i
    <2> TAKE i \in I
    <2> HIDE DEF At
    <2> QED BY <1>3, <1>4, <1>5
  <1>7. SubSeqAt(s, I) = [k \in 1 .. Cardinality(I) |-> s[At(k)]]
    BY DEF SubSeqAt
  <1> HIDE DEF At
  <1> QED BY <1>1, <1>2, <1>3, <1>4, <1>6, <1>7 DEF ToSet

LEMMA DedupeFacts ==
    ASSUME NEW S, NEW s \in Seq(S)
    PROVE  Dedupe(s) \in Seq(S) /\ ToSet(Dedupe(s)) = ToSet(s)
  <1> DEFINE I == {i \in DOMAIN s : \A j \in 1 .. i - 1 : s[j] # s[i]}
  <1>1. \A i \in DOMAIN s : \E f \in I : s[f] = s[i]
    <2> TAKE i \in DOMAIN s
    <2> DEFINE Same == {j \in DOMAIN s : s[j] = s[i]}
    <2>1. Same \in SUBSET Nat /\ Same # {}
      OBVIOUS
    <2>2. PICK f \in Same : \A x \in Same : f <= x
      <3> HIDE DEF Same
      <3> QED BY <2>1, LeastNat
    <2>3. f \in I
      BY <2>2
    <2> QED BY <2>2, <2>3
  <1>2. I \in SUBSET (DOMAIN s)
    OBVIOUS
  <1>3. Dedupe(s) = SubSeqAt(s, I)
    BY DEF Dedupe
  <1>4. {s[i] : i \in I} = ToSet(s)
    <2> HIDE DEF I
    <2> QED BY <1>1, <1>2 DEF ToSet
  <1> HIDE DEF I
  <1> QED BY <1>2, <1>3, <1>4, SubSeqAtFacts

LEMMA FilterFacts ==
    ASSUME NEW S, NEW s \in Seq(S), NEW R
    PROVE  Filter(s, R) \in Seq(S) /\ ToSet(Filter(s, R)) = ToSet(s) \cap R
  <1> DEFINE I == {i \in DOMAIN s : s[i] \in R}
  <1>1. I \in SUBSET (DOMAIN s)
    OBVIOUS
  <1>2. {s[i] : i \in I} = ToSet(s) \cap R
    BY DEF ToSet
  <1>3. Filter(s, R) = SubSeqAt(s, I)
    BY DEF Filter
  <1> HIDE DEF I
  <1> QED BY <1>1, <1>2, <1>3, SubSeqAtFacts

(* --------------------------- type correctness -------------------------- *)

LEMMA FlipType ==
    ASSUME NEW g \in Edges, NEW order \in Seq(Vertex)
    PROVE  /\ FlipEdges(g, order) \in Edges
           /\ \A v \in Vertex :
                 ToSet(FlipEdges(g, order)[v]) = {p \in ToSet(order) \cap Vertex : v \in ToSet(g[p])}
  <1>1. \A v \in Vertex :
           LET P == {p \in Vertex : v \in ToSet(g[p])}
           IN Filter(order, P) \in Seq(Vertex) /\ ToSet(Filter(order, P)) = ToSet(order) \cap P
    BY FilterFacts
  <1> QED BY <1>1 DEF FlipEdges, Edges

LEMMA PlainType ==
    ASSUME keys \in Seq(Vertex), extra_keys \in Seq(Vertex), dep_graph \in Edges, extra \in Edges
    PROVE  Plain \in Edges /\ Hints \in Edges
  BY FlipType DEF Plain, Hints

LEMMA SeqFacts ==
    ASSUME NEW S, NEW s \in Seq(S), NEW t \in Seq(S)
    PROVE  s \o t \in Seq(S) /\ ToSet(s \o t) = ToSet(s) \union ToSet(t)
  <1>1. s \o t \in Seq(S) /\ Len(s \o t) = Len(s) + Len(t) /\ Len(s) \in Nat /\ Len(t) \in Nat
    OBVIOUS
  <1>2. \A i \in 1 .. Len(s) : (s \o t)[i] = s[i]
    OBVIOUS
  <1>3. \A i \in 1 .. Len(t) : (s \o t)[i + Len(s)] = t[i]
    OBVIOUS
  <1>4. \A i \in 1 .. Len(s) + Len(t) : (s \o t)[i] \in ToSet(s) \union ToSet(t)
    <2> TAKE i \in 1 .. Len(s) + Len(t)
    <2>1. CASE i <= Len(s)
      BY <2>1, <1>1, <1>2 DEF ToSet
    <2>2. CASE i > Len(s)
      <3>1. i - Len(s) \in 1 .. Len(t) /\ i = (i - Len(s)) + Len(s)
        BY <2>2, <1>1
      <3> QED BY <3>1, <1>3 DEF ToSet
    <2> QED BY <2>1, <2>2, <1>1
  <1>5. ToSet(s) \subseteq ToSet(s \o t)
    BY <1>1, <1>2 DEF ToSet
  <1>6. ToSet(t) \subseteq ToSet(s \o t)
    <2> DOMAIN t = 1 .. Len(t)
      OBVIOUS
    <2> SUFFICES ASSUME NEW i \in 1 .. Len(t) PROVE t[i] \in ToSet(s \o t)
      BY Zenon DEF ToSet
    <2>1. i + Len(s) \in 1 .. Len(s \o t) /\ (s \o t)[i + Len(s)] = t[i]
      BY <1>1, <1>3
    <2> QED BY <2>1, <1>1 DEF ToSet
  <1>7. ToSet(s \o t) \subseteq ToSet(s) \union ToSet(t)
    BY <1>1, <1>4 DEF ToSet
  <1> QED BY <1>1, <1>5, <1>6, <1>7

LEMMA WithKeysFacts ==
    ASSUME NEW order \in Seq(Vertex), NEW new \in SUBSET Vertex, NEW k \in WithKeys(order, new)
    PROVE  k \in Seq(Vertex) /\ ToSet(k) = ToSet(order) \union new
  <1> DEFINE fresh == new \ ToSet(order)
  <1>1. IsFiniteSet(fresh) /\ Cardinality(fresh) \in Nat
    <2>1. IsFiniteSet(Vertex)
      BY NAssumption, FS_Interval DEF Vertex
    <2>2. IsFiniteSet(fresh)
      BY <2>1, FS_Subset
    <2> QED BY <2>2, FS_CardinalityType
  <1>2. PICK t \in [1 .. Cardinality(fresh) -> fresh] : ToSet(t) = fresh /\ k = order \o t
    BY DEF WithKeys
  <1>3. t \in Seq(Vertex)
    <2>1. t \in [1 .. Cardinality(fresh) -> Vertex]
      BY <1>2
    <2> HIDE DEF fresh
    <2> QED BY <2>1, <1>1
  <1> QED BY <1>2, <1>3, SeqFacts

(* ------------------------- the inductive invariant --------------------- *)

(* Between the traversals no call of visit_dfs is open, within one the     *)
(* outermost is that of _meta_root; the hints only add to the graph.       *)
Shape ==
    /\ pc # "visit" => stack = <<>>
    /\ pc \in {"read", "setup"} => toposort = <<>> /\ printed = <<>> /\ visited = [v \in Node |-> Unseen]
    /\ pc \in {"visit", "hints"} => \A v \in Vertex : ToSet(Plain[v]) \subseteq ToSet(graph[v])
    /\ \A v \in Vertex : dep_graph[v] # <<>> => v \in ToSet(keys)
    /\ \A v \in Node : visited[v] >= Unseen
    /\ \A i \in DOMAIN stack :
          /\ stack[i].depth >= -1
          /\ stack[i].next <= Len(graph[stack[i].vertex]) + 1
          /\ stack[i].vertex = MetaRoot <=> i = 1

Distinct(s) == \A i, j \in DOMAIN s : s[i] = s[j] => i = j

(* A visited name is either finished or on the path, once.                 *)
Accounted ==
    /\ \A v \in Vertex : visited[v] # Unseen <=> v \in ToSet(toposort) \/ OnPath(v)
    /\ \A v \in ToSet(toposort) : ~OnPath(v)
    /\ Distinct(toposort)
    /\ \A i, j \in DOMAIN stack : stack[i].vertex = stack[j].vertex => i = j

(* So long as no cycle is reported, the children a call has come past are  *)
(* finished, the last but one call of the path excepted, and so are the    *)
(* prerequisites of what is finished.                                      *)
Reliable == opts.check_cycles /\ ~Limited /\ ~CycleReported

PassedFinished ==
    \A i \in DOMAIN stack : \A k \in 1 .. stack[i].next - 1 :
        \/ graph[stack[i].vertex][k] \in ToSet(toposort)
        \/ /\ i < Len(stack)
           /\ k = stack[i].next - 1
           /\ graph[stack[i].vertex][k] = stack[i + 1].vertex

Closed ==
    \A j \in DOMAIN toposort : \A p \in ToSet(Plain[toposort[j]]) :
        \E i \in DOMAIN toposort : i < j /\ toposort[i] = p

Output ==
    /\ pc # "done" => printed = <<>>
    /\ pc = "done" => \/ printed = <<>>
                      \/ printed = IF opts.reverse # (opts.mode = "prereq") THEN Reversed(toposort) ELSE toposort

DepInv == TypeOK /\ Shape /\ Accounted /\ (Reliable => PassedFinished /\ Closed) /\ Output

LEMMA FrameFacts ==
    ASSUME NEW f \in Frames
    PROVE  [f EXCEPT !.next = @ + 1] \in Frames
  <1>1. f.next \in Nat \ {0} /\ f.next + 1 \in Nat \ {0}
    BY DEF Frames
  <1> DEFINE n == f.next + 1
  <1>2. [f EXCEPT !.next = n] \in Frames
    <2> HIDE DEF n
    <2> QED BY <1>1 DEF Frames, n
  <1> QED BY <1>2

LEMMA StackFacts ==
    ASSUME stack \in Seq(Frames), stack # <<>>
    PROVE  /\ Len(stack) \in Nat \ {0} /\ DOMAIN stack = 1 .. Len(stack)
           /\ \A i \in 1 .. Len(stack) : stack[i] \in Frames
           /\ Top \in Frames
           /\ Advanced \in Seq(Frames) /\ Len(Advanced) = Len(stack)
           /\ \A i \in 1 .. Len(stack) :
                 /\ Advanced[i].vertex = stack[i].vertex
                 /\ Advanced[i].depth = stack[i].depth
                 /\ Advanced[i].next = IF i = Len(stack) THEN stack[i].next + 1 ELSE stack[i].next
           /\ Popped \in Seq(Frames) /\ Len(Popped) = Len(stack) - 1
           /\ \A i \in 1 .. Len(stack) - 1 : Popped[i] = stack[i]
  <1>1. Len(stack) \in Nat \ {0} /\ DOMAIN stack = 1 .. Len(stack)
    OBVIOUS
  <1>2. \A i \in 1 .. Len(stack) : stack[i] \in Frames
    OBVIOUS
  <1>3. Top \in Frames
    BY <1>1, <1>2 DEF Top
  <1>4. Advanced = [i \in 1 .. Len(stack) |->
                       IF i = Len(stack) THEN [stack[i] EXCEPT !.next = @ + 1] ELSE stack[i]]
    BY <1>1 DEF Advanced
  <1>5. ASSUME NEW i \in 1 .. Len(stack) PROVE Advanced[i] \in Frames
    <2>1. stack[i] \in Frames
      BY <1>2
    <2>2. [stack[i] EXCEPT !.next = @ + 1] \in Frames
      BY <2>1, FrameFacts
    <2> QED BY <2>1, <2>2, <1>4
  <1>6. Advanced \in Seq(Frames) /\ Len(Advanced) = Len(stack)
    <2>1. Advanced \in [1 .. Len(stack) -> Frames]
      BY <1>4, <1>5
    <2> QED BY <1>1, <2>1
  <1>7. \A i \in 1 .. Len(stack) :
           /\ Advanced[i].vertex = stack[i].vertex
           /\ Advanced[i].depth = stack[i].depth
           /\ Advanced[i].next = IF i = Len(stack) THEN stack[i].next + 1 ELSE stack[i].next
    BY <1>2, <1>4 DEF Frames
  <1>8. Popped \in Seq(Frames) /\ Len(Popped) = Len(stack) - 1 /\ \A i \in 1 .. Len(stack) - 1 : Popped[i] = stack[i]
    BY <1>1 DEF Popped
  <1> QED BY <1>1, <1>2, <1>3, <1>6, <1>7, <1>8

LEMMA ChildFacts ==
    ASSUME DepInv, pc = "visit"
    PROVE  /\ stack \in Seq(Frames) /\ stack # <<>>
           /\ Top.vertex \in Node /\ Top.next \in Nat \ {0} /\ Top.depth \in Int /\ Top.depth >= -1
           /\ graph[Top.vertex] \in Seq(Vertex)
           /\ HasChild => Child \in Vertex
           /\ Top.vertex = MetaRoot <=> Len(stack) = 1
  <1>1. stack \in Seq(Frames) /\ stack # <<>> /\ graph \in [Node -> Seq(Vertex)]
    BY DEF DepInv, TypeOK
  <1>2. Top \in Frames /\ Len(stack) \in DOMAIN stack
    <2>1. Top \in Frames /\ Len(stack) \in Nat \ {0} /\ DOMAIN stack = 1 .. Len(stack)
      BY <1>1, StackFacts
    <2> QED BY <2>1
  <1>3. Top.vertex \in Node /\ Top.next \in Nat \ {0} /\ Top.depth \in Int
    BY <1>2 DEF Frames
  <1>4. graph[Top.vertex] \in Seq(Vertex)
    BY <1>1, <1>3
  <1>5. Top.depth >= -1 /\ (Top.vertex = MetaRoot <=> Len(stack) = 1)
    BY <1>2 DEF DepInv, Shape, Top
  <1>6. HasChild => Child \in Vertex
    BY <1>3, <1>4 DEF HasChild, Child
  <1> QED BY <1>1, <1>3, <1>4, <1>5, <1>6

LEMMA InitInv == Init => DepInv
  <1> SUFFICES ASSUME Init PROVE DepInv
    OBVIOUS
  <1>1. rules \in Seq(Rule) /\ opts \in Options
    BY InputsAssumption DEF Init
  <1>2. TypeOK
    BY <1>1 DEF Init, TypeOK, Edges, NoEdges, Unseen
  <1>3. Shape /\ Accounted /\ Output
    BY DEF Init, Shape, Accounted, Output, NoEdges, Unseen, Distinct, OnPath, ToSet, Node
  <1>4. PassedFinished /\ Closed
    BY DEF Init, PassedFinished, Closed
  <1> QED BY <1>2, <1>3, <1>4 DEF DepInv

(* --------------------------- reading and setup ------------------------- *)

LEMMA ReadStep == DepInv /\ ReadRule => DepInv'
  <1> SUFFICES ASSUME DepInv, ReadRule PROVE DepInv'
    OBVIOUS
  <1> DEFINE r == Head(rules)
             prereqs == r.normal \o (IF opts.ignore_order_only THEN <<>> ELSE r.order_only)
             hints == IF opts.ignore_hints THEN <<>> ELSE r.hint
  <1>1. r \in Rule /\ rules' \in Seq(Rule)
    BY DEF DepInv, TypeOK, ReadRule
  <1>2. r.targets \in SUBSET Vertex /\ prereqs \in Seq(Vertex) /\ hints \in Seq(Vertex)
    BY <1>1 DEF Rule
  <1> HIDE DEF r, prereqs, hints
  <1>3. /\ pc = "read" /\ UNCHANGED <<pc, opts, graph, pending, visited, stack, toposort, warnings, printed>>
        /\ keys' \in WithKeys(keys, r.targets)
        /\ extra_keys' \in WithKeys(extra_keys, IF hints = <<>> THEN {} ELSE r.targets)
        /\ dep_graph' = Extended(dep_graph, r.targets, prereqs)
        /\ extra' = Extended(extra, r.targets, hints)
    BY DEF ReadRule, r, prereqs, hints
  <1>4. keys' \in Seq(Vertex) /\ ToSet(keys') = ToSet(keys) \union r.targets /\ extra_keys' \in Seq(Vertex)
    <2>1. keys \in Seq(Vertex) /\ extra_keys \in Seq(Vertex)
      BY DEF DepInv, TypeOK
    <2> QED BY <1>2, <1>3, <2>1, WithKeysFacts
  <1>5. dep_graph' \in Edges /\ extra' \in Edges
    BY <1>2, <1>3 DEF DepInv, TypeOK, Edges, Extended
  <1>6. TypeOK'
    BY <1>1, <1>3, <1>4, <1>5 DEF DepInv, TypeOK
  <1>7. \A v \in Vertex : dep_graph'[v] # <<>> => v \in ToSet(keys')
    <2> TAKE v \in Vertex
    <2>1. CASE v \in r.targets
      BY <2>1, <1>4
    <2>2. CASE v \notin r.targets
      BY <2>2, <1>3, <1>4 DEF DepInv, Shape, Extended
    <2> QED BY <2>1, <2>2
  <1>8. Shape'
    BY <1>3, <1>7 DEF DepInv, Shape
  <1>9. Accounted' /\ Output'
    BY <1>3 DEF DepInv, Accounted, Output, Distinct, OnPath
  <1>10. PassedFinished' /\ Closed'
    BY <1>3 DEF DepInv, Shape, PassedFinished, Closed
  <1> QED BY <1>6, <1>8, <1>9, <1>10 DEF DepInv

LEMMA SanitizeType ==
    ASSUME NEW g \in Edges
    PROVE  SanitizeGraph(g) \in Edges /\ \A v \in Vertex : ToSet(SanitizeGraph(g)[v]) = ToSet(g[v])
  BY DedupeFacts DEF SanitizeGraph, Edges

LEMMA SeqDomain == ASSUME NEW S, NEW s \in Seq(S) PROVE DOMAIN s = 1 .. Len(s) /\ Len(s) \in Nat
  OBVIOUS

LEMMA EmptyToSet == ASSUME NEW S, NEW s \in Seq(S) PROVE ToSet(s) = {} <=> s = <<>>
  BY DEF ToSet

LEMMA SanitizeStep == DepInv /\ Sanitize => DepInv'
  <1> SUFFICES ASSUME DepInv, Sanitize PROVE DepInv'
    OBVIOUS
  <1>1. dep_graph \in Edges /\ extra \in Edges
    BY DEF DepInv, TypeOK
  <1>2. dep_graph' \in Edges /\ extra' \in Edges
    BY <1>1, SanitizeType DEF Sanitize
  <1>3. TypeOK'
    BY <1>2 DEF DepInv, TypeOK, Sanitize
  <1>4. ASSUME NEW v \in Vertex, dep_graph'[v] # <<>> PROVE v \in ToSet(keys')
    <2>1. ToSet(dep_graph'[v]) = ToSet(dep_graph[v]) /\ dep_graph[v] \in Seq(Vertex) /\ dep_graph'[v] \in Seq(Vertex)
      BY <1>1, <1>2, SanitizeType DEF Sanitize, Edges
    <2>2. dep_graph[v] # <<>>
      BY <1>4, <2>1, EmptyToSet
    <2> QED BY <2>2 DEF DepInv, Shape, Sanitize
  <1>5. Shape'
    BY <1>4 DEF DepInv, Shape, Sanitize
  <1>6. Accounted' /\ Output'
    BY DEF DepInv, Accounted, Output, Distinct, OnPath, Sanitize, Shape
  <1>7. PassedFinished' /\ Closed'
    BY DEF DepInv, Shape, PassedFinished, Closed, Sanitize
  <1> QED BY <1>3, <1>5, <1>6, <1>7 DEF DepInv

(* A traversal starts at _meta_root, whatever hints have entered the graph.*)
LEMMA TraverseStarts ==
    ASSUME DepInv, stack = <<>>,
           NEW g \in [Node -> Seq(Vertex)], NEW starts \in Seq(Vertex), NEW d \in Int, d >= -1,
           Traverse(g, starts, d), UNCHANGED <<input, toposort, warnings, printed>>,
           \A v \in Vertex : ToSet(Plain[v]) \subseteq ToSet(g[v]),
           pending' \in SUBSET Vertex, pc # "done"
    PROVE  DepInv'
  <1>1. /\ graph' = [g EXCEPT ![MetaRoot] = starts]
        /\ visited' = [visited EXCEPT ![MetaRoot] = d]
        /\ stack' = <<Frame(MetaRoot, d)>>
        /\ pc' = "visit"
    BY DEF Traverse
  <1>2. MetaRoot \in Node /\ MetaRoot \notin Vertex /\ Vertex \subseteq Node
    BY DEF MetaRoot, Vertex, Node
  <1>3. graph' \in [Node -> Seq(Vertex)] /\ visited' \in [Node -> Int]
    BY <1>1 DEF DepInv, TypeOK
  <1>4. Frame(MetaRoot, d) \in Frames
    BY <1>2 DEF Frame, Frames
  <1>5. stack' \in Seq(Frames) /\ stack' # <<>> /\ DOMAIN stack' = {1} /\ Len(stack') = 1 /\ stack'[1] = Frame(MetaRoot, d)
    BY <1>1, <1>4
  <1>6. TypeOK'
    BY <1>1, <1>3, <1>5 DEF DepInv, TypeOK, input
  <1>7. Plain' = Plain
    BY DEF Plain, input
  <1>8. Shape'
    <2>1. \A v \in Vertex : ToSet(Plain'[v]) \subseteq ToSet(graph'[v])
      BY <1>1, <1>2, <1>7
    <2>2. \A v \in Node : visited'[v] >= Unseen
      BY <1>1 DEF DepInv, Shape, TypeOK, Unseen
    <2>3. \A i \in DOMAIN stack' :
          /\ stack'[i].depth >= -1
          /\ stack'[i].next <= Len(graph'[stack'[i].vertex]) + 1
          /\ stack'[i].vertex = MetaRoot <=> i = 1
      <3>1. Frame(MetaRoot, d).depth = d /\ Frame(MetaRoot, d).next = 1 /\ Frame(MetaRoot, d).vertex = MetaRoot
        BY DEF Frame
      <3>2. Len(graph'[MetaRoot]) \in Nat
        BY <1>3, <1>2
      <3> QED BY <1>5, <3>1, <3>2
    <2>4. dep_graph' = dep_graph /\ keys' = keys
      BY DEF input
    <2> QED BY <1>1, <2>1, <2>2, <2>3, <2>4 DEF DepInv, Shape
  <1>9. Accounted'
    <2>1. \A v \in Vertex : ~OnPath(v)'
      BY <1>2, <1>5 DEF OnPath, Frame
    <2>2. \A v \in Vertex : ~OnPath(v) /\ visited'[v] = visited[v]
      BY <1>1, <1>2 DEF OnPath, DepInv, TypeOK
    <2>3. ToSet(toposort) \subseteq Vertex
      BY DEF DepInv, TypeOK, ToSet
    <2>4. \A i, j \in DOMAIN stack' : i = j
      BY <1>5
    <2>5. \A v \in Vertex : visited'[v] # Unseen <=> v \in ToSet(toposort) \/ OnPath(v)'
      BY <2>1, <2>2 DEF DepInv, Accounted
    <2> QED BY <2>1, <2>3, <2>4, <2>5 DEF DepInv, Accounted, Distinct
  <1>10. Output'
    BY <1>1 DEF DepInv, Output
  <1>11. Reliable' => PassedFinished' /\ Closed'
    <2>1. PassedFinished'
      BY <1>5 DEF PassedFinished, Frame
    <2>2. Reliable' = Reliable
      BY DEF Reliable, CycleReported, Limited, input
    <2>3. Closed' = Closed
      BY <1>7 DEF Closed
    <2> QED BY <2>1, <2>2, <2>3 DEF DepInv
  <1> QED BY <1>6, <1>8, <1>9, <1>10, <1>11 DEF DepInv

LEMMA SetupStep == DepInv /\ Setup => DepInv'
  <1> SUFFICES ASSUME DepInv, Setup PROVE DepInv'
    OBVIOUS
  <1> DEFINE g == [v \in Node |-> IF v = MetaRoot THEN <<>> ELSE Plain[v]]
  <1>1. Plain \in Edges
    BY PlainType DEF DepInv, TypeOK
  <1>2. MetaRoot \notin Vertex /\ Node = {MetaRoot} \union Vertex
    BY DEF MetaRoot, Vertex, Node
  <1>3. g \in [Node -> Seq(Vertex)] /\ \A v \in Vertex : ToSet(Plain[v]) \subseteq ToSet(g[v])
    BY <1>1, <1>2 DEF Edges
  <1>4. StartNodes \in Seq(Vertex)
    <2>1. [i \in Vertex |-> i] \in Seq(Vertex)
      BY NAssumption DEF Vertex
    <2>2. opts.names \in Seq(Vertex)
      BY DEF DepInv, TypeOK, Options
    <2> QED BY <2>1, <2>2, FilterFacts DEF StartNodes
  <1>5. pending' \in SUBSET Vertex
    <2>1. \A v \in Vertex : ToSet(extra[v]) \subseteq Vertex
      BY DEF DepInv, TypeOK, Edges, ToSet
    <2>2. ToSet(extra_keys) \subseteq Vertex
      BY DEF DepInv, TypeOK, ToSet
    <2> QED BY <2>1, <2>2 DEF Setup
  <1>6. Traverse(g, StartNodes, -1) /\ stack = <<>> /\ pc # "done" /\ UNCHANGED <<input, toposort, warnings, printed>>
    BY DEF Setup, DepInv, Shape, input
  <1> DEFINE d == -1
  <1>7. d \in Int /\ d >= -1
    OBVIOUS
  <1>8. Traverse(g, StartNodes, d)
    BY <1>6
  <1> HIDE DEF g, d
  <1> QED BY <1>3, <1>4, <1>5, <1>6, <1>7, <1>8, TraverseStarts

(* ------------------------------ the traversal -------------------------- *)

(* A child is passed over without a visit: beyond the limit, or visited.   *)
LEMMA PassStep == DepInv /\ (TooDeep \/ Skip) => DepInv'
  <1> SUFFICES ASSUME DepInv, TooDeep \/ Skip PROVE DepInv'
    OBVIOUS
  <1>1. /\ pc = "visit" /\ HasChild /\ stack' = Advanced
        /\ UNCHANGED <<input, pc, graph, pending, visited, toposort, printed>>
    BY DEF TooDeep, Skip
  <1>2. /\ stack \in Seq(Frames) /\ stack # <<>> /\ Child \in Vertex
        /\ Top.next \in Nat \ {0} /\ graph[Top.vertex] \in Seq(Vertex)
    BY <1>1, ChildFacts
  <1>3. /\ Len(stack) \in Nat \ {0} /\ DOMAIN stack = 1 .. Len(stack)
        /\ stack' \in Seq(Frames) /\ Len(stack') = Len(stack) /\ DOMAIN stack' = 1 .. Len(stack)
        /\ \A i \in 1 .. Len(stack) :
              /\ stack[i] \in Frames
              /\ stack'[i].vertex = stack[i].vertex
              /\ stack'[i].depth = stack[i].depth
              /\ stack'[i].next = IF i = Len(stack) THEN stack[i].next + 1 ELSE stack[i].next
    <2>1. /\ Len(stack) \in Nat \ {0} /\ DOMAIN stack = 1 .. Len(stack)
          /\ Advanced \in Seq(Frames) /\ Len(Advanced) = Len(stack)
          /\ \A i \in 1 .. Len(stack) :
                /\ stack[i] \in Frames
                /\ Advanced[i].vertex = stack[i].vertex
                /\ Advanced[i].depth = stack[i].depth
                /\ Advanced[i].next = IF i = Len(stack) THEN stack[i].next + 1 ELSE stack[i].next
      BY <1>2, StackFacts
    <2>2. DOMAIN Advanced = 1 .. Len(stack)
      BY <2>1, SeqDomain
    <2> QED BY <1>1, <2>1, <2>2
  <1>4. stack' # <<>>
    BY <1>3
  <1>5. warnings' \in SUBSET ({"cycle", "unique", "exists", "basename"} \X Vertex)
    BY <1>2 DEF TooDeep, Skip, DepInv, TypeOK
  <1>6. TypeOK'
    BY <1>1, <1>3, <1>4, <1>5 DEF DepInv, TypeOK, input
  <1>7. Plain' = Plain
    BY <1>1 DEF Plain, input
  <1>8. Shape'
    <2>1. \A i \in DOMAIN stack' :
          /\ stack'[i].depth >= -1
          /\ stack'[i].next <= Len(graph'[stack'[i].vertex]) + 1
          /\ stack'[i].vertex = MetaRoot <=> i = 1
      <3> SUFFICES ASSUME NEW i \in 1 .. Len(stack)
                   PROVE  /\ stack'[i].depth >= -1
                          /\ stack'[i].next <= Len(graph[stack[i].vertex]) + 1
                          /\ stack'[i].vertex = MetaRoot <=> i = 1
        BY <1>1, <1>3
      <3>1. /\ stack[i].depth >= -1 /\ stack[i].next <= Len(graph[stack[i].vertex]) + 1
            /\ stack[i].vertex = MetaRoot <=> i = 1
        BY <1>3 DEF DepInv, Shape
      <3>2. i = Len(stack) => stack[i].next <= Len(graph[stack[i].vertex])
        BY <1>1 DEF HasChild, Top
      <3>3. stack[i].next \in Int /\ Len(graph[stack[i].vertex]) \in Nat
        <4>1. stack[i] \in Frames /\ graph \in [Node -> Seq(Vertex)]
          BY <1>3 DEF DepInv, TypeOK
        <4> QED BY <4>1 DEF Frames
      <3>4. /\ stack'[i].vertex = stack[i].vertex /\ stack'[i].depth = stack[i].depth
            /\ stack'[i].next = IF i = Len(stack) THEN stack[i].next + 1 ELSE stack[i].next
        BY <1>3
      <3> QED BY <3>1, <3>2, <3>3, <3>4
    <2> QED BY <1>1, <1>7, <2>1 DEF DepInv, Shape, input
  <1>9. \A v \in Vertex : OnPath(v)' <=> OnPath(v)
    BY <1>3 DEF OnPath
  <1>10. Accounted'
    <2>1. ToSet(toposort) \subseteq Vertex
      BY DEF DepInv, TypeOK, ToSet
    <2>2. toposort' = toposort /\ visited' = visited
      BY <1>1
    <2> QED BY <1>3, <1>9, <2>1, <2>2 DEF DepInv, Accounted, Distinct
  <1>11. Output'
    BY <1>1 DEF DepInv, Output
  <1>12. Reliable' => PassedFinished' /\ Closed'
    <2> SUFFICES ASSUME Reliable' PROVE PassedFinished' /\ Closed'
      OBVIOUS
    <2>1. warnings \subseteq warnings'
      BY DEF TooDeep, Skip
    <2>2. Reliable
      BY <1>1, <2>1 DEF Reliable, CycleReported, Limited, input
    <2>3. Skip
      BY <2>2 DEF TooDeep, Beyond, Reliable
    <2>4. ~OnPath(Child)
      <3>1. SUFFICES ASSUME OnPath(Child) PROVE FALSE
        OBVIOUS
      <3>2. <<"cycle", Child>> \in warnings'
        BY <2>2, <2>3, <3>1 DEF Skip, Reliable
      <3> QED BY <1>2, <3>2 DEF Reliable, CycleReported
    <2>5. Child \in ToSet(toposort)
      BY <1>2, <2>3, <2>4 DEF Skip, DepInv, Accounted
    <2>6. PassedFinished'
      <3> SUFFICES ASSUME NEW i \in 1 .. Len(stack), NEW k \in 1 .. stack'[i].next - 1
                   PROVE  \/ graph[stack[i].vertex][k] \in ToSet(toposort)
                          \/ /\ i < Len(stack) /\ k = stack'[i].next - 1
                             /\ graph[stack[i].vertex][k] = stack'[i + 1].vertex
        BY <1>1, <1>3 DEF PassedFinished
      <3>7. Len(stack) \in Nat /\ i \in DOMAIN stack /\ i \in Nat /\ i <= Len(stack)
        <4>1. Len(stack) \in Nat /\ DOMAIN stack = 1 .. Len(stack)
          BY <1>2, SeqDomain
        <4> QED BY <4>1
      <3>8. stack'[i].next = IF i = Len(stack) THEN stack[i].next + 1 ELSE stack[i].next
        BY <1>3
      <3>9. /\ i \in Nat /\ i <= Len(stack) /\ Len(stack) \in Nat /\ i \in DOMAIN stack
            /\ stack'[i].next = IF i = Len(stack) THEN stack[i].next + 1 ELSE stack[i].next
        BY <3>7, <3>8
      <3>6. stack[i].next \in Nat
        <4>1. stack[i] \in Frames
          BY <1>3
        <4> QED BY <4>1 DEF Frames
      <3>10. stack'[i].next \in Nat
        BY <3>9, <3>6
      <3>0. /\ i \in Nat /\ i <= Len(stack) /\ Len(stack) \in Nat /\ k \in Nat /\ k >= 1 /\ i \in DOMAIN stack
            /\ stack'[i].next = IF i = Len(stack) THEN stack[i].next + 1 ELSE stack[i].next
        BY <3>9, <3>10
      <3>1. stack[i].next \in Nat /\ k <= stack'[i].next - 1
        BY <3>6, <3>10
      <3>5. \A m \in 1 .. stack[i].next - 1 :
               \/ graph[stack[i].vertex][m] \in ToSet(toposort)
               \/ /\ i < Len(stack) /\ m = stack[i].next - 1
                  /\ graph[stack[i].vertex][m] = stack[i + 1].vertex
        BY <2>2, <3>0 DEF DepInv, PassedFinished
      <3>2. CASE i < Len(stack)
        <4>1. stack'[i].next = stack[i].next
          BY <3>0, <3>2
        <4>2. i + 1 \in 1 .. Len(stack)
          BY <3>0, <3>2
        <4>3. stack'[i + 1].vertex = stack[i + 1].vertex
          BY <1>3, <4>2
        <4> QED BY <3>0, <3>1, <3>5, <4>1, <4>3
      <3>3. CASE i = Len(stack) /\ k < stack[i].next
        BY <3>0, <3>1, <3>3, <3>5
      <3>4. CASE i = Len(stack) /\ k = stack[i].next
        BY <2>5, <3>4 DEF Child, Top
      <3> QED BY <3>0, <3>1, <3>2, <3>3, <3>4
    <2>7. Closed'
      BY <1>1, <1>7, <2>2 DEF DepInv, Closed
    <2> QED BY <2>6, <2>7
  <1> QED BY <1>6, <1>8, <1>10, <1>11, <1>12 DEF DepInv

LEMMA AppendFacts ==
    ASSUME NEW S, NEW s \in Seq(S), NEW e \in S
    PROVE  /\ Append(s, e) \in Seq(S) /\ Len(Append(s, e)) = Len(s) + 1
           /\ DOMAIN Append(s, e) = 1 .. Len(s) + 1 /\ Len(s) \in Nat
           /\ \A i \in 1 .. Len(s) : Append(s, e)[i] = s[i]
           /\ Append(s, e)[Len(s) + 1] = e
           /\ ToSet(Append(s, e)) = ToSet(s) \union {e}
  <1>1. /\ Append(s, e) \in Seq(S) /\ Len(Append(s, e)) = Len(s) + 1
        /\ DOMAIN Append(s, e) = 1 .. Len(s) + 1 /\ Len(s) \in Nat
    OBVIOUS
  <1>2. /\ \A i \in 1 .. Len(s) : Append(s, e)[i] = s[i]
        /\ Append(s, e)[Len(s) + 1] = e
    OBVIOUS
  <1>3. ToSet(Append(s, e)) = ToSet(s) \union {e}
    <2>1. DOMAIN s = 1 .. Len(s)
      OBVIOUS
    <2>2. ToSet(Append(s, e)) \subseteq ToSet(s) \union {e}
      <3> SUFFICES ASSUME NEW i \in 1 .. Len(s) + 1 PROVE Append(s, e)[i] \in ToSet(s) \union {e}
        BY <1>1 DEF ToSet
      <3>1. i \in 1 .. Len(s) \/ i = Len(s) + 1
        BY <1>1
      <3> QED BY <3>1, <1>2, <2>1 DEF ToSet
    <2>3. ToSet(s) \subseteq ToSet(Append(s, e))
      <3> SUFFICES ASSUME NEW i \in 1 .. Len(s) PROVE s[i] \in ToSet(Append(s, e))
        BY <2>1 DEF ToSet
      <3>1. i \in 1 .. Len(s) + 1
        BY <1>1
      <3> QED BY <3>1, <1>1, <1>2 DEF ToSet
    <2>4. e \in ToSet(Append(s, e))
      BY <1>1, <1>2 DEF ToSet
    <2> QED BY <2>2, <2>3, <2>4
  <1> QED BY <1>1, <1>2, <1>3

LEMMA VisitStep == DepInv /\ Visit => DepInv'
  <1> SUFFICES ASSUME DepInv, Visit PROVE DepInv'
    OBVIOUS
  <1> DEFINE n == Len(stack)
             new == Frame(Child, Top.depth + 1)
  <1>1. /\ pc = "visit" /\ HasChild /\ visited[Child] = Unseen
        /\ visited' = [visited EXCEPT ![Child] = Top.depth + 1]
        /\ stack' = Append(Advanced, new)
        /\ warnings' = warnings \union StartVisit(Child)
        /\ UNCHANGED <<input, pc, graph, pending, toposort, printed>>
    BY DEF Visit
  <1>2. /\ stack \in Seq(Frames) /\ stack # <<>> /\ Child \in Vertex
        /\ Top.next \in Nat \ {0} /\ graph[Top.vertex] \in Seq(Vertex)
        /\ Top.depth \in Int /\ Top.depth >= -1
    BY <1>1, ChildFacts
  <1>3. MetaRoot \in Node /\ MetaRoot \notin Vertex /\ Vertex \subseteq Node
    BY DEF MetaRoot, Vertex, Node
  <1>4. new \in Frames /\ new.vertex = Child /\ new.next = 1 /\ new.depth = Top.depth + 1
    BY <1>2, <1>3 DEF Frame, Frames
  <1>5. /\ n \in Nat \ {0} /\ DOMAIN stack = 1 .. n
        /\ \A i \in 1 .. n : stack[i] \in Frames
        /\ Advanced \in Seq(Frames) /\ Len(Advanced) = n
        /\ \A i \in 1 .. n :
              /\ Advanced[i].vertex = stack[i].vertex
              /\ Advanced[i].depth = stack[i].depth
              /\ Advanced[i].next = IF i = n THEN stack[i].next + 1 ELSE stack[i].next
    BY <1>2, StackFacts
  <1> HIDE DEF new
  <1>6. /\ stack' \in Seq(Frames) /\ Len(stack') = n + 1 /\ DOMAIN stack' = 1 .. n + 1
        /\ \A i \in 1 .. n : stack'[i] = Advanced[i]
        /\ stack'[n + 1] = new
    <2>1. /\ Append(Advanced, new) \in Seq(Frames) /\ Len(Append(Advanced, new)) = Len(Advanced) + 1
          /\ DOMAIN Append(Advanced, new) = 1 .. Len(Advanced) + 1
          /\ \A i \in 1 .. Len(Advanced) : Append(Advanced, new)[i] = Advanced[i]
          /\ Append(Advanced, new)[Len(Advanced) + 1] = new
      <3>1. Advanced \in Seq(Frames) /\ new \in Frames
        BY <1>4, <1>5
      <3> HIDE DEF n
      <3> QED BY <3>1, AppendFacts
    <2>2. Len(Advanced) = n
      BY <1>5
    <2> HIDE DEF n
    <2> QED BY <1>1, <2>1, <2>2
  <1>7. \A i \in 1 .. n :
              /\ stack'[i].vertex = stack[i].vertex
              /\ stack'[i].depth = stack[i].depth
              /\ stack'[i].next = IF i = n THEN stack[i].next + 1 ELSE stack[i].next
    BY <1>5, <1>6
  <1> HIDE DEF n
  <1>8. TypeOK'
    <2>1. stack' # <<>>
      BY <1>5, <1>6
    <2>2. StartVisit(Child) \in SUBSET ({"cycle", "unique", "exists", "basename"} \X Vertex)
      BY <1>2 DEF StartVisit
    <2>3. visited' \in [Node -> Int]
      <3>1. Top.depth + 1 \in Int /\ visited \in [Node -> Int]
        BY <1>2 DEF DepInv, TypeOK
      <3> QED BY <1>1, <3>1
    <2> QED BY <1>1, <1>6, <2>1, <2>2, <2>3 DEF DepInv, TypeOK, input
  <1>9. Plain' = Plain
    BY <1>1 DEF Plain, input
  <1>10. \A i \in 1 .. n + 1 : i \in 1 .. n \/ i = n + 1
    BY <1>5
  <1>11. Shape'
    <2>1. \A v \in Node : visited'[v] >= Unseen
      BY <1>1, <1>2 DEF DepInv, Shape, TypeOK, Unseen
    <2>2. ASSUME NEW i \in 1 .. n
          PROVE  /\ stack'[i].depth >= -1
                 /\ stack'[i].next <= Len(graph[stack[i].vertex]) + 1
                 /\ stack'[i].vertex = MetaRoot <=> i = 1
      <3>1. /\ stack[i].depth >= -1 /\ stack[i].next <= Len(graph[stack[i].vertex]) + 1
            /\ stack[i].vertex = MetaRoot <=> i = 1
        BY <1>5 DEF DepInv, Shape
      <3>2. i = n => stack[i].next <= Len(graph[stack[i].vertex])
        BY <1>1 DEF HasChild, Top, n
      <3>3. stack[i].next \in Int /\ Len(graph[stack[i].vertex]) \in Nat
        <4>1. stack[i] \in Frames /\ graph \in [Node -> Seq(Vertex)]
          BY <1>5 DEF DepInv, TypeOK
        <4> QED BY <4>1 DEF Frames
      <3>4. /\ stack'[i].vertex = stack[i].vertex /\ stack'[i].depth = stack[i].depth
            /\ stack'[i].next = IF i = n THEN stack[i].next + 1 ELSE stack[i].next
        BY <1>7
      <3> QED BY <3>1, <3>2, <3>3, <3>4
    <2>3. /\ stack'[n + 1].depth >= -1
          /\ stack'[n + 1].next <= Len(graph[stack'[n + 1].vertex]) + 1
          /\ stack'[n + 1].vertex = MetaRoot <=> n + 1 = 1
      <3>1. Len(graph[Child]) \in Nat
        BY <1>2, <1>3 DEF DepInv, TypeOK
      <3> QED BY <1>2, <1>3, <1>4, <1>5, <1>6, <3>1
    <2>4. \A i \in DOMAIN stack' :
          /\ stack'[i].depth >= -1
          /\ stack'[i].next <= Len(graph'[stack'[i].vertex]) + 1
          /\ stack'[i].vertex = MetaRoot <=> i = 1
      <3> TAKE i \in DOMAIN stack'
      <3>1. CASE i \in 1 .. n
        BY <1>1, <1>7, <2>2, <3>1
      <3>2. CASE i = n + 1
        BY <1>1, <2>3, <3>2
      <3> QED BY <1>6, <1>10, <3>1, <3>2
    <2> QED BY <1>1, <1>9, <2>1, <2>4 DEF DepInv, Shape, input
  <1>12. \A v \in Vertex : OnPath(v)' <=> OnPath(v) \/ v = Child
    <2> TAKE v \in Vertex
    <2>1. ASSUME OnPath(v) PROVE OnPath(v)'
      <3>1. PICK i \in 1 .. n : stack[i].vertex = v
        BY <1>5, <2>1 DEF OnPath
      <3>2. i \in DOMAIN stack' /\ stack'[i].vertex = v
        BY <1>5, <1>6, <1>7, <3>1
      <3> QED BY <3>2 DEF OnPath
    <2>2. n + 1 \in DOMAIN stack' /\ stack'[n + 1].vertex = Child
      BY <1>4, <1>5, <1>6
    <2>3. ASSUME OnPath(v)', v # Child PROVE OnPath(v)
      <3>1. PICK i \in DOMAIN stack' : stack'[i].vertex = v
        BY <2>3 DEF OnPath
      <3>2. i \in 1 .. n
        BY <1>4, <1>6, <1>10, <2>3, <3>1
      <3> QED BY <1>5, <1>7, <3>1, <3>2 DEF OnPath
    <2>4. v = Child => OnPath(v)'
      BY <2>2 DEF OnPath
    <2> QED BY <2>1, <2>3, <2>4
  <1>13. Child \notin ToSet(toposort) /\ ~OnPath(Child)
    BY <1>1, <1>2 DEF DepInv, Accounted
  <1>14. Accounted'
    <2>1. \A v \in Vertex : visited'[v] # Unseen <=> v \in ToSet(toposort) \/ OnPath(v)'
      <3> TAKE v \in Vertex
      <3>1. v # Child => visited'[v] = visited[v]
        BY <1>1
      <3>2. v = Child => visited'[v] # Unseen
        BY <1>1, <1>2, <1>3 DEF DepInv, TypeOK, Unseen
      <3> QED BY <1>12, <3>1, <3>2 DEF DepInv, Accounted
    <2>2. \A v \in ToSet(toposort) : ~OnPath(v)'
      <3>1. ToSet(toposort) \subseteq Vertex
        BY DEF DepInv, TypeOK, ToSet
      <3> QED BY <1>12, <1>13, <3>1 DEF DepInv, Accounted
    <2>3. \A i, j \in DOMAIN stack' : stack'[i].vertex = stack'[j].vertex => i = j
      <3>1. \A i \in 1 .. n : stack[i].vertex # Child
        BY <1>5, <1>13 DEF OnPath
      <3>2. \A i, j \in 1 .. n : stack[i].vertex = stack[j].vertex => i = j
        BY <1>5 DEF DepInv, Accounted
      <3> QED BY <1>4, <1>6, <1>7, <1>10, <3>1, <3>2
    <2> QED BY <1>1, <2>1, <2>2, <2>3 DEF DepInv, Accounted
  <1>15. Output'
    BY <1>1 DEF DepInv, Output
  <1>16. Reliable' => PassedFinished' /\ Closed'
    <2> SUFFICES ASSUME Reliable' PROVE PassedFinished' /\ Closed'
      OBVIOUS
    <2>1. Reliable
      BY <1>1 DEF Reliable, CycleReported, Limited, input
    <2>2. ASSUME NEW i \in 1 .. n + 1, NEW k \in 1 .. stack'[i].next - 1
          PROVE  \/ graph[stack'[i].vertex][k] \in ToSet(toposort)
                 \/ /\ i < n + 1 /\ k = stack'[i].next - 1
                    /\ graph[stack'[i].vertex][k] = stack'[i + 1].vertex
      <3>1. CASE i = n + 1
        BY <1>4, <1>6, <3>1
      <3>2. CASE i \in 1 .. n
        <4>1. /\ i \in Nat /\ i <= n /\ i \in DOMAIN stack /\ stack'[i].vertex = stack[i].vertex
              /\ stack'[i].next = IF i = n THEN stack[i].next + 1 ELSE stack[i].next
          BY <1>5, <1>7, <3>2
        <4>2. stack[i].next \in Nat
          <5>1. stack[i] \in Frames
            BY <1>5, <3>2
          <5> QED BY <5>1 DEF Frames
        <4>3. k \in Nat /\ k >= 1 /\ k <= stack'[i].next - 1
          BY <4>1, <4>2
        <4>4. \A m \in 1 .. stack[i].next - 1 :
                 \/ graph[stack[i].vertex][m] \in ToSet(toposort)
                 \/ /\ i < n /\ m = stack[i].next - 1
                    /\ graph[stack[i].vertex][m] = stack[i + 1].vertex
          BY <2>1, <4>1 DEF DepInv, PassedFinished, n
        <4>5. CASE i = n /\ k = stack[i].next
          <5>1. graph[stack[n].vertex][stack[n].next] = Child
            BY DEF Child, Top, n
          <5>2. stack'[n + 1].vertex = Child /\ stack'[n].next - 1 = stack[n].next
            BY <1>4, <1>6, <4>1, <4>2, <4>5
          <5> QED BY <1>5, <4>1, <4>5, <5>1, <5>2
        <4>6. CASE i = n /\ k < stack[i].next
          BY <4>1, <4>2, <4>3, <4>4, <4>6
        <4>7. CASE i < n
          <5>1. i + 1 \in 1 .. n
            BY <1>5, <4>1, <4>7
          <5>2. stack'[i + 1].vertex = stack[i + 1].vertex
            BY <1>7, <5>1
          <5> QED BY <1>5, <4>1, <4>2, <4>3, <4>4, <4>7, <5>2
        <4> QED BY <1>5, <4>1, <4>2, <4>3, <4>5, <4>6, <4>7
      <3> QED BY <1>10, <3>1, <3>2
    <2>3. PassedFinished'
      BY <1>1, <1>6, <2>2 DEF PassedFinished
    <2>4. Closed'
      BY <1>1, <1>9, <2>1 DEF DepInv, Closed
    <2> QED BY <2>3, <2>4
  <1> QED BY <1>8, <1>11, <1>14, <1>15, <1>16 DEF DepInv

LEMMA FinishStep == DepInv /\ Finish => DepInv'
  <1> SUFFICES ASSUME DepInv, Finish PROVE DepInv'
    OBVIOUS
  <1> DEFINE n == Len(stack)
             v == Top.vertex
             m == Len(toposort)
  <1>1. /\ pc = "visit" /\ ~HasChild /\ v # MetaRoot
        /\ stack' = Popped /\ toposort' = Append(toposort, v)
        /\ UNCHANGED <<input, pc, graph, pending, visited, warnings, printed>>
    BY DEF Finish
  <1>2. /\ stack \in Seq(Frames) /\ stack # <<>> /\ v \in Vertex
        /\ Top.next \in Nat \ {0} /\ graph[v] \in Seq(Vertex) /\ n # 1
    <2>1. Top.vertex \in Node /\ (Top.vertex = MetaRoot <=> Len(stack) = 1)
      BY <1>1, ChildFacts
    <2>2. Top.vertex \in Vertex
      BY <1>1, <2>1 DEF Node
    <2> QED BY <1>1, <2>1, <2>2, ChildFacts
  <1>3. /\ n \in Nat \ {0} /\ DOMAIN stack = 1 .. n
        /\ \A i \in 1 .. n : stack[i] \in Frames
        /\ stack' \in Seq(Frames) /\ Len(stack') = n - 1
        /\ \A i \in 1 .. n - 1 : stack'[i] = stack[i]
    BY <1>1, <1>2, StackFacts
  <1>4. DOMAIN stack' = 1 .. n - 1
    <2>1. DOMAIN stack' = 1 .. Len(stack')
      BY <1>3, SeqDomain
    <2> QED BY <1>3, <2>1
  <1>5. v = stack[n].vertex /\ n \in 1 .. n
    BY <1>3 DEF Top
  <1>6. toposort \in Seq(Vertex) /\ DOMAIN toposort = 1 .. m /\ m \in Nat
    BY SeqDomain DEF DepInv, TypeOK
  <1>7. /\ toposort' \in Seq(Vertex) /\ DOMAIN toposort' = 1 .. m + 1
        /\ \A i \in 1 .. m : toposort'[i] = toposort[i]
        /\ toposort'[m + 1] = v /\ ToSet(toposort') = ToSet(toposort) \union {v}
    BY <1>1, <1>2, <1>6, AppendFacts
  <1> HIDE DEF n, v, m
  <1>8. n - 1 \in Nat /\ n - 1 >= 1 /\ \A i \in 1 .. n : i \in 1 .. n - 1 \/ i = n
    BY <1>2, <1>3
  <1>9. TypeOK'
    <2>1. stack' # <<>>
      BY <1>3, <1>8
    <2> QED BY <1>1, <1>3, <1>7, <2>1 DEF DepInv, TypeOK, input
  <1>10. Plain' = Plain
    BY <1>1 DEF Plain, input
  <1>11. Shape'
    <2>1. \A i \in DOMAIN stack' :
          /\ stack'[i].depth >= -1
          /\ stack'[i].next <= Len(graph'[stack'[i].vertex]) + 1
          /\ stack'[i].vertex = MetaRoot <=> i = 1
      <3> TAKE i \in DOMAIN stack'
      <3>1. i \in 1 .. n - 1 /\ i \in DOMAIN stack
        BY <1>3, <1>4
      <3>2. stack'[i] = stack[i] /\ graph' = graph
        BY <1>1, <1>3, <3>1
      <3> QED BY <3>1, <3>2 DEF DepInv, Shape
    <2> QED BY <1>1, <1>10, <2>1 DEF DepInv, Shape, input
  <1>12. \A i, j \in 1 .. n : stack[i].vertex = stack[j].vertex => i = j
    BY <1>3 DEF DepInv, Accounted
  <1>13. \A x \in Vertex : OnPath(x)' <=> OnPath(x) /\ x # v
    <2> TAKE x \in Vertex
    <2>1. ASSUME OnPath(x)' PROVE OnPath(x) /\ x # v
      <3>1. PICK i \in 1 .. n - 1 : stack'[i].vertex = x
        BY <1>4, <2>1 DEF OnPath
      <3>2. i \in 1 .. n /\ i # n /\ stack[i].vertex = x
        BY <1>3, <3>1
      <3> QED BY <1>3, <1>5, <1>12, <3>2 DEF OnPath
    <2>2. ASSUME OnPath(x), x # v PROVE OnPath(x)'
      <3>1. PICK i \in 1 .. n : stack[i].vertex = x
        BY <1>3, <2>2 DEF OnPath
      <3>2. i \in 1 .. n - 1
        BY <1>5, <1>8, <2>2, <3>1
      <3> QED BY <1>3, <1>4, <3>1, <3>2 DEF OnPath
    <2> QED BY <2>1, <2>2
  <1>14. OnPath(v) /\ v \notin ToSet(toposort)
    <2>1. OnPath(v)
      BY <1>3, <1>5 DEF OnPath
    <2> QED BY <2>1 DEF DepInv, Accounted
  <1>15. \A i \in 1 .. m + 1 : i \in 1 .. m \/ i = m + 1
    BY <1>6
  <1>16. Accounted'
    <2>1. \A x \in Vertex : visited'[x] # Unseen <=> x \in ToSet(toposort') \/ OnPath(x)'
      BY <1>1, <1>7, <1>13, <1>14 DEF DepInv, Accounted
    <2>2. \A x \in ToSet(toposort') : ~OnPath(x)'
      <3>1. ToSet(toposort) \subseteq Vertex
        BY DEF DepInv, TypeOK, ToSet
      <3> QED BY <1>2, <1>7, <1>13, <1>14, <3>1 DEF DepInv, Accounted
    <2>3. Distinct(toposort')
      <3>1. \A i \in 1 .. m : toposort[i] # v
        BY <1>6, <1>14 DEF ToSet
      <3>2. \A i, j \in 1 .. m : toposort[i] = toposort[j] => i = j
        BY <1>6 DEF DepInv, Accounted, Distinct
      <3> QED BY <1>7, <1>15, <3>1, <3>2 DEF Distinct
    <2>4. \A i, j \in DOMAIN stack' : stack'[i].vertex = stack'[j].vertex => i = j
      <3> TAKE i, j \in DOMAIN stack'
      <3>1. i \in 1 .. n /\ j \in 1 .. n /\ stack'[i] = stack[i] /\ stack'[j] = stack[j]
        BY <1>3, <1>4
      <3> QED BY <1>12, <3>1
    <2> QED BY <2>1, <2>2, <2>3, <2>4 DEF Accounted
  <1>17. Output'
    BY <1>1 DEF DepInv, Output
  <1>18. Reliable' => PassedFinished' /\ Closed'
    <2> SUFFICES ASSUME Reliable' PROVE PassedFinished' /\ Closed'
      OBVIOUS
    <2>1. PassedFinished /\ Closed
      BY <1>1 DEF Reliable, CycleReported, Limited, input, DepInv
    <2>2. PassedFinished'
      <3> SUFFICES ASSUME NEW i \in 1 .. n - 1, NEW k \in 1 .. stack[i].next - 1
                   PROVE  \/ graph[stack[i].vertex][k] \in ToSet(toposort')
                          \/ /\ i < n - 1 /\ k = stack[i].next - 1
                             /\ graph[stack[i].vertex][k] = stack'[i + 1].vertex
        BY <1>1, <1>3, <1>4 DEF PassedFinished
      <3>1. i \in DOMAIN stack /\ i \in Nat /\ i <= n - 1
        BY <1>3
      <3>2. CASE graph[stack[i].vertex][k] \in ToSet(toposort)
        BY <1>7, <3>2
      <3>3. CASE k = stack[i].next - 1 /\ graph[stack[i].vertex][k] = stack[i + 1].vertex
        <4>1. CASE i = n - 1
          <5>1. i + 1 = n
            BY <1>3, <4>1
          <5> QED BY <1>5, <1>7, <3>3, <5>1
        <4>2. CASE i < n - 1
          <5>1. i + 1 \in 1 .. n - 1
            BY <1>3, <3>1, <4>2
          <5> QED BY <1>3, <3>3, <4>2, <5>1
        <4> QED BY <1>3, <3>1, <4>1, <4>2
      <3> QED BY <2>1, <3>1, <3>2, <3>3 DEF PassedFinished
    <2>3. \A p \in ToSet(graph[v]) : p \in ToSet(toposort)
      <3> SUFFICES ASSUME NEW k \in 1 .. Len(graph[v]) PROVE graph[v][k] \in ToSet(toposort)
        BY <1>2, SeqDomain DEF ToSet
      <3>1. Top.next = stack[n].next /\ k \in 1 .. stack[n].next - 1
        <4>1. Len(graph[v]) \in Nat /\ stack[n].next > Len(graph[v]) /\ Top.next = stack[n].next
          BY <1>1, <1>2 DEF HasChild, Top, n, v
        <4> QED BY <1>2, <4>1
      <3>2. ~(n < Len(stack)) /\ n \in DOMAIN stack
        BY <1>3 DEF n
      <3> QED BY <1>5, <2>1, <3>1, <3>2 DEF PassedFinished
    <2>4. Closed'
      <3> SUFFICES ASSUME NEW j \in 1 .. m + 1, NEW p \in ToSet(Plain[toposort'[j]])
                   PROVE  \E i \in 1 .. m + 1 : i < j /\ toposort'[i] = p
        BY <1>7, <1>10 DEF Closed
      <3>1. CASE j \in 1 .. m
        <4>1. PICK i \in 1 .. m : i < j /\ toposort[i] = p
          BY <1>6, <1>7, <2>1, <3>1 DEF Closed
        <4> QED BY <1>6, <1>7, <4>1
      <3>2. CASE j = m + 1
        <4>1. p \in ToSet(toposort)
          BY <1>1, <1>2, <1>7, <2>3, <3>2 DEF DepInv, Shape
        <4>2. PICK i \in 1 .. m : toposort[i] = p
          BY <1>6, <4>1 DEF ToSet
        <4> QED BY <1>6, <1>7, <3>2, <4>2
      <3> QED BY <1>15, <3>1, <3>2
    <2> QED BY <2>2, <2>4
  <1> QED BY <1>9, <1>11, <1>16, <1>17, <1>18 DEF DepInv

LEMMA PostprocessStep == DepInv /\ Postprocess => DepInv'
  <1> SUFFICES ASSUME DepInv, Postprocess PROVE DepInv'
    OBVIOUS
  <1>1. /\ pc = "visit" /\ ~HasChild /\ Top.vertex = MetaRoot /\ pc' = "hints"
        /\ stack' = Popped /\ warnings \subseteq warnings'
        /\ UNCHANGED <<input, graph, pending, visited, toposort, printed>>
    BY DEF Postprocess
  <1>2. stack \in Seq(Frames) /\ stack # <<>> /\ Len(stack) = 1
    BY <1>1, ChildFacts
  <1>3. stack' = <<>> /\ stack' \in Seq(Frames)
    <2>1. Popped \in Seq(Frames) /\ Len(Popped) = 0
      BY <1>2, StackFacts
    <2> QED BY <1>1, <2>1
  <1>4. DOMAIN stack = {1} /\ stack[1].vertex = MetaRoot
    BY <1>1, <1>2 DEF Top
  <1>5. \A v \in Vertex : ~OnPath(v)' /\ ~OnPath(v)
    BY <1>3, <1>4 DEF OnPath, MetaRoot, Vertex
  <1>6. TypeOK'
    <2>1. warnings' \in SUBSET ({"cycle", "unique", "exists", "basename"} \X Vertex)
      <3>1. \A g \in opts.unique_basename : SameBasename(g) \subseteq Vertex
        BY DEF SameBasename, DepInv, TypeOK, Options
      <3> QED BY <3>1 DEF Postprocess, DepInv, TypeOK
    <2> QED BY <1>1, <1>3, <2>1 DEF DepInv, TypeOK, input
  <1>7. Plain' = Plain
    BY <1>1 DEF Plain, input
  <1>8. Shape' /\ Output'
    BY <1>1, <1>3, <1>7 DEF DepInv, Shape, Output, input
  <1>9. Accounted'
    <2>1. ToSet(toposort) \subseteq Vertex
      BY DEF DepInv, TypeOK, ToSet
    <2> QED BY <1>1, <1>3, <1>5, <2>1 DEF DepInv, Accounted
  <1>10. Reliable' => PassedFinished' /\ Closed'
    <2>1. Reliable' => Reliable
      BY <1>1 DEF Reliable, CycleReported, Limited, input
    <2>2. PassedFinished'
      BY <1>3 DEF PassedFinished
    <2> QED BY <1>1, <1>7, <2>1, <2>2 DEF DepInv, Closed
  <1> QED BY <1>6, <1>8, <1>9, <1>10 DEF DepInv

LEMMA HintedFacts ==
    ASSUME DepInv, pc = "hints"
    PROVE  /\ Hinted \in [Node -> Seq(Vertex)]
           /\ \A v \in Vertex : Hints[v] \in Seq(Vertex) /\ ToSet(Plain[v]) \subseteq ToSet(Hinted[v])
  <1>1. Hints \in [Vertex -> Seq(Vertex)] /\ graph \in [Node -> Seq(Vertex)]
    BY PlainType DEF DepInv, TypeOK, Edges
  <1>2. Node = {MetaRoot} \union Vertex /\ MetaRoot \notin Vertex
    BY DEF Node, MetaRoot, Vertex
  <1>3. ASSUME NEW v \in Vertex
        PROVE  /\ Dedupe(graph[v] \o Hints[v]) \in Seq(Vertex)
               /\ ToSet(graph[v]) \subseteq ToSet(Dedupe(graph[v] \o Hints[v]))
    <2>1. graph[v] \in Seq(Vertex) /\ Hints[v] \in Seq(Vertex)
      BY <1>1, <1>2
    <2>2. graph[v] \o Hints[v] \in Seq(Vertex) /\ ToSet(graph[v]) \subseteq ToSet(graph[v] \o Hints[v])
      BY <2>1, SeqFacts
    <2> QED BY <2>2, DedupeFacts
  <1>4. Hinted \in [Node -> Seq(Vertex)]
    BY <1>1, <1>2, <1>3 DEF Hinted
  <1>5. \A v \in Vertex : ToSet(Plain[v]) \subseteq ToSet(Hinted[v])
    <2> TAKE v \in Vertex
    <2>1. ToSet(Plain[v]) \subseteq ToSet(graph[v])
      BY DEF DepInv, Shape
    <2>2. Hinted[v] = Dedupe(graph[v] \o Hints[v])
      BY <1>2 DEF Hinted
    <2> QED BY <1>3, <2>1, <2>2
  <1> QED BY <1>1, <1>4, <1>5

LEMMA NextHintStep == DepInv /\ NextHint => DepInv'
  <1> SUFFICES ASSUME DepInv, NextHint PROVE DepInv'
    OBVIOUS
  <1>1. pc = "hints" /\ UNCHANGED <<input, toposort, warnings, printed>> /\ stack = <<>>
    BY DEF NextHint, DepInv, Shape
  <1>2. PICK t \in pending :
          /\ pending' = pending \ {t}
          /\ IF visited[t] = Unseen
             THEN graph' = Hinted /\ UNCHANGED <<pc, visited, stack>>
             ELSE Traverse(Hinted, Hints[t], visited[t])
    BY DEF NextHint
  <1>3. t \in Vertex /\ pending' \in SUBSET Vertex
    BY <1>2 DEF DepInv, TypeOK
  <1>4. CASE visited[t] # Unseen
    <2> DEFINE d == visited[t]
               g == Hinted
               h == Hints[t]
    <2>1. d \in Int /\ d >= -1
      BY <1>3, <1>4 DEF DepInv, TypeOK, Shape, Node, Unseen
    <2>2. g \in [Node -> Seq(Vertex)] /\ h \in Seq(Vertex) /\ \A v \in Vertex : ToSet(Plain[v]) \subseteq ToSet(g[v])
      BY <1>1, <1>3, HintedFacts
    <2>3. Traverse(g, h, d) /\ pc # "done"
      BY <1>1, <1>2, <1>4
    <2> HIDE DEF d, g, h
    <2> QED BY <1>1, <1>3, <2>1, <2>2, <2>3, TraverseStarts
  <1>5. CASE visited[t] = Unseen
    <2>1. graph' = Hinted /\ UNCHANGED <<pc, visited, stack>>
      BY <1>2, <1>5
    <2>2. Hinted \in [Node -> Seq(Vertex)] /\ \A v \in Vertex : ToSet(Plain[v]) \subseteq ToSet(Hinted[v])
      BY <1>1, HintedFacts
    <2>3. TypeOK'
      BY <1>1, <1>3, <2>1, <2>2 DEF DepInv, TypeOK, input
    <2>4. Plain' = Plain
      BY <1>1 DEF Plain, input
    <2>5. Shape' /\ Output'
      BY <1>1, <2>1, <2>2, <2>4 DEF DepInv, Shape, Output, input
    <2>6. Accounted'
      BY <1>1, <2>1 DEF DepInv, Accounted, OnPath
    <2>7. Reliable' => PassedFinished' /\ Closed'
      <3>1. Reliable' = Reliable
        BY <1>1 DEF Reliable, CycleReported, Limited, input
      <3>2. PassedFinished'
        BY <1>1, <2>1 DEF PassedFinished
      <3>3. Closed' = Closed
        BY <1>1, <2>4 DEF Closed
      <3> QED BY <3>1, <3>2, <3>3 DEF DepInv
    <2> QED BY <2>3, <2>5, <2>6, <2>7 DEF DepInv
  <1> QED BY <1>4, <1>5

LEMMA PrintStep == DepInv /\ PrintList => DepInv'
  <1> SUFFICES ASSUME DepInv, PrintList PROVE DepInv'
    OBVIOUS
  <1>1. toposort \in Seq(Vertex) /\ DOMAIN toposort = 1 .. Len(toposort) /\ Len(toposort) \in Nat
    BY SeqDomain DEF DepInv, TypeOK
  <1>2. Reversed(toposort) \in Seq(Vertex)
    <2>1. \A i \in 1 .. Len(toposort) : Len(toposort) + 1 - i \in 1 .. Len(toposort)
      BY <1>1
    <2>2. Reversed(toposort) \in [1 .. Len(toposort) -> Vertex]
      BY <1>1, <2>1 DEF Reversed
    <2> QED BY <1>1, <2>2
  <1>3. TypeOK'
    BY <1>1, <1>2 DEF DepInv, TypeOK, PrintList, input
  <1>4. Plain' = Plain
    BY DEF Plain, PrintList, input
  <1>5. Shape' /\ Output'
    BY <1>4 DEF DepInv, Shape, Output, PrintList, input
  <1>6. Accounted'
    BY DEF DepInv, Accounted, OnPath, PrintList
  <1>7. Reliable' => PassedFinished' /\ Closed'
    <2>1. UNCHANGED <<opts, warnings, visited, graph, stack, toposort>>
      BY DEF PrintList, input
    <2>2. Reliable' = Reliable
      BY <2>1 DEF Reliable, CycleReported, Limited
    <2>3. PassedFinished' = PassedFinished
      BY <2>1, <1>4 DEF PassedFinished
    <2>4. Closed' = Closed
      BY <2>1, <1>4 DEF Closed
    <2> QED BY <2>2, <2>3, <2>4 DEF DepInv
  <1> QED BY <1>3, <1>5, <1>6, <1>7 DEF DepInv

LEMMA StutterStep == DepInv /\ UNCHANGED vars => DepInv'
  <1> SUFFICES ASSUME DepInv, UNCHANGED vars PROVE DepInv'
    OBVIOUS
  <1>1. Plain' = Plain
    BY DEF vars, Plain
  <1>2. TypeOK' /\ Output'
    BY DEF vars, DepInv, TypeOK, Output
  <1>3. Shape'
    BY <1>1 DEF vars, DepInv, Shape
  <1>4. Accounted'
    BY DEF vars, DepInv, Accounted, OnPath
  <1>5. Reliable' = Reliable
    BY DEF vars, Reliable, CycleReported, Limited
  <1>6. Closed' = Closed
    BY <1>1 DEF vars, Closed
  <1>7. PassedFinished' = PassedFinished
    BY DEF vars, PassedFinished
  <1> QED BY <1>2, <1>3, <1>4, <1>5, <1>6, <1>7 DEF DepInv

LEMMA Inductive == Spec => []DepInv
  <1>1. DepInv /\ [Next]_vars => DepInv'
    BY ReadStep, SanitizeStep, SetupStep, PassStep, VisitStep, FinishStep, PostprocessStep,
       NextHintStep, PrintStep, StutterStep DEF Next
  <1> QED BY InitInv, <1>1, PTL DEF Spec

(* ------------------------------- theorems ------------------------------ *)

(* Every variable keeps its type; in particular _meta_root is never        *)
(* printed, and visit_dfs never returns from a call it did not make.       *)
THEOREM TypeCorrect == Spec => []TypeOK
  <1>1. DepInv => TypeOK
    BY DEF DepInv
  <1> QED BY Inductive, <1>1, PTL

(* What holds of the list of finished vertices when no cycle was reported. *)
LEMMA PlainDependency ==
    ASSUME DepInv, NEW v \in Vertex, NEW p \in ToSet(dep_graph[v])
    PROVE  IF opts.mode = "prereq" THEN v \in ToSet(Plain[p]) ELSE p \in ToSet(Plain[v])
  <1>1. dep_graph \in Edges /\ keys \in Seq(Vertex) /\ dep_graph[v] \in Seq(Vertex)
    BY DEF DepInv, TypeOK, Edges
  <1>2. p \in Vertex
    BY <1>1 DEF ToSet
  <1>3. v \in ToSet(keys)
    <2>1. dep_graph[v] # <<>>
      BY DEF ToSet
    <2> QED BY <2>1 DEF DepInv, Shape
  <1>4. v \in ToSet(FlipEdges(dep_graph, keys)[p])
    BY <1>1, <1>2, <1>3, FlipType
  <1> QED BY <1>4 DEF Plain

LEMMA ClosedOrder ==
    ASSUME DepInv, Reliable, NEW a \in DOMAIN toposort, NEW b \in DOMAIN toposort,
           toposort[a] \in ToSet(Plain[toposort[b]])
    PROVE  a < b
  <1>1. PICK i \in DOMAIN toposort : i < b /\ toposort[i] = toposort[a]
    BY DEF DepInv, Closed
  <1> QED BY <1>1 DEF DepInv, Accounted, Distinct

(* The printed order is one in which the files can be made, for every      *)
(* makefile and every command line without a depth limit.                  *)
THEOREM OrderIsBuildable == Spec => []Sorted
  <1>1. DepInv => Sorted
    <2> SUFFICES ASSUME DepInv, opts.check_cycles, ~Limited, ~CycleReported,
                        NEW i \in DOMAIN printed, NEW j \in DOMAIN printed,
                        printed[i] \in ToSet(dep_graph[printed[j]])
                 PROVE  IF opts.reverse THEN j < i ELSE i < j
      BY DEF Sorted
    <2> DEFINE n == Len(toposort)
    <2>1. toposort \in Seq(Vertex) /\ DOMAIN toposort = 1 .. n /\ n \in Nat /\ printed # <<>> /\ Reliable
      BY SeqDomain DEF DepInv, TypeOK, Reliable
    <2>2. printed = IF opts.reverse # (opts.mode = "prereq") THEN Reversed(toposort) ELSE toposort
      BY <2>1 DEF DepInv, Output
    <2>3. printed[j] \in Vertex
      BY DEF DepInv, TypeOK
    <2>4. IF opts.mode = "prereq" THEN printed[j] \in ToSet(Plain[printed[i]])
                                  ELSE printed[i] \in ToSet(Plain[printed[j]])
      BY <2>3, PlainDependency
    <2>5. opts.reverse \in BOOLEAN
      BY DEF DepInv, TypeOK, Options
    <2>6. CASE ~(opts.reverse # (opts.mode = "prereq"))
      <3>1. printed = toposort
        BY <2>2, <2>6
      <3>2. i < j \/ opts.mode = "prereq"
        BY <2>1, <2>4, <3>1, ClosedOrder
      <3>3. j < i \/ opts.mode # "prereq"
        BY <2>1, <2>4, <3>1, ClosedOrder
      <3>4. opts.reverse = (opts.mode = "prereq")
        BY <2>6
      <3>5. CASE opts.mode = "prereq"
        BY <3>3, <3>4, <3>5
      <3>6. CASE opts.mode # "prereq"
        BY <2>5, <3>2, <3>4, <3>6
      <3> QED BY <3>5, <3>6
    <2>7. CASE opts.reverse # (opts.mode = "prereq")
      <3>1. printed = Reversed(toposort)
        BY <2>2, <2>7
      <3>2. /\ i \in 1 .. n /\ j \in 1 .. n /\ n + 1 - i \in 1 .. n /\ n + 1 - j \in 1 .. n
            /\ printed[i] = toposort[n + 1 - i] /\ printed[j] = toposort[n + 1 - j]
        BY <2>1, <3>1 DEF Reversed
      <3>3. n + 1 - i < n + 1 - j \/ opts.mode = "prereq"
        BY <2>1, <2>4, <3>2, ClosedOrder
      <3>4. n + 1 - j < n + 1 - i \/ opts.mode # "prereq"
        BY <2>1, <2>4, <3>2, ClosedOrder
      <3>5. CASE opts.mode = "prereq"
        <4>1. i < j
          BY <2>1, <3>2, <3>4, <3>5
        <4>2. ~opts.reverse
          BY <2>5, <2>7, <3>5
        <4> QED BY <4>1, <4>2
      <3>6. CASE opts.mode # "prereq"
        <4>1. j < i
          BY <2>1, <3>2, <3>3, <3>6
        <4>2. opts.reverse
          BY <2>5, <2>7, <3>6
        <4> QED BY <4>1, <4>2
      <3> QED BY <3>5, <3>6
    <2> QED BY <2>6, <2>7
  <1> QED BY Inductive, <1>1, PTL

(* ------------------------------ reachability --------------------------- *)

Grows(f, S, g, n) ==
    /\ f[0] = S
    /\ \A k \in 1 .. n : f[k] = f[k - 1] \union Successors(f[k - 1], g)

Nearby(f, S, g, n) == f \in [0 .. n -> SUBSET Vertex] /\ Grows(f, S, g, n)

LEMMA SuccessorsType ==
    ASSUME NEW S \in SUBSET Vertex, NEW g \in [Vertex -> Seq(Vertex)]
    PROVE  Successors(S, g) \in SUBSET Vertex
  BY DEF Successors, ToSet

LEMMA NearbyExists ==
    ASSUME NEW S \in SUBSET Vertex, NEW g \in [Vertex -> Seq(Vertex)], NEW d \in Nat
    PROVE  \E f : Nearby(f, S, g, d)
  <1> DEFINE Bad == {n \in Nat : ~\E f : Nearby(f, S, g, n)}
  <1>1. SUFFICES ASSUME Bad # {} PROVE FALSE
    OBVIOUS
  <1>2. PICK m \in Bad : \A x \in Bad : m <= x
    <2>1. Bad \in SUBSET Nat
      OBVIOUS
    <2> HIDE DEF Bad
    <2> QED BY <1>1, <2>1, LeastNat
  <1>3. m # 0
    <2>1. Nearby([k \in 0 .. 0 |-> S], S, g, 0)
      BY DEF Nearby, Grows
    <2> QED BY <2>1, <1>2
  <1>4. m - 1 \in Nat /\ m - 1 \notin Bad /\ m \in Nat
    BY <1>2, <1>3
  <1>5. PICK f : Nearby(f, S, g, m - 1)
    BY <1>4
  <1> DEFINE h == [k \in 0 .. m |-> IF k < m THEN f[k] ELSE f[m - 1] \union Successors(f[m - 1], g)]
  <1>6. Nearby(h, S, g, m)
    <2>1. f \in [0 .. m - 1 -> SUBSET Vertex] /\ f[0] = S /\ m - 1 \in 0 .. m - 1
      BY <1>4, <1>5 DEF Nearby, Grows
    <2>2. f[m - 1] \union Successors(f[m - 1], g) \in SUBSET Vertex
      BY <2>1, SuccessorsType
    <2>3. h \in [0 .. m -> SUBSET Vertex] /\ h[0] = S
      BY <1>3, <1>4, <2>1, <2>2
    <2>4. ASSUME NEW k \in 1 .. m PROVE h[k] = h[k - 1] \union Successors(h[k - 1], g)
      <3>1. k - 1 \in 0 .. m /\ k - 1 < m /\ k \in 0 .. m
        BY <1>4
      <3>2. h[k - 1] = f[k - 1]
        BY <3>1
      <3>3. CASE k < m
        <4>1. k \in 1 .. m - 1
          BY <1>4, <3>3
        <4>2. f[k] = f[k - 1] \union Successors(f[k - 1], g)
          BY <1>5, <4>1 DEF Nearby, Grows
        <4> QED BY <3>1, <3>2, <3>3, <4>2
      <3>4. CASE k = m
        BY <3>1, <3>2, <3>4
      <3>5. k < m \/ k = m
        BY <1>4
      <3> QED BY <3>3, <3>4, <3>5
    <2> QED BY <2>3, <2>4 DEF Nearby, Grows
  <1> QED BY <1>2, <1>6

LEMMA NearbyUnique ==
    ASSUME NEW S \in SUBSET Vertex, NEW g, NEW d \in Nat, NEW e \in Nat, d <= e,
           NEW f, Grows(f, S, g, d), NEW h, Grows(h, S, g, e)
    PROVE  f[d] = h[d]
  <1> DEFINE Bad == {k \in 0 .. d : f[k] # h[k]}
  <1>1. SUFFICES ASSUME Bad # {} PROVE FALSE
    OBVIOUS
  <1>2. PICK m \in Bad : \A x \in Bad : m <= x
    <2>1. Bad \in SUBSET Nat
      OBVIOUS
    <2> HIDE DEF Bad
    <2> QED BY <1>1, <2>1, LeastNat
  <1>3. m # 0 /\ m \in 0 .. d
    BY <1>2 DEF Grows
  <1>4. m - 1 \in 0 .. d /\ m \in 1 .. d /\ m \in 1 .. e /\ ~(m <= m - 1)
    BY <1>3
  <1>5. f[m - 1] = h[m - 1]
    BY <1>2, <1>4
  <1>6. f[m] = h[m]
    BY <1>4, <1>5 DEF Grows
  <1> QED BY <1>2, <1>6

LEMMA WithinIs ==
    ASSUME NEW S \in SUBSET Vertex, NEW g \in [Vertex -> Seq(Vertex)], NEW d \in Nat,
           NEW f, Nearby(f, S, g, d)
    PROVE  Within(S, g, d) = f[d]
  <1> DEFINE Eq(h) == h = [k \in 0 .. d |-> IF k = 0 THEN S ELSE h[k - 1] \union Successors(h[k - 1], g)]
             near == CHOOSE h : Eq(h)
  <1>1. Eq(f)
    <2>1. f = [k \in 0 .. d |-> f[k]] /\ f[0] = S
      BY DEF Nearby, Grows
    <2>2. \A k \in 0 .. d : f[k] = IF k = 0 THEN S ELSE f[k - 1] \union Successors(f[k - 1], g)
      <3> TAKE k \in 0 .. d
      <3>1. k = 0 \/ k \in 1 .. d
        OBVIOUS
      <3>2. k \in 1 .. d => f[k] = f[k - 1] \union Successors(f[k - 1], g) /\ k # 0
        BY DEF Nearby, Grows
      <3> QED BY <2>1, <3>1, <3>2
    <2> DEFINE r == [k \in 0 .. d |-> IF k = 0 THEN S ELSE f[k - 1] \union Successors(f[k - 1], g)]
    <2>3. f = r
      BY <2>1, <2>2
    <2> QED BY <2>3
  <1>2. Eq(near)
    <2> HIDE DEF Eq
    <2> QED BY <1>1
  <1>3. Within(S, g, d) = near[d]
    BY Zenon DEF Within
  <1> HIDE DEF near
  <1>4. Grows(near, S, g, d)
    <2>1. \A k \in 0 .. d : near[k] = IF k = 0 THEN S ELSE near[k - 1] \union Successors(near[k - 1], g)
      BY <1>2, Zenon
    <2> HIDE DEF Eq
    <2>2. 0 \in 0 .. d /\ \A k \in 1 .. d : k \in 0 .. d /\ k # 0
      OBVIOUS
    <2> QED BY <2>1, <2>2, Zenon DEF Grows
  <1> HIDE DEF Eq
  <1>5. near[d] = f[d]
    <2>1. d <= d /\ Grows(f, S, g, d)
      BY DEF Nearby
    <2> QED BY <1>4, <2>1, NearbyUnique
  <1> QED BY <1>3, <1>5

(* One more step reaches the successors of what is reached so far.         *)
LEMMA WithinStep ==
    ASSUME NEW S \in SUBSET Vertex, NEW g \in [Vertex -> Seq(Vertex)]
    PROVE  /\ Within(S, g, 0) = S
           /\ \A d \in Nat : /\ Within(S, g, d) \in SUBSET Vertex
                             /\ Within(S, g, d + 1) = Within(S, g, d) \union Successors(Within(S, g, d), g)
  <1>1. Within(S, g, 0) = S
    <2>1. PICK f : Nearby(f, S, g, 0)
      BY NearbyExists
    <2>2. Within(S, g, 0) = f[0]
      BY <2>1, WithinIs
    <2> QED BY <2>1, <2>2 DEF Nearby, Grows
  <1>2. ASSUME NEW d \in Nat
        PROVE  /\ Within(S, g, d) \in SUBSET Vertex
               /\ Within(S, g, d + 1) = Within(S, g, d) \union Successors(Within(S, g, d), g)
    <2>1. PICK f : Nearby(f, S, g, d)
      BY NearbyExists
    <2>0. d + 1 \in Nat /\ d <= d + 1
      OBVIOUS
    <2>2. PICK h : Nearby(h, S, g, d + 1)
      BY <2>0, NearbyExists
    <2>3. Within(S, g, d) = f[d] /\ Within(S, g, d + 1) = h[d + 1]
      BY <2>0, <2>1, <2>2, WithinIs
    <2>4. f[d] = h[d]
      BY <2>0, <2>1, <2>2, NearbyUnique DEF Nearby
    <2>5. h[d + 1] = h[d] \union Successors(h[d], g)
      <3>1. d + 1 \in 1 .. d + 1 /\ d + 1 - 1 = d
        OBVIOUS
      <3> QED BY <2>2, <3>1 DEF Nearby, Grows
    <2>6. f[d] \in SUBSET Vertex
      BY <2>1 DEF Nearby
    <2> QED BY <2>3, <2>4, <2>5, <2>6
  <1> QED BY <1>1, <1>2

(* What holds of S and is closed under the edges holds of all it reaches.  *)
LEMMA WithinLeast ==
    ASSUME NEW S \in SUBSET Vertex, NEW g \in [Vertex -> Seq(Vertex)],
           NEW U, S \subseteq U, \A v \in U \cap Vertex : ToSet(g[v]) \subseteq U,
           NEW d \in Nat
    PROVE  Within(S, g, d) \subseteq U
  <1>0. /\ Within(S, g, 0) = S
        /\ \A k \in Nat : Within(S, g, k + 1) = Within(S, g, k) \union Successors(Within(S, g, k), g)
    BY WithinStep
  <1> DEFINE Bad == {k \in Nat : ~(Within(S, g, k) \subseteq U)}
  <1>1. SUFFICES ASSUME Bad # {} PROVE FALSE
    OBVIOUS
  <1>2. PICK m \in Bad : \A x \in Bad : m <= x
    <2>1. Bad \in SUBSET Nat
      OBVIOUS
    <2> HIDE DEF Bad
    <2> QED BY <1>1, <2>1, LeastNat
  <1>3. m # 0
    BY <1>0, <1>2
  <1>4. m - 1 \in Nat /\ m - 1 \notin Bad /\ m - 1 + 1 = m
    BY <1>2, <1>3
  <1>5. Within(S, g, m - 1) \subseteq U /\ Within(S, g, m - 1) \in SUBSET Vertex
    BY <1>4, WithinStep
  <1>6. Within(S, g, m) = Within(S, g, m - 1) \union Successors(Within(S, g, m - 1), g)
    BY <1>0, <1>4
  <1>7. Successors(Within(S, g, m - 1), g) \subseteq U
    BY <1>5 DEF Successors
  <1> QED BY <1>2, <1>5, <1>6, <1>7

LEMMA WithinMono ==
    ASSUME NEW S \in SUBSET Vertex, NEW g \in [Vertex -> Seq(Vertex)],
           NEW d \in Nat, NEW e \in Nat, d <= e
    PROVE  Within(S, g, d) \subseteq Within(S, g, e)
  <1>0. /\ Within(S, g, 0) = S
        /\ \A k \in Nat : Within(S, g, k + 1) = Within(S, g, k) \union Successors(Within(S, g, k), g)
    BY WithinStep
  <1> DEFINE Bad == {k \in Nat : d <= k /\ ~(Within(S, g, d) \subseteq Within(S, g, k))}
  <1>1. SUFFICES ASSUME Bad # {} PROVE FALSE
    OBVIOUS
  <1>2. PICK m \in Bad : \A x \in Bad : m <= x
    <2>1. Bad \in SUBSET Nat
      OBVIOUS
    <2> HIDE DEF Bad
    <2> QED BY <1>1, <2>1, LeastNat
  <1>3. m # d /\ d <= m /\ m \in Nat
    BY <1>2
  <1>4. m - 1 \in Nat /\ m - 1 \notin Bad /\ m - 1 + 1 = m /\ d <= m - 1
    BY <1>2, <1>3
  <1>5. Within(S, g, d) \subseteq Within(S, g, m - 1)
    BY <1>4
  <1>6. Within(S, g, m) = Within(S, g, m - 1) \union Successors(Within(S, g, m - 1), g)
    BY <1>0, <1>4
  <1> QED BY <1>2, <1>5, <1>6

(* As many steps as there are names reach everything that can be reached.  *)
LEMMA WithinClosed ==
    ASSUME NEW S \in SUBSET Vertex, NEW g \in [Vertex -> Seq(Vertex)]
    PROVE  /\ Successors(Within(S, g, N), g) \subseteq Within(S, g, N)
           /\ \A d \in Nat : Within(S, g, d) \subseteq Within(S, g, N)
  <1> DEFINE W(k) == Within(S, g, k)
  <1>1. N \in Nat /\ IsFiniteSet(Vertex) /\ Cardinality(Vertex) = N
    <2>1. IsFiniteSet(1 .. N) /\ Cardinality(1 .. N) = IF 1 > N THEN 0 ELSE N - 1 + 1
      BY NAssumption, FS_Interval
    <2> QED BY <2>1, NAssumption DEF Vertex
  <1>2. \A k \in Nat : /\ W(k) \in SUBSET Vertex /\ W(k + 1) = W(k) \union Successors(W(k), g)
                       /\ IsFiniteSet(W(k)) /\ Cardinality(W(k)) \in Nat
    <2> TAKE k \in Nat
    <2>1. W(k) \in SUBSET Vertex /\ W(k + 1) = W(k) \union Successors(W(k), g)
      BY WithinStep
    <2>2. IsFiniteSet(W(k))
      BY <1>1, <2>1, FS_Subset
    <2> QED BY <2>1, <2>2, FS_CardinalityType
  <1>3. ASSUME NEW k \in 0 .. N, W(k + 1) = W(k)
        PROVE  \A d \in Nat : W(d) \subseteq W(N)
    <2>1. k \in Nat /\ W(k) \in SUBSET Vertex /\ Successors(W(k), g) \subseteq W(k) /\ S \subseteq W(k)
      <3>1. k \in Nat /\ 0 <= k
        BY <1>1
      <3>2. Within(S, g, 0) \subseteq Within(S, g, k)
        BY <3>1, WithinMono
      <3>3. S \subseteq W(k)
        BY <3>2, WithinStep
      <3>4. W(k) \in SUBSET Vertex /\ W(k + 1) = W(k) \union Successors(W(k), g)
        BY <1>2, <3>1
      <3> HIDE DEF W
      <3> QED BY <1>3, <3>1, <3>3, <3>4
    <2> DEFINE U == W(k)
    <2>2. \A v \in U \cap Vertex : ToSet(g[v]) \subseteq U
      BY <2>1 DEF Successors
    <2>3. S \subseteq U
      BY <2>1
    <2> TAKE d \in Nat
    <2>4. Within(S, g, d) \subseteq U
      <3> HIDE DEF U
      <3> QED BY <2>2, <2>3, WithinLeast
    <2>5. U \subseteq W(N)
      <3>1. k <= N
        BY <1>1
      <3> QED BY <1>1, <2>1, <3>1, WithinMono
    <2> QED BY <2>4, <2>5
  <1>4. ASSUME \A k \in 0 .. N : W(k + 1) # W(k) PROVE FALSE
    <2> DEFINE Bad == {k \in 0 .. N + 1 : ~(Cardinality(W(k)) >= k)}
    <2> HIDE DEF W
    <2>1. Bad # {}
      <3>1. N + 1 \in Nat /\ N + 1 \in 0 .. N + 1
        BY <1>1
      <3>2. W(N + 1) \in SUBSET Vertex
        BY <1>2, <3>1
      <3>3. Cardinality(W(N + 1)) <= N /\ Cardinality(W(N + 1)) \in Nat
        BY <1>1, <1>2, <3>1, <3>2, FS_Subset
      <3> QED BY <1>1, <3>1, <3>3
    <2>2. PICK m \in Bad : \A x \in Bad : m <= x
      <3>1. Bad \in SUBSET Nat
        BY <1>1
      <3> HIDE DEF Bad
      <3> QED BY <2>1, <3>1, LeastNat
    <2>3. m # 0
      <3>1. Cardinality(W(0)) >= 0
        BY <1>2
      <3> QED BY <2>2, <3>1
    <2>4. m \in Nat /\ m - 1 \in 0 .. N /\ m - 1 \in Nat /\ m - 1 \in 0 .. N + 1 /\ m - 1 + 1 = m /\ ~(m <= m - 1)
      BY <1>1, <2>2, <2>3
    <2>5. Cardinality(W(m - 1)) >= m - 1
      BY <2>2, <2>4
    <2>6. W(m - 1) \subseteq W(m) /\ W(m - 1) # W(m)
      BY <1>2, <1>4, <2>4
    <2>7. /\ Cardinality(W(m - 1)) <= Cardinality(W(m)) /\ Cardinality(W(m)) # Cardinality(W(m - 1))
          /\ Cardinality(W(m)) \in Nat /\ Cardinality(W(m - 1)) \in Nat
      BY <1>2, <2>4, <2>6, FS_Subset
    <2>8. Cardinality(W(m)) >= m
      BY <2>4, <2>5, <2>7
    <2> QED BY <2>2, <2>8
  <1>5. \A d \in Nat : W(d) \subseteq W(N)
    <2> HIDE DEF W
    <2> QED BY <1>3, <1>4
  <1>6. Successors(W(N), g) \subseteq W(N)
    <2>1. N + 1 \in Nat
      BY <1>1
    <2> HIDE DEF W
    <2> QED BY <1>1, <1>2, <1>5, <2>1
  <1> QED BY <1>5, <1>6

(* ------------------ the invariants of the traversal ------------------- *)

(* The traversal has begun, or main has come to its end through it.        *)
Started == pc \in {"visit", "hints"} \/ (pc = "done" /\ keys # <<>>)

(* Before the traversal there is nothing to show for it, and after it no   *)
(* name is left whose hints main has not come to.                          *)
Idle == toposort = <<>> /\ printed = <<>> /\ warnings = {} /\ \A v \in Vertex : visited[v] = Unseen

Ended ==
    /\ pending = {}
    /\ printed = IF opts.reverse # (opts.mode = "prereq") THEN Reversed(toposort) ELSE toposort

HintKeys == \A v \in Vertex : ToSet(extra[v]) # {} => v \in ToSet(extra_keys)

(* The graph lies between the one of the normal prerequisites and the one  *)
(* with the hints, and has all hints of a name that is no longer pending.  *)
Between ==
    \A v \in Vertex :
        /\ ToSet(Plain[v]) \subseteq ToSet(graph[v])
        /\ ToSet(graph[v]) \subseteq ToSet(AllEdges[v])
        /\ v \in pending \/ ToSet(Hints[v]) \subseteq ToSet(graph[v])

Path == \A i \in 1 .. Len(stack) - 1 : stack[i + 1].vertex \in ToSet(graph[stack[i].vertex])

GraphInv ==
    /\ HintKeys
    /\ pc \in {"setup", "visit", "hints"} => keys # <<>>
    /\ ~Started => Idle
    /\ Started => Between /\ Path
    /\ Started /\ pc = "done" => Ended

(* A visited name is within the depth of its visit of the requested names, *)
(* and the children of an open call are one step farther.                  *)
Requested == ToSet(StartNodes)
Near(d) == Within(Requested, AllEdges, d)

DepthInv ==
    Started =>
        /\ \A v \in Vertex : visited[v] # Unseen => /\ visited[v] \in Nat /\ ~Beyond(visited[v])
                                                    /\ v \in Near(visited[v])
        /\ \A i \in DOMAIN stack : ToSet(graph[stack[i].vertex]) \subseteq Near(stack[i].depth + 1)

(* A name is visited, or the call of _meta_root has still to come to it.   *)
Ahead == IF pc = "visit"
         THEN {graph[MetaRoot][k] : k \in stack[1].next .. Len(graph[MetaRoot])} ELSE {}
Settled(w) == visited[w] # Unseen \/ w \in Ahead

(* Without a depth limit no name is left out: the requested names, the     *)
(* children that an open call has come past, the prerequisites of what is  *)
(* finished and, once it is no longer pending, its hints.                  *)
TakenInv ==
    Started /\ ~Limited =>
        /\ \A w \in Requested : Settled(w)
        /\ \A i \in DOMAIN stack : \A k \in 1 .. stack[i].next - 1 :
               visited[graph[stack[i].vertex][k]] # Unseen
        /\ \A v \in ToSet(toposort) :
               /\ \A w \in ToSet(Plain[v]) : visited[w] # Unseen
               /\ v \in pending \/ \A w \in ToSet(Hints[v]) : Settled(w)

(* What has been reported is a cycle.                                      *)
RealCycles ==
    Started => \A v \in Vertex : <<"cycle", v>> \in warnings => Circular(v, AllEdges)

(* The checks have been made of every visited name, and between two        *)
(* traversals the visited names have been compared.                        *)
Found(c, v) == {p \in ToSet(dep_graph[v]) : \E i \in DOMAIN c.any : p \in c.any[i]}

Checked ==
    /\ \A v \in Vertex : visited[v] # Unseen =>
           /\ \A c \in opts.unique_prereq :
                  v \in c.of /\ Cardinality(Found(c, v)) > 1 => <<"unique", v>> \in warnings
           /\ \A c \in opts.exists_prereq :
                  v \in c.of /\ Found(c, v) = {} /\ ToSet(extra[v]) = {} => <<"exists", v>> \in warnings
    /\ pc # "visit" =>
           \A v, w \in Vertex : \A g \in opts.unique_basename :
               visited[v] # Unseen /\ visited[w] # Unseen /\ v # w /\ {v, w} \subseteq g
                   /\ Basename[v] = Basename[w] => <<"basename", v>> \in warnings

(* --------------------------- what a step moves ------------------------- *)

LEMMA EdgeFacts ==
    ASSUME DepInv
    PROVE  /\ Plain \in [Vertex -> Seq(Vertex)] /\ Hints \in [Vertex -> Seq(Vertex)]
           /\ AllEdges \in [Vertex -> Seq(Vertex)]
           /\ \A v \in Vertex : ToSet(AllEdges[v]) = ToSet(Plain[v]) \union ToSet(Hints[v])
           /\ StartNodes \in Seq(Vertex) /\ Requested \in SUBSET Vertex
  <1>1. Plain \in [Vertex -> Seq(Vertex)] /\ Hints \in [Vertex -> Seq(Vertex)]
    BY PlainType DEF DepInv, TypeOK, Edges
  <1>2. \A v \in Vertex : /\ Plain[v] \o Hints[v] \in Seq(Vertex)
                          /\ ToSet(Plain[v] \o Hints[v]) = ToSet(Plain[v]) \union ToSet(Hints[v])
    BY <1>1, SeqFacts
  <1>3. StartNodes \in Seq(Vertex)
    <2>1. [i \in Vertex |-> i] \in Seq(Vertex)
      BY NAssumption DEF Vertex
    <2>2. opts.names \in Seq(Vertex)
      BY DEF DepInv, TypeOK, Options
    <2> QED BY <2>1, <2>2, FilterFacts DEF StartNodes
  <1>4. Requested \in SUBSET Vertex
    BY <1>3 DEF Requested, ToSet
  <1> QED BY <1>1, <1>2, <1>3, <1>4 DEF AllEdges

(* What is derived from the input alone does not change once it is read.   *)
LEMMA InputKept ==
    ASSUME UNCHANGED input
    PROVE  /\ Plain' = Plain /\ Hints' = Hints /\ AllEdges' = AllEdges /\ StartNodes' = StartNodes
           /\ Requested' = Requested /\ Limited' = Limited /\ opts' = opts /\ keys' = keys
           /\ extra' = extra /\ extra_keys' = extra_keys /\ dep_graph' = dep_graph
           /\ \A d : Beyond(d)' = Beyond(d) /\ Near(d)' = Near(d)
  <1>1. opts' = opts /\ keys' = keys /\ extra' = extra /\ extra_keys' = extra_keys /\ dep_graph' = dep_graph
    BY DEF input
  <1>2. Plain' = Plain /\ Hints' = Hints /\ StartNodes' = StartNodes /\ Limited' = Limited
    BY <1>1 DEF Plain, Hints, StartNodes, Known, Limited
  <1>3. AllEdges' = AllEdges /\ Requested' = Requested
    BY <1>2 DEF AllEdges, Requested
  <1>4. \A d : Beyond(d)' = Beyond(d) /\ Near(d)' = Near(d)
    BY <1>1, <1>2, <1>3 DEF Beyond, Near
  <1> QED BY <1>1, <1>2, <1>3, <1>4

LEMMA Frames1 ==
    ASSUME DepInv, pc = "visit"
    PROVE  /\ Len(stack) \in Nat \ {0} /\ DOMAIN stack = 1 .. Len(stack)
           /\ Top = stack[Len(stack)]
           /\ \A i \in 1 .. Len(stack) :
                 /\ stack[i].vertex \in Node /\ stack[i].next \in Nat \ {0} /\ stack[i].depth \in Int
                 /\ stack[i].depth >= -1
                 /\ graph[stack[i].vertex] \in Seq(Vertex)
                 /\ stack[i].vertex = MetaRoot <=> i = 1
           /\ HasChild => Child \in Vertex /\ Child \in ToSet(graph[Top.vertex])
  <1>1. stack \in Seq(Frames) /\ stack # <<>> /\ graph \in [Node -> Seq(Vertex)]
    BY DEF DepInv, TypeOK
  <1>2. /\ Len(stack) \in Nat \ {0} /\ DOMAIN stack = 1 .. Len(stack)
        /\ \A i \in 1 .. Len(stack) : stack[i] \in Frames
    BY <1>1, StackFacts
  <1>3. ASSUME NEW i \in 1 .. Len(stack)
        PROVE  /\ stack[i].vertex \in Node /\ stack[i].next \in Nat \ {0} /\ stack[i].depth \in Int
               /\ stack[i].depth >= -1
               /\ graph[stack[i].vertex] \in Seq(Vertex)
               /\ stack[i].vertex = MetaRoot <=> i = 1
    <2>1. stack[i] \in Frames /\ i \in DOMAIN stack
      BY <1>2
    <2>2. stack[i].vertex \in Node /\ stack[i].next \in Nat \ {0} /\ stack[i].depth \in Int
      BY <2>1 DEF Frames
    <2>3. stack[i].depth >= -1 /\ (stack[i].vertex = MetaRoot <=> i = 1)
      BY <2>1 DEF DepInv, Shape
    <2> QED BY <1>1, <2>2, <2>3
  <1>4. ASSUME HasChild PROVE Child \in Vertex /\ Child \in ToSet(graph[Top.vertex])
    <2>1. Child \in Vertex /\ Top.next \in Nat \ {0} /\ graph[Top.vertex] \in Seq(Vertex)
      BY <1>4, ChildFacts
    <2> QED BY <1>4, <2>1 DEF HasChild, Child, ToSet
  <1> QED BY <1>2, <1>3, <1>4 DEF Top

LEMMA PassMoves ==
    ASSUME DepInv, TooDeep \/ Skip
    PROVE  /\ pc = "visit" /\ HasChild
           /\ UNCHANGED <<input, pc, graph, pending, visited, toposort, printed>>
           /\ Len(stack') = Len(stack) /\ DOMAIN stack' = 1 .. Len(stack)
           /\ \A i \in 1 .. Len(stack) :
                 /\ stack'[i].vertex = stack[i].vertex
                 /\ stack'[i].depth = stack[i].depth
                 /\ stack'[i].next = IF i = Len(stack) THEN stack[i].next + 1 ELSE stack[i].next
  <1>1. /\ pc = "visit" /\ HasChild /\ stack' = Advanced
        /\ UNCHANGED <<input, pc, graph, pending, visited, toposort, printed>>
    BY DEF TooDeep, Skip
  <1>2. stack \in Seq(Frames) /\ stack # <<>>
    BY <1>1, ChildFacts
  <1>3. /\ Advanced \in Seq(Frames) /\ Len(Advanced) = Len(stack)
        /\ \A i \in 1 .. Len(stack) :
              /\ Advanced[i].vertex = stack[i].vertex
              /\ Advanced[i].depth = stack[i].depth
              /\ Advanced[i].next = IF i = Len(stack) THEN stack[i].next + 1 ELSE stack[i].next
    BY <1>2, StackFacts
  <1>4. DOMAIN Advanced = 1 .. Len(stack)
    BY <1>3, SeqDomain
  <1> QED BY <1>1, <1>3, <1>4

LEMMA VisitMoves ==
    ASSUME DepInv, Visit
    PROVE  /\ pc = "visit" /\ HasChild /\ visited[Child] = Unseen /\ ~Beyond(Top.depth + 1)
           /\ UNCHANGED <<input, pc, graph, pending, toposort, printed>>
           /\ visited' = [visited EXCEPT ![Child] = Top.depth + 1]
           /\ warnings' = warnings \union StartVisit(Child)
           /\ Len(stack') = Len(stack) + 1 /\ DOMAIN stack' = 1 .. Len(stack) + 1
           /\ \A i \in 1 .. Len(stack) :
                 /\ stack'[i].vertex = stack[i].vertex
                 /\ stack'[i].depth = stack[i].depth
                 /\ stack'[i].next = IF i = Len(stack) THEN stack[i].next + 1 ELSE stack[i].next
           /\ stack'[Len(stack) + 1].vertex = Child
           /\ stack'[Len(stack) + 1].depth = Top.depth + 1
           /\ stack'[Len(stack) + 1].next = 1
  <1> DEFINE new == Frame(Child, Top.depth + 1)
  <1>1. /\ pc = "visit" /\ HasChild /\ visited[Child] = Unseen /\ ~Beyond(Top.depth + 1)
        /\ visited' = [visited EXCEPT ![Child] = Top.depth + 1]
        /\ stack' = Append(Advanced, new)
        /\ warnings' = warnings \union StartVisit(Child)
        /\ UNCHANGED <<input, pc, graph, pending, toposort, printed>>
    BY DEF Visit
  <1>2. stack \in Seq(Frames) /\ stack # <<>> /\ Child \in Vertex /\ Top.depth \in Int
    BY <1>1, ChildFacts
  <1>3. new \in Frames /\ new.vertex = Child /\ new.next = 1 /\ new.depth = Top.depth + 1
    BY <1>2 DEF Frame, Frames, Node
  <1> HIDE DEF new
  <1>4. /\ Advanced \in Seq(Frames) /\ Len(Advanced) = Len(stack) /\ Len(stack) \in Nat
        /\ \A i \in 1 .. Len(stack) :
              /\ Advanced[i].vertex = stack[i].vertex
              /\ Advanced[i].depth = stack[i].depth
              /\ Advanced[i].next = IF i = Len(stack) THEN stack[i].next + 1 ELSE stack[i].next
    BY <1>2, StackFacts
  <1>5. /\ Append(Advanced, new) \in Seq(Frames) /\ Len(Append(Advanced, new)) = Len(Advanced) + 1
        /\ DOMAIN Append(Advanced, new) = 1 .. Len(Advanced) + 1
        /\ \A i \in 1 .. Len(Advanced) : Append(Advanced, new)[i] = Advanced[i]
        /\ Append(Advanced, new)[Len(Advanced) + 1] = new
    BY <1>3, <1>4, AppendFacts
  <1> QED BY <1>1, <1>3, <1>4, <1>5

LEMMA FinishMoves ==
    ASSUME DepInv, Finish
    PROVE  /\ pc = "visit" /\ ~HasChild /\ Top.vertex \in Vertex /\ Len(stack) > 1
           /\ UNCHANGED <<input, pc, graph, pending, visited, warnings, printed>>
           /\ Len(stack') = Len(stack) - 1 /\ DOMAIN stack' = 1 .. Len(stack) - 1
           /\ \A i \in 1 .. Len(stack) - 1 : stack'[i] = stack[i]
           /\ ToSet(toposort') = ToSet(toposort) \union {Top.vertex}
  <1>1. /\ pc = "visit" /\ ~HasChild /\ Top.vertex # MetaRoot
        /\ stack' = Popped /\ toposort' = Append(toposort, Top.vertex)
        /\ UNCHANGED <<input, pc, graph, pending, visited, warnings, printed>>
    BY DEF Finish
  <1>2. /\ stack \in Seq(Frames) /\ stack # <<>> /\ Top.vertex \in Node
        /\ (Top.vertex = MetaRoot <=> Len(stack) = 1)
    BY <1>1, ChildFacts
  <1>3. /\ Len(stack) \in Nat \ {0} /\ Popped \in Seq(Frames) /\ Len(Popped) = Len(stack) - 1
        /\ \A i \in 1 .. Len(stack) - 1 : Popped[i] = stack[i]
    BY <1>2, StackFacts
  <1>4. DOMAIN Popped = 1 .. Len(stack) - 1
    BY <1>3, SeqDomain
  <1>5. Top.vertex \in Vertex /\ Len(stack) > 1
    BY <1>1, <1>2, <1>3 DEF Node
  <1>6. ToSet(toposort') = ToSet(toposort) \union {Top.vertex}
    <2>1. toposort \in Seq(Vertex)
      BY DEF DepInv, TypeOK
    <2> QED BY <1>1, <1>5, <2>1, AppendFacts
  <1> QED BY <1>1, <1>3, <1>4, <1>5, <1>6

LEMMA PostMoves ==
    ASSUME DepInv, Postprocess
    PROVE  /\ pc = "visit" /\ pc' = "hints" /\ ~HasChild /\ Top.vertex = MetaRoot /\ Len(stack) = 1
           /\ UNCHANGED <<input, graph, pending, visited, toposort, printed>>
           /\ stack' = <<>> /\ Len(stack') = 0 /\ DOMAIN stack' = {}
           /\ warnings' = warnings \union
                {<<"basename", v>> : v \in UNION {SameBasename(g) : g \in opts.unique_basename}}
           /\ \A v \in Vertex : ~OnPath(v)
  <1>1. /\ pc = "visit" /\ ~HasChild /\ Top.vertex = MetaRoot /\ pc' = "hints" /\ stack' = Popped
        /\ warnings' = warnings \union
                {<<"basename", v>> : v \in UNION {SameBasename(g) : g \in opts.unique_basename}}
        /\ UNCHANGED <<input, graph, pending, visited, toposort, printed>>
    BY DEF Postprocess
  <1>2. stack \in Seq(Frames) /\ stack # <<>> /\ Len(stack) = 1
    BY <1>1, ChildFacts
  <1>3. Popped \in Seq(Frames) /\ Len(Popped) = 0
    BY <1>2, StackFacts
  <1>4. DOMAIN stack = {1} /\ stack[1].vertex = MetaRoot
    BY <1>1, <1>2 DEF Top
  <1>5. \A v \in Vertex : ~OnPath(v)
    BY <1>4 DEF OnPath, MetaRoot, Vertex
  <1>6. Popped = <<>>
    BY <1>3
  <1> QED BY <1>1, <1>2, <1>3, <1>5, <1>6

LEMMA TraverseMoves ==
    ASSUME DepInv, NEW g \in [Node -> Seq(Vertex)], NEW starts \in Seq(Vertex), NEW d \in Int,
           Traverse(g, starts, d)
    PROVE  /\ pc' = "visit"
           /\ DOMAIN stack' = {1} /\ Len(stack') = 1
           /\ stack'[1].vertex = MetaRoot /\ stack'[1].next = 1 /\ stack'[1].depth = d
           /\ graph'[MetaRoot] = starts
           /\ \A v \in Vertex : graph'[v] = g[v] /\ visited'[v] = visited[v]
  BY DEF Traverse, Frame, MetaRoot, Vertex, Node, DepInv, TypeOK

(* ---------------------- the graph and the open calls ------------------- *)

LEMMA HintsPending ==
    ASSUME DepInv, HintKeys, NEW v \in Vertex, ToSet(Hints[v]) # {}
    PROVE  v \in ToSet(extra_keys) \union UNION {ToSet(extra[u]) : u \in Vertex}
  <1>1. extra \in Edges /\ extra_keys \in Seq(Vertex)
    BY DEF DepInv, TypeOK
  <1>2. CASE opts.mode = "prereq"
    <2>1. Hints = FlipEdges(extra, extra_keys)
      BY <1>2 DEF Hints
    <2>2. ToSet(Hints[v]) = {p \in ToSet(extra_keys) \cap Vertex : v \in ToSet(extra[p])}
      BY <1>1, <2>1, FlipType
    <2> QED BY <2>2
  <1>3. CASE opts.mode # "prereq"
    BY <1>3 DEF Hints, HintKeys
  <1> QED BY <1>2, <1>3

LEMMA GraphInit == Init => GraphInv
  BY DEF Init, GraphInv, HintKeys, Started, Idle, NoEdges, ToSet, Vertex, Node

LEMMA GraphRead == DepInv /\ GraphInv /\ (ReadRule \/ Sanitize) => GraphInv'
  <1> SUFFICES ASSUME DepInv, GraphInv, ReadRule \/ Sanitize PROVE GraphInv'
    OBVIOUS
  <1>1. /\ pc = "read" /\ UNCHANGED <<toposort, printed, warnings, visited>>
        /\ ~Started /\ ~Started'
    BY DEF ReadRule, Sanitize, Started
  <1>2. Idle'
    BY <1>1 DEF GraphInv, Idle
  <1>6. pc' \in {"setup", "visit", "hints"} => keys' # <<>>
    BY DEF ReadRule, Sanitize
  <1>3. extra \in Edges /\ extra_keys \in Seq(Vertex) /\ \A v \in Vertex : extra[v] \in Seq(Vertex)
    BY DEF DepInv, TypeOK, Edges
  <1>4. CASE Sanitize
    <2>1. \A v \in Vertex : ToSet(Dedupe(extra[v])) = ToSet(extra[v])
      BY <1>3, DedupeFacts
    <2>2. \A v \in Vertex : extra'[v] = Dedupe(extra[v])
      BY <1>4 DEF Sanitize, SanitizeGraph
    <2>3. extra_keys' = extra_keys
      BY <1>4 DEF Sanitize
    <2> QED BY <1>1, <1>2, <1>6, <2>1, <2>2, <2>3 DEF GraphInv, HintKeys
  <1>5. CASE ReadRule
    <2> DEFINE r == Head(rules)
               hints == IF opts.ignore_hints THEN <<>> ELSE r.hint
               new == IF hints = <<>> THEN {} ELSE r.targets
    <2>1. extra_keys' \in WithKeys(extra_keys, new) /\ extra' = Extended(extra, r.targets, hints)
      BY <1>5 DEF ReadRule
    <2>2. r.targets \in SUBSET Vertex /\ hints \in Seq(Vertex)
      <3>1. rules \in Seq(Rule) /\ rules # <<>>
        BY <1>5 DEF ReadRule, DepInv, TypeOK
      <3>2. r \in Rule
        BY <3>1
      <3> HIDE DEF r
      <3> QED BY <3>2 DEF Rule
    <2> HIDE DEF r, hints
    <2>3. ToSet(extra_keys') = ToSet(extra_keys) \union new
      <3>1. new \in SUBSET Vertex
        BY <2>2
      <3> HIDE DEF new
      <3> QED BY <1>3, <2>1, <3>1, WithKeysFacts
    <2>4. ASSUME NEW v \in Vertex, ToSet(extra'[v]) # {}, ToSet(extra[v]) = {} PROVE v \in new
      <3>1. v \in r.targets /\ extra'[v] = extra[v] \o hints
        BY <2>1, <2>4 DEF Extended
      <3>2. ToSet(extra'[v]) = ToSet(extra[v]) \union ToSet(hints)
        BY <1>3, <2>2, <3>1, SeqFacts
      <3>3. hints # <<>>
        BY <2>2, <2>4, <3>2, EmptyToSet
      <3> QED BY <3>1, <3>3
    <2>5. HintKeys'
      BY <2>3, <2>4 DEF GraphInv, HintKeys
    <2> QED BY <1>1, <1>2, <1>6, <2>5 DEF GraphInv
  <1> QED BY <1>4, <1>5

(* A traversal begins along a graph that lies between the two others.      *)
LEMMA GraphTraverse ==
    ASSUME DepInv, GraphInv, NEW g \in [Node -> Seq(Vertex)], NEW starts \in Seq(Vertex), NEW d \in Int,
           Traverse(g, starts, d), UNCHANGED input, keys # <<>>,
           \A v \in Vertex : /\ ToSet(Plain[v]) \subseteq ToSet(g[v])
                             /\ ToSet(g[v]) \subseteq ToSet(AllEdges[v])
                             /\ v \in pending' \/ ToSet(Hints[v]) \subseteq ToSet(g[v])
    PROVE  GraphInv'
  <1>1. /\ pc' = "visit" /\ Len(stack') = 1
        /\ \A v \in Vertex : graph'[v] = g[v]
    BY TraverseMoves
  <1>2. HintKeys' /\ Started' /\ keys' # <<>>
    BY <1>1, InputKept DEF GraphInv, HintKeys, Started
  <1>3. Between'
    BY <1>1, InputKept DEF Between
  <1>4. Path'
    BY <1>1 DEF Path
  <1> QED BY <1>1, <1>2, <1>3, <1>4 DEF GraphInv

LEMMA SetupTraverse ==
    ASSUME DepInv, GraphInv, Setup
    PROVE  /\ UNCHANGED <<input, toposort, warnings, printed>> /\ stack = <<>>
           /\ \E g \in [Node -> Seq(Vertex)] :
                 /\ Traverse(g, StartNodes, -1)
                 /\ \A v \in Vertex : g[v] = Plain[v]
           /\ \A v \in Vertex : v \in pending' \/ ToSet(Hints[v]) = {}
  <1> DEFINE g == [v \in Node |-> IF v = MetaRoot THEN <<>> ELSE Plain[v]]
  <1>1. UNCHANGED <<input, toposort, warnings, printed>> /\ stack = <<>> /\ Traverse(g, StartNodes, -1)
    BY DEF Setup, input, DepInv, Shape
  <1>2. g \in [Node -> Seq(Vertex)] /\ \A v \in Vertex : g[v] = Plain[v]
    <2>1. \A v \in Vertex : v # MetaRoot /\ v \in Node /\ Plain[v] \in Seq(Vertex)
      BY EdgeFacts DEF MetaRoot, Vertex, Node
    <2> QED BY <2>1 DEF Node
  <1>3. \A v \in Vertex : v \in pending' \/ ToSet(Hints[v]) = {}
    <2>1. pending' = ToSet(extra_keys) \union UNION {ToSet(extra[v]) : v \in Vertex}
      BY DEF Setup
    <2> QED BY <2>1, HintsPending DEF GraphInv
  <1> HIDE DEF g
  <1> QED BY <1>1, <1>2, <1>3

LEMMA HintTraverse ==
    ASSUME DepInv, GraphInv, NextHint
    PROVE  /\ pc = "hints" /\ UNCHANGED <<input, toposort, warnings, printed>> /\ stack = <<>>
           /\ Hinted \in [Node -> Seq(Vertex)]
           /\ \A v \in Vertex : ToSet(Hinted[v]) = ToSet(graph[v]) \union ToSet(Hints[v])
           /\ \E t \in pending :
                 /\ t \in Vertex /\ pending' = pending \ {t}
                 /\ \/ visited[t] = Unseen /\ graph' = Hinted /\ UNCHANGED <<pc, visited, stack>>
                    \/ visited[t] # Unseen /\ Traverse(Hinted, Hints[t], visited[t])
  <1>1. pc = "hints" /\ UNCHANGED <<input, toposort, warnings, printed>> /\ stack = <<>>
    BY DEF NextHint, DepInv, Shape
  <1>2. Hinted \in [Node -> Seq(Vertex)]
    BY <1>1, HintedFacts
  <1>3. ASSUME NEW v \in Vertex PROVE ToSet(Hinted[v]) = ToSet(graph[v]) \union ToSet(Hints[v])
    <2>0. v # MetaRoot /\ v \in Node
      BY DEF Node, MetaRoot, Vertex
    <2>1. graph[v] \in Seq(Vertex) /\ Hints[v] \in Seq(Vertex) /\ v # MetaRoot /\ v \in Node
      BY <2>0, EdgeFacts DEF DepInv, TypeOK
    <2>2. /\ graph[v] \o Hints[v] \in Seq(Vertex)
          /\ ToSet(graph[v] \o Hints[v]) = ToSet(graph[v]) \union ToSet(Hints[v])
      BY <2>1, SeqFacts
    <2>3. ToSet(Dedupe(graph[v] \o Hints[v])) = ToSet(graph[v] \o Hints[v])
      BY <2>2, DedupeFacts
    <2> QED BY <2>1, <2>2, <2>3 DEF Hinted
  <1>4. PICK t \in pending :
          /\ pending' = pending \ {t}
          /\ IF visited[t] = Unseen
             THEN graph' = Hinted /\ UNCHANGED <<pc, visited, stack>>
             ELSE Traverse(Hinted, Hints[t], visited[t])
    BY DEF NextHint
  <1>5. t \in Vertex
    BY DEF DepInv, TypeOK
  <1> QED BY <1>1, <1>2, <1>3, <1>4, <1>5

LEMMA GraphSetup == DepInv /\ GraphInv /\ Setup => GraphInv'
  <1> SUFFICES ASSUME DepInv, GraphInv, Setup PROVE GraphInv'
    OBVIOUS
  <1>1. PICK g \in [Node -> Seq(Vertex)] :
           /\ Traverse(g, StartNodes, -1)
           /\ \A v \in Vertex : g[v] = Plain[v]
    BY SetupTraverse
  <1>2. UNCHANGED input /\ StartNodes \in Seq(Vertex) /\ -1 \in Int
    BY SetupTraverse, EdgeFacts
  <1>4. keys # <<>>
    BY DEF Setup, GraphInv
  <1>3. \A v \in Vertex : /\ ToSet(Plain[v]) \subseteq ToSet(g[v])
                          /\ ToSet(g[v]) \subseteq ToSet(AllEdges[v])
                          /\ v \in pending' \/ ToSet(Hints[v]) \subseteq ToSet(g[v])
    BY <1>1, SetupTraverse, EdgeFacts
  <1> QED BY <1>1, <1>2, <1>3, <1>4, GraphTraverse

LEMMA GraphHint == DepInv /\ GraphInv /\ NextHint => GraphInv'
  <1> SUFFICES ASSUME DepInv, GraphInv, NextHint PROVE GraphInv'
    OBVIOUS
  <1>1. /\ pc = "hints" /\ UNCHANGED <<input, toposort, warnings, printed>> /\ stack = <<>>
        /\ Hinted \in [Node -> Seq(Vertex)]
        /\ \A v \in Vertex : ToSet(Hinted[v]) = ToSet(graph[v]) \union ToSet(Hints[v])
    BY HintTraverse
  <1>2. PICK t \in Vertex :
           \/ visited[t] = Unseen /\ graph' = Hinted /\ UNCHANGED <<pc, visited, stack>>
           \/ visited[t] # Unseen /\ Traverse(Hinted, Hints[t], visited[t])
    BY HintTraverse
  <1>3. Between /\ keys # <<>>
    BY <1>1 DEF GraphInv, Started
  <1>4. \A v \in Vertex : /\ ToSet(Plain[v]) \subseteq ToSet(Hinted[v])
                          /\ ToSet(Hinted[v]) \subseteq ToSet(AllEdges[v])
                          /\ ToSet(Hints[v]) \subseteq ToSet(Hinted[v])
    BY <1>1, <1>3, EdgeFacts DEF Between
  <1>5. CASE graph' = Hinted /\ UNCHANGED <<pc, visited, stack>>
    <2>1. HintKeys' /\ Started' /\ pc' = "hints" /\ keys' # <<>>
      BY <1>1, <1>3, <1>5, InputKept DEF GraphInv, HintKeys, Started
    <2>2. Between'
      BY <1>1, <1>4, <1>5, InputKept DEF Between
    <2>3. Path'
      BY <1>1, <1>5 DEF Path
    <2> QED BY <2>1, <2>2, <2>3 DEF GraphInv
  <1>6. CASE Traverse(Hinted, Hints[t], visited[t])
    <2>1. Hints[t] \in Seq(Vertex) /\ visited[t] \in Int
      BY EdgeFacts DEF DepInv, TypeOK, Node
    <2> QED BY <1>1, <1>3, <1>4, <1>6, <2>1, GraphTraverse
  <1> QED BY <1>2, <1>5, <1>6

LEMMA GraphWalk == DepInv /\ GraphInv /\ (TooDeep \/ Skip \/ Visit \/ Finish \/ Postprocess) => GraphInv'
  <1> SUFFICES ASSUME DepInv, GraphInv, TooDeep \/ Skip \/ Visit \/ Finish \/ Postprocess PROVE GraphInv'
    OBVIOUS
  <1>1. pc = "visit" /\ pc' \in {"visit", "hints"} /\ UNCHANGED <<input, graph, pending>>
    BY PassMoves, VisitMoves, FinishMoves, PostMoves
  <1>2. HintKeys' /\ Started /\ Started' /\ pc' # "done" /\ keys' # <<>>
    BY <1>1, InputKept DEF GraphInv, HintKeys, Started
  <1>3. Between'
    BY <1>1, <1>2, InputKept DEF GraphInv, Between
  <1>4. Path'
    <2> DEFINE n == Len(stack)
    <2>1. n \in Nat \ {0} /\ Path
      BY <1>1, <1>2, Frames1 DEF GraphInv
    <2>2. CASE TooDeep \/ Skip
      <3>1. Len(stack') = n /\ \A i \in 1 .. n : stack'[i].vertex = stack[i].vertex
        BY <2>2, PassMoves
      <3> HIDE DEF n
      <3>2. \A i \in 1 .. n - 1 : i \in 1 .. n /\ i + 1 \in 1 .. n
        BY <2>1
      <3> QED BY <1>1, <2>1, <3>1, <3>2 DEF Path, n
    <2>3. CASE Visit
      <3>1. /\ Len(stack') = n + 1 /\ \A i \in 1 .. n : stack'[i].vertex = stack[i].vertex
            /\ stack'[n + 1].vertex = Child /\ HasChild
        BY <2>3, VisitMoves
      <3>2. Child \in ToSet(graph[stack[n].vertex])
        BY <1>1, <3>1, Frames1
      <3>3. \A i \in 1 .. n - 1 : stack[i + 1].vertex \in ToSet(graph[stack[i].vertex])
        BY <2>1 DEF Path
      <3> HIDE DEF n
      <3>4. ASSUME NEW i \in 1 .. n PROVE stack'[i + 1].vertex \in ToSet(graph[stack'[i].vertex])
        <4>1. CASE i = n
          BY <3>1, <3>2, <4>1
        <4>2. CASE i # n
          <5>1. i \in 1 .. n - 1 /\ i + 1 \in 1 .. n
            BY <2>1, <4>2
          <5> QED BY <3>1, <3>3, <5>1
        <4> QED BY <4>1, <4>2
      <3>5. n + 1 - 1 = n
        BY <2>1
      <3>6. Path' = \A i \in 1 .. Len(stack') - 1 : stack'[i + 1].vertex \in ToSet(graph'[stack'[i].vertex])
        BY DEF Path
      <3>7. graph' = graph /\ Len(stack') - 1 = n
        BY <1>1, <2>1, <3>1
      <3> QED BY <3>4, <3>6, <3>7
    <2>4. CASE Finish
      <3>1. Len(stack') = n - 1 /\ \A i \in 1 .. n - 1 : stack'[i] = stack[i]
        BY <2>4, FinishMoves
      <3>2. \A i \in 1 .. n - 1 : stack[i + 1].vertex \in ToSet(graph[stack[i].vertex])
        BY <2>1 DEF Path
      <3> HIDE DEF n
      <3>3. \A i \in 1 .. n - 1 - 1 : i \in 1 .. n - 1 /\ i + 1 \in 1 .. n - 1
        BY <2>1
      <3> QED BY <1>1, <3>1, <3>2, <3>3 DEF Path
    <2>5. CASE Postprocess
      BY <2>5, PostMoves DEF Path
    <2> QED BY <2>2, <2>3, <2>4, <2>5
  <1> QED BY <1>2, <1>3, <1>4 DEF GraphInv

LEMMA GraphPrint == DepInv /\ GraphInv /\ PrintList => GraphInv'
  <1> SUFFICES ASSUME DepInv, GraphInv, PrintList PROVE GraphInv'
    OBVIOUS
  <1>1. /\ pc = "hints" /\ pending = {} /\ pc' = "done"
        /\ printed' = IF opts.reverse # (opts.mode = "prereq") THEN Reversed(toposort) ELSE toposort
        /\ UNCHANGED <<input, graph, pending, visited, stack, toposort, warnings>>
    BY DEF PrintList
  <1>2. HintKeys' /\ Started /\ Started'
    BY <1>1, InputKept DEF GraphInv, HintKeys, Started
  <1>3. Between' /\ Path'
    BY <1>1, <1>2, InputKept DEF GraphInv, Between, Path
  <1>4. Ended'
    BY <1>1, InputKept DEF Ended
  <1> QED BY <1>1, <1>2, <1>3, <1>4 DEF GraphInv

LEMMA GraphStutter == DepInv /\ GraphInv /\ UNCHANGED vars => GraphInv'
  <1> SUFFICES ASSUME DepInv, GraphInv, UNCHANGED vars PROVE GraphInv'
    OBVIOUS
  <1>1. UNCHANGED <<input, pc, graph, pending, visited, stack, toposort, warnings, printed>>
    BY DEF vars, input
  <1>2. HintKeys' = HintKeys /\ Started' = Started /\ Between' = Between /\ keys' = keys
    BY <1>1, InputKept DEF HintKeys, Started, Between
  <1>3. Idle' = Idle /\ Ended' = Ended /\ Path' = Path
    BY <1>1, InputKept DEF Idle, Ended, Path
  <1> QED BY <1>1, <1>2, <1>3 DEF GraphInv

LEMMA GraphHolds == Spec => []GraphInv
  <1>1. DepInv /\ GraphInv /\ [Next]_vars => GraphInv'
    BY GraphRead, GraphSetup, GraphWalk, GraphHint, GraphPrint, GraphStutter DEF Next
  <1> QED BY Inductive, GraphInit, <1>1, PTL DEF Spec

(* ----------------------- the depth of the visits ----------------------- *)

LEMMA NearFacts ==
    ASSUME DepInv
    PROVE  /\ Near(0) = Requested
           /\ \A d \in Nat : \A v \in Near(d) : v \in Vertex /\ ToSet(AllEdges[v]) \subseteq Near(d + 1)
  <1>1. Requested \in SUBSET Vertex /\ AllEdges \in [Vertex -> Seq(Vertex)]
    BY EdgeFacts
  <1>2. Within(Requested, AllEdges, 0) = Requested
    BY <1>1, WithinStep
  <1>3. ASSUME NEW d \in Nat, NEW v \in Near(d)
        PROVE  v \in Vertex /\ ToSet(AllEdges[v]) \subseteq Near(d + 1)
    <2>1. /\ Within(Requested, AllEdges, d) \in SUBSET Vertex
          /\ Within(Requested, AllEdges, d + 1)
               = Within(Requested, AllEdges, d) \union Successors(Within(Requested, AllEdges, d), AllEdges)
      BY <1>1, WithinStep
    <2> QED BY <1>3, <2>1 DEF Near, Successors
  <1> QED BY <1>2, <1>3 DEF Near

LEMMA DepthPrime ==
    ASSUME UNCHANGED input,
           \A v \in Vertex : visited'[v] # Unseen => /\ visited'[v] \in Nat /\ ~Beyond(visited'[v])
                                                     /\ v \in Near(visited'[v]),
           \A i \in DOMAIN stack' : ToSet(graph'[stack'[i].vertex]) \subseteq Near(stack'[i].depth + 1)
    PROVE  DepthInv'
  <1>1. Requested' = Requested /\ AllEdges' = AllEdges /\ Limited' = Limited /\ opts' = opts
    BY InputKept
  <1> QED BY <1>1 DEF DepthInv, Near, Beyond

LEMMA DepthTraverse ==
    ASSUME DepInv, NEW g \in [Node -> Seq(Vertex)], NEW starts \in Seq(Vertex), NEW d \in Int,
           Traverse(g, starts, d), UNCHANGED input, ToSet(starts) \subseteq Near(d + 1),
           \A v \in Vertex : visited[v] # Unseen => /\ visited[v] \in Nat /\ ~Beyond(visited[v])
                                                    /\ v \in Near(visited[v])
    PROVE  DepthInv'
  <1>1. /\ pc' = "visit" /\ DOMAIN stack' = {1} /\ stack'[1].vertex = MetaRoot /\ stack'[1].depth = d
        /\ graph'[MetaRoot] = starts
        /\ \A v \in Vertex : visited'[v] = visited[v]
    BY TraverseMoves
  <1>2. \A v \in Vertex : visited'[v] # Unseen => /\ visited'[v] \in Nat /\ ~Beyond(visited'[v])
                                                  /\ v \in Near(visited'[v])
    BY <1>1
  <1>3. \A i \in DOMAIN stack' : ToSet(graph'[stack'[i].vertex]) \subseteq Near(stack'[i].depth + 1)
    BY <1>1
  <1> QED BY <1>2, <1>3, DepthPrime

LEMMA DepthStart == DepInv /\ GraphInv /\ DepthInv /\ (ReadRule \/ Sanitize \/ Setup \/ NextHint) => DepthInv'
  <1> SUFFICES ASSUME DepInv, GraphInv, DepthInv, ReadRule \/ Sanitize \/ Setup \/ NextHint PROVE DepthInv'
    OBVIOUS
  <1>1. CASE ReadRule \/ Sanitize
    BY <1>1 DEF ReadRule, Sanitize, DepthInv, Started
  <1>2. CASE Setup
    <2>1. PICK g \in [Node -> Seq(Vertex)] : Traverse(g, StartNodes, -1)
      BY <1>2, SetupTraverse
    <2>2. UNCHANGED input /\ StartNodes \in Seq(Vertex) /\ -1 \in Int /\ -1 + 1 = 0
      BY <1>2, SetupTraverse, EdgeFacts
    <2>3. ToSet(StartNodes) \subseteq Near(-1 + 1)
      BY <2>2, NearFacts DEF Requested
    <2>4. \A v \in Vertex : visited[v] = Unseen
      BY <1>2 DEF Setup, GraphInv, Idle, Started
    <2> QED BY <2>1, <2>2, <2>3, <2>4, DepthTraverse
  <1>3. CASE NextHint
    <2>1. /\ pc = "hints" /\ UNCHANGED <<input, toposort, warnings, printed>> /\ stack = <<>>
          /\ Hinted \in [Node -> Seq(Vertex)]
      BY <1>3, HintTraverse
    <2>2. PICK t \in Vertex :
             \/ visited[t] = Unseen /\ graph' = Hinted /\ UNCHANGED <<pc, visited, stack>>
             \/ visited[t] # Unseen /\ Traverse(Hinted, Hints[t], visited[t])
      BY <1>3, HintTraverse
    <2>3. \A v \in Vertex : visited[v] # Unseen => /\ visited[v] \in Nat /\ ~Beyond(visited[v])
                                                    /\ v \in Near(visited[v])
      BY <2>1 DEF DepthInv, Started
    <2>0. DOMAIN stack = {}
      BY <2>1
    <2>4. CASE UNCHANGED <<visited, stack>>
      BY <2>0, <2>1, <2>3, <2>4, DepthPrime
    <2>5. CASE visited[t] # Unseen /\ Traverse(Hinted, Hints[t], visited[t])
      <3>1. visited[t] \in Nat /\ t \in Near(visited[t])
        BY <2>3, <2>5
      <3>2. Hints[t] \in Seq(Vertex) /\ ToSet(Hints[t]) \subseteq ToSet(AllEdges[t])
        BY EdgeFacts
      <3>3. ToSet(Hints[t]) \subseteq Near(visited[t] + 1)
        BY <3>1, <3>2, NearFacts
      <3> QED BY <2>1, <2>3, <2>5, <3>1, <3>2, <3>3, DepthTraverse
    <2> QED BY <2>2, <2>4, <2>5
  <1> QED BY <1>1, <1>2, <1>3

LEMMA DepthWalk ==
    DepInv /\ GraphInv /\ DepthInv /\ (TooDeep \/ Skip \/ Visit \/ Finish \/ Postprocess) => DepthInv'
  <1> SUFFICES ASSUME DepInv, GraphInv, DepthInv, TooDeep \/ Skip \/ Visit \/ Finish \/ Postprocess
               PROVE  DepthInv'
    OBVIOUS
  <1>1. pc = "visit" /\ UNCHANGED <<input, graph>>
    BY PassMoves, VisitMoves, FinishMoves, PostMoves
  <1>2. /\ \A v \in Vertex : visited[v] # Unseen => /\ visited[v] \in Nat /\ ~Beyond(visited[v])
                                                    /\ v \in Near(visited[v])
        /\ \A i \in DOMAIN stack : ToSet(graph[stack[i].vertex]) \subseteq Near(stack[i].depth + 1)
    BY <1>1 DEF DepthInv, Started
  <1> DEFINE n == Len(stack)
  <1>3. n \in Nat \ {0} /\ DOMAIN stack = 1 .. n /\ Top = stack[n] /\ n \in 1 .. n
    BY <1>1, Frames1
  <1>4. CASE TooDeep \/ Skip
    <2>1. /\ visited' = visited /\ DOMAIN stack' = 1 .. n
          /\ \A i \in 1 .. n : stack'[i].vertex = stack[i].vertex /\ stack'[i].depth = stack[i].depth
      BY <1>4, PassMoves
    <2>2. \A i \in DOMAIN stack' : ToSet(graph'[stack'[i].vertex]) \subseteq Near(stack'[i].depth + 1)
      BY <1>1, <1>2, <1>3, <2>1
    <2> QED BY <1>1, <1>2, <2>1, <2>2, DepthPrime
  <1>5. CASE Finish
    <2>1. visited' = visited /\ DOMAIN stack' = 1 .. n - 1 /\ \A i \in 1 .. n - 1 : stack'[i] = stack[i]
      BY <1>5, FinishMoves
    <2>2. \A i \in 1 .. n - 1 : i \in 1 .. n
      BY <1>3
    <2>3. \A i \in DOMAIN stack' : ToSet(graph'[stack'[i].vertex]) \subseteq Near(stack'[i].depth + 1)
      BY <1>1, <1>2, <1>3, <2>1, <2>2
    <2> QED BY <1>1, <1>2, <2>1, <2>3, DepthPrime
  <1>6. CASE Postprocess
    <2>1. visited' = visited /\ DOMAIN stack' = {}
      BY <1>6, PostMoves
    <2> QED BY <1>1, <1>2, <2>1, DepthPrime
  <1>7. CASE Visit
    <2> DEFINE d == Top.depth + 1
    <2>1. /\ HasChild /\ ~Beyond(d) /\ visited' = [visited EXCEPT ![Child] = d]
          /\ DOMAIN stack' = 1 .. n + 1
          /\ \A i \in 1 .. n : stack'[i].vertex = stack[i].vertex /\ stack'[i].depth = stack[i].depth
          /\ stack'[n + 1].vertex = Child /\ stack'[n + 1].depth = d
      BY <1>7, VisitMoves
    <2>2. Child \in Vertex /\ Child \in ToSet(graph[Top.vertex]) /\ Top.depth \in Int /\ Top.depth >= -1
      BY <1>1, <1>3, <2>1, Frames1
    <2>3. d \in Nat
      BY <2>2
    <2>4. Child \in Near(d)
      BY <1>2, <1>3, <2>2
    <2> HIDE DEF d
    <2>5. ToSet(graph[Child]) \subseteq Near(d + 1)
      <3>1. ToSet(graph[Child]) \subseteq ToSet(AllEdges[Child])
        BY <1>1, <2>2 DEF GraphInv, Between, Started
      <3> QED BY <2>3, <2>4, <3>1, NearFacts
    <2>6. \A v \in Vertex : visited'[v] = IF v = Child THEN d ELSE visited[v]
      BY <2>1 DEF DepInv, TypeOK, Node
    <2>7. \A v \in Vertex : visited'[v] # Unseen => /\ visited'[v] \in Nat /\ ~Beyond(visited'[v])
                                                    /\ v \in Near(visited'[v])
      BY <1>1, <1>2, <2>1, <2>3, <2>4, <2>6
    <2>8. \A i \in DOMAIN stack' : ToSet(graph'[stack'[i].vertex]) \subseteq Near(stack'[i].depth + 1)
      <3> TAKE i \in DOMAIN stack'
      <3>1. i \in 1 .. n \/ i = n + 1
        BY <1>3, <2>1
      <3>2. CASE i \in 1 .. n
        BY <1>1, <1>2, <1>3, <2>1, <3>2
      <3>3. CASE i = n + 1
        BY <1>1, <2>1, <2>5, <3>3
      <3> QED BY <3>1, <3>2, <3>3
    <2> QED BY <1>1, <2>7, <2>8, DepthPrime
  <1> QED BY <1>4, <1>5, <1>6, <1>7

LEMMA DepthHolds == Spec => []DepthInv
  <1>1. Init => DepthInv
    BY DEF Init, DepthInv, Started
  <1>2. DepInv /\ GraphInv /\ DepthInv /\ PrintList => DepthInv'
    <2> SUFFICES ASSUME DepInv, DepthInv, PrintList PROVE DepthInv'
      OBVIOUS
    <2>1. pc = "hints" /\ UNCHANGED <<input, graph, visited, stack>>
      BY DEF PrintList
    <2> QED BY <2>1, InputKept DEF DepthInv, Started, Near, Beyond
  <1>3. DepInv /\ GraphInv /\ DepthInv /\ UNCHANGED vars => DepthInv'
    <2> SUFFICES ASSUME DepInv, DepthInv, UNCHANGED vars PROVE DepthInv'
      OBVIOUS
    <2>1. UNCHANGED <<input, pc, graph, visited, stack>>
      BY DEF vars, input
    <2> QED BY <2>1, InputKept DEF DepthInv, Started, Near, Beyond
  <1>4. DepInv /\ GraphInv /\ DepthInv /\ [Next]_vars => DepthInv'
    BY <1>2, <1>3, DepthStart, DepthWalk DEF Next
  <1> QED BY Inductive, GraphHolds, <1>1, <1>4, PTL DEF Spec

(* ------------------------- nothing is left out ------------------------- *)

LEMMA VisitedKept ==
    ASSUME DepInv, TooDeep \/ Skip \/ Visit \/ Finish \/ Postprocess, NEW w \in Vertex
    PROVE  /\ visited[w] # Unseen => visited'[w] # Unseen
           /\ Visit /\ w = Child => visited'[w] # Unseen
  <1>1. CASE TooDeep \/ Skip
    BY <1>1, PassMoves, VisitMoves
  <1>2. CASE Finish \/ Postprocess
    BY <1>2, FinishMoves, PostMoves, VisitMoves
  <1>3. CASE Visit
    <2>1. /\ visited' = [visited EXCEPT ![Child] = Top.depth + 1] /\ pc = "visit"
      BY <1>3, VisitMoves
    <2>2. Top.depth \in Int /\ Top.depth >= -1
      BY <2>1, ChildFacts
    <2>3. visited \in [Node -> Int] /\ w \in Node
      BY DEF DepInv, TypeOK, Node
    <2> QED BY <2>1, <2>2, <2>3 DEF Unseen
  <1> QED BY <1>1, <1>2, <1>3

LEMMA SettledKept ==
    ASSUME DepInv, ~Limited, TooDeep \/ Skip \/ Visit \/ Finish \/ Postprocess, NEW w \in Vertex, Settled(w)
    PROVE  Settled(w)'
  <1>1. pc = "visit" /\ UNCHANGED graph
    BY PassMoves, VisitMoves, FinishMoves, PostMoves
  <1>2. CASE visited[w] # Unseen
    BY <1>2, VisitedKept DEF Settled
  <1> DEFINE n == Len(stack)
             c == stack[1].next
             m == Len(graph[MetaRoot])
  <1>3. /\ n \in Nat \ {0} /\ DOMAIN stack = 1 .. n /\ 1 \in 1 .. n
        /\ c \in Nat /\ Top = stack[n] /\ stack[1].vertex = MetaRoot /\ m \in Nat
    <2>1. n \in Nat \ {0} /\ DOMAIN stack = 1 .. n /\ Top = stack[n]
      BY <1>1, Frames1
    <2>2. 1 \in 1 .. n
      BY <2>1
    <2>3. stack[1].next \in Nat \ {0} /\ stack[1].vertex = MetaRoot /\ graph[stack[1].vertex] \in Seq(Vertex)
      BY <1>1, <2>2, Frames1
    <2> QED BY <2>1, <2>2, <2>3
  <1>4. ASSUME visited[w] = Unseen PROVE Settled(w)'
    <2>1. PICK k \in c .. m : w = graph[MetaRoot][k]
      BY <1>1, <1>4 DEF Settled, Ahead
    <2>2. ASSUME pc' = "visit", NEW e \in Nat, stack'[1].next = e, e <= k PROVE Settled(w)'
      <3>1. k \in e .. m
        BY <1>3, <2>1, <2>2
      <3>2. k \in stack'[1].next .. Len(graph'[MetaRoot]) /\ w = graph'[MetaRoot][k]
        BY <1>1, <2>1, <2>2, <3>1
      <3>3. w \in Ahead'
        BY <2>2, <3>2 DEF Ahead
      <3> QED BY <3>3 DEF Settled
    <2>3. n = 1 /\ k = c => w = Child
      BY <1>3, <2>1 DEF Child
    <2>4. CASE TooDeep \/ Skip
      <3>1. pc' = "visit" /\ stack'[1].next = IF 1 = n THEN c + 1 ELSE c
        BY <1>1, <1>3, <2>4, PassMoves
      <3>2. CASE n = 1 /\ k = c
        BY <1>4, <2>3, <2>4, <3>2 DEF TooDeep, Skip, Beyond
      <3>3. CASE n # 1
        BY <1>3, <2>1, <2>2, <3>1, <3>3
      <3>4. CASE n = 1 /\ k # c
        <4> HIDE DEF n, c, m
        <4>1. c + 1 \in Nat /\ c + 1 <= k
          BY <1>3, <2>1, <3>4
        <4>2. stack'[1].next = c + 1
          BY <3>1, <3>4
        <4> QED BY <2>2, <3>1, <4>1, <4>2
      <3> QED BY <3>2, <3>3, <3>4
    <2>5. CASE Visit
      <3>1. pc' = "visit" /\ stack'[1].next = IF 1 = n THEN c + 1 ELSE c
        BY <1>1, <1>3, <2>5, VisitMoves
      <3>2. CASE n = 1 /\ k = c
        BY <2>3, <2>5, <3>2, VisitedKept DEF Settled
      <3>3. CASE n # 1
        BY <1>3, <2>1, <2>2, <3>1, <3>3
      <3>4. CASE n = 1 /\ k # c
        <4> HIDE DEF n, c, m
        <4>1. c + 1 \in Nat /\ c + 1 <= k
          BY <1>3, <2>1, <3>4
        <4>2. stack'[1].next = c + 1
          BY <3>1, <3>4
        <4> QED BY <2>2, <3>1, <4>1, <4>2
      <3> QED BY <3>2, <3>3, <3>4
    <2>6. CASE Finish
      <3>1. n > 1 /\ pc' = pc /\ \A i \in 1 .. n - 1 : stack'[i] = stack[i]
        BY <2>6, FinishMoves
      <3>2. 1 \in 1 .. n - 1
        BY <1>3, <3>1
      <3>3. stack'[1].next = c
        BY <3>1, <3>2
      <3>4. c <= k
        BY <1>3, <2>1
      <3> QED BY <1>1, <1>3, <2>2, <3>1, <3>3, <3>4
    <2>7. CASE Postprocess
      <3>1. n = 1 /\ ~HasChild
        BY <2>7, PostMoves
      <3>2. c > m
        BY <1>3, <3>1 DEF HasChild
      <3> QED BY <1>3, <2>1, <3>2
    <2> QED BY <2>4, <2>5, <2>6, <2>7
  <1> QED BY <1>2, <1>4

(* A traversal has all its starts ahead.                                   *)
LEMMA SettledStart ==
    ASSUME DepInv, pc # "visit", NEW g \in [Node -> Seq(Vertex)], NEW starts \in Seq(Vertex), NEW d \in Int,
           Traverse(g, starts, d), NEW w \in Vertex, Settled(w) \/ w \in ToSet(starts)
    PROVE  Settled(w)'
  <1>1. /\ pc' = "visit" /\ stack'[1].next = 1 /\ graph'[MetaRoot] = starts
        /\ visited'[w] = visited[w]
    BY TraverseMoves
  <1>2. CASE Settled(w)
    BY <1>1, <1>2 DEF Settled, Ahead
  <1>3. CASE w \in ToSet(starts)
    <2>1. PICK k \in 1 .. Len(starts) : w = starts[k]
      BY <1>3, SeqDomain DEF ToSet
    <2>2. w \in {graph'[MetaRoot][j] : j \in stack'[1].next .. Len(graph'[MetaRoot])}
      BY <1>1, <2>1
    <2>3. w \in Ahead'
      BY <1>1, <2>2 DEF Ahead
    <2> QED BY <2>3 DEF Settled
  <1> QED BY <1>2, <1>3

LEMMA TakenStart == DepInv /\ GraphInv /\ TakenInv /\ (ReadRule \/ Sanitize \/ Setup \/ NextHint) => TakenInv'
  <1> SUFFICES ASSUME DepInv, GraphInv, TakenInv, ReadRule \/ Sanitize \/ Setup \/ NextHint PROVE TakenInv'
    OBVIOUS
  <1>1. CASE ReadRule \/ Sanitize
    BY <1>1 DEF ReadRule, Sanitize, TakenInv, Started
  <1>2. CASE Setup
    <2>1. PICK g \in [Node -> Seq(Vertex)] : Traverse(g, StartNodes, -1)
      BY <1>2, SetupTraverse
    <2>2. UNCHANGED <<input, toposort>> /\ StartNodes \in Seq(Vertex) /\ -1 \in Int /\ Requested \in SUBSET Vertex
      BY <1>2, SetupTraverse, EdgeFacts
    <2>3. \A w \in Requested : Settled(w)'
      BY <1>2, <2>1, <2>2, SettledStart DEF Requested, Setup
    <2>4. DOMAIN stack' = {1} /\ stack'[1].next = 1
      BY <2>1, <2>2, TraverseMoves
    <2>5. toposort' = <<>>
      BY <1>2, <2>2 DEF Setup, DepInv, Shape
    <2>6. ToSet(toposort') = {}
      BY <2>5 DEF ToSet
    <2>7. Requested' = Requested
      BY <2>2, InputKept
    <2>8. \A i \in DOMAIN stack' : \A k \in 1 .. stack'[i].next - 1 : FALSE
      BY <2>4
    <2> QED BY <2>3, <2>6, <2>7, <2>8 DEF TakenInv
  <1>3. CASE NextHint
    <2>1. /\ pc = "hints" /\ UNCHANGED <<input, toposort, warnings, printed>> /\ stack = <<>>
          /\ Hinted \in [Node -> Seq(Vertex)]
      BY <1>3, HintTraverse
    <2>2. PICK t \in Vertex :
             /\ pending' = pending \ {t}
             /\ \/ visited[t] = Unseen /\ graph' = Hinted /\ UNCHANGED <<pc, visited, stack>>
                \/ visited[t] # Unseen /\ Traverse(Hinted, Hints[t], visited[t])
      BY <1>3, HintTraverse
    <2>3. SUFFICES ASSUME ~Limited
                   PROVE  /\ \A w \in Requested : Settled(w)'
                          /\ \A i \in DOMAIN stack' : \A k \in 1 .. stack'[i].next - 1 : FALSE
                          /\ \A v \in ToSet(toposort) :
                                 /\ \A w \in ToSet(Plain[v]) : visited'[w] # Unseen
                                 /\ v \in pending' \/ \A w \in ToSet(Hints[v]) : Settled(w)'
      <3>1. Requested' = Requested /\ Plain' = Plain /\ Hints' = Hints /\ Limited' = Limited
        BY <2>1, InputKept
      <3> QED BY <2>1, <3>1 DEF TakenInv
    <2>4. /\ \A w \in Requested : Settled(w)
          /\ \A v \in ToSet(toposort) :
                 /\ \A w \in ToSet(Plain[v]) : visited[w] # Unseen
                 /\ v \in pending \/ \A w \in ToSet(Hints[v]) : Settled(w)
      BY <2>1, <2>3 DEF TakenInv, Started
    <2>5. /\ Requested \in SUBSET Vertex /\ ToSet(toposort) \subseteq Vertex
          /\ \A v \in Vertex : /\ ToSet(Plain[v]) \subseteq Vertex /\ ToSet(Hints[v]) \subseteq Vertex
                               /\ Hints[v] \in Seq(Vertex)
      <3>1. Plain \in [Vertex -> Seq(Vertex)] /\ Hints \in [Vertex -> Seq(Vertex)] /\ toposort \in Seq(Vertex)
        BY EdgeFacts DEF DepInv, TypeOK
      <3> QED BY <3>1, EdgeFacts DEF ToSet
    <2>6. CASE visited[t] = Unseen /\ UNCHANGED <<pc, visited, stack>>
      <3>1. t \notin ToSet(toposort)
        BY <2>6 DEF DepInv, Accounted
      <3>2. \A w : Settled(w)' = Settled(w)
        BY <2>1, <2>6 DEF Settled, Ahead
      <3>3. DOMAIN stack' = {}
        BY <2>1, <2>6
      <3> QED BY <2>2, <2>4, <2>6, <3>1, <3>2, <3>3
    <2>7. CASE visited[t] # Unseen /\ Traverse(Hinted, Hints[t], visited[t])
      <3>1. Hints[t] \in Seq(Vertex) /\ visited[t] \in Int /\ pc # "visit"
        BY <2>1, <2>5 DEF DepInv, TypeOK, Node
      <3>2. \A w \in Vertex : Settled(w) \/ w \in ToSet(Hints[t]) => Settled(w)'
        BY <2>1, <2>7, <3>1, SettledStart
      <3>3. DOMAIN stack' = {1} /\ stack'[1].next = 1 /\ \A v \in Vertex : visited'[v] = visited[v]
        BY <2>1, <2>7, <3>1, TraverseMoves
      <3>4. \A i \in DOMAIN stack' : \A k \in 1 .. stack'[i].next - 1 : FALSE
        BY <3>3
      <3>5. \A w \in Requested : Settled(w)'
        BY <2>4, <2>5, <3>2
      <3>6. ASSUME NEW v \in ToSet(toposort)
            PROVE  /\ \A w \in ToSet(Plain[v]) : visited'[w] # Unseen
                   /\ v \in pending' \/ \A w \in ToSet(Hints[v]) : Settled(w)'
        <4>1. v \in Vertex /\ ToSet(Plain[v]) \subseteq Vertex /\ ToSet(Hints[v]) \subseteq Vertex
          BY <2>5
        <4>2. \A w \in ToSet(Plain[v]) : visited'[w] # Unseen
          BY <2>4, <3>3, <4>1
        <4>3. v = t => \A w \in ToSet(Hints[v]) : Settled(w)'
          BY <3>2, <4>1
        <4>4. v # t /\ v \in pending => v \in pending'
          BY <2>2
        <4>5. v \notin pending => \A w \in ToSet(Hints[v]) : Settled(w)'
          BY <2>4, <3>2, <4>1
        <4> QED BY <4>2, <4>3, <4>4, <4>5
      <3> QED BY <3>4, <3>5, <3>6
    <2> QED BY <2>2, <2>6, <2>7
  <1> QED BY <1>1, <1>2, <1>3

LEMMA TakenWalk ==
    DepInv /\ GraphInv /\ TakenInv /\ (TooDeep \/ Skip \/ Visit \/ Finish \/ Postprocess) => TakenInv'
  <1> SUFFICES ASSUME DepInv, GraphInv, TakenInv, TooDeep \/ Skip \/ Visit \/ Finish \/ Postprocess
               PROVE  TakenInv'
    OBVIOUS
  <1> SUFFICES ASSUME ~Limited PROVE TakenInv'
    <2>1. UNCHANGED input /\ pc = "visit"
      BY PassMoves, VisitMoves, FinishMoves, PostMoves
    <2> QED BY <2>1, InputKept DEF TakenInv
  <1>1. pc = "visit" /\ UNCHANGED <<input, graph, pending>>
    BY PassMoves, VisitMoves, FinishMoves, PostMoves
  <1>2. /\ \A w \in Requested : Settled(w)
        /\ \A i \in DOMAIN stack : \A k \in 1 .. stack[i].next - 1 :
               visited[graph[stack[i].vertex][k]] # Unseen
        /\ \A v \in ToSet(toposort) :
               /\ \A w \in ToSet(Plain[v]) : visited[w] # Unseen
               /\ v \in pending \/ \A w \in ToSet(Hints[v]) : Settled(w)
    BY <1>1 DEF TakenInv, Started
  <1>3. /\ Requested \in SUBSET Vertex /\ ToSet(toposort) \subseteq Vertex
        /\ \A v \in Vertex : ToSet(Plain[v]) \subseteq Vertex /\ ToSet(Hints[v]) \subseteq Vertex
    <2>1. Plain \in [Vertex -> Seq(Vertex)] /\ Hints \in [Vertex -> Seq(Vertex)] /\ toposort \in Seq(Vertex)
      BY EdgeFacts DEF DepInv, TypeOK
    <2> QED BY <2>1, EdgeFacts DEF ToSet
  <1>4. \A w \in Requested : Settled(w)'
    BY <1>2, <1>3, SettledKept
  <1> DEFINE n == Len(stack)
  <1>5. /\ n \in Nat \ {0} /\ DOMAIN stack = 1 .. n /\ n \in 1 .. n /\ Top = stack[n]
        /\ \A i \in 1 .. n : stack[i].next \in Nat \ {0} /\ graph[stack[i].vertex] \in Seq(Vertex)
        /\ \A i \in DOMAIN stack : stack[i].next <= Len(graph[stack[i].vertex]) + 1
    <2>1. /\ n \in Nat \ {0} /\ DOMAIN stack = 1 .. n /\ Top = stack[n]
          /\ \A i \in 1 .. n : stack[i].next \in Nat \ {0} /\ graph[stack[i].vertex] \in Seq(Vertex)
      BY <1>1, Frames1
    <2>2. \A i \in DOMAIN stack : stack[i].next <= Len(graph[stack[i].vertex]) + 1
      BY DEF DepInv, Shape
    <2> QED BY <2>1, <2>2
  (* The children passed before the step stay visited.                     *)
  <1>6. \A i \in 1 .. n : \A k \in 1 .. stack[i].next - 1 : visited'[graph[stack[i].vertex][k]] # Unseen
    <2> SUFFICES ASSUME NEW i \in 1 .. n, NEW k \in 1 .. stack[i].next - 1
                 PROVE  visited'[graph[stack[i].vertex][k]] # Unseen
      OBVIOUS
    <2>1. PICK x \in Nat : x = stack[i].next
      BY <1>5
    <2>2. PICK q \in Seq(Vertex) : q = graph[stack[i].vertex]
      BY <1>5
    <2>3. x <= Len(q) + 1 /\ Len(q) \in Nat /\ k \in 1 .. x - 1
      BY <1>5, <2>1, <2>2
    <2>4. k \in 1 .. Len(q)
      BY <2>3
    <2>5. graph[stack[i].vertex][k] \in Vertex
      BY <2>2, <2>4
    <2> QED BY <1>2, <1>5, <2>5, VisitedKept
  <1>7. \A i \in DOMAIN stack' : \A k \in 1 .. stack'[i].next - 1 : visited'[graph'[stack'[i].vertex][k]] # Unseen
    <2>1. CASE TooDeep \/ Skip \/ Visit
      <3>1. ASSUME NEW i \in 1 .. n, NEW k \in 1 .. stack'[i].next - 1
            PROVE  visited'[graph[stack'[i].vertex][k]] # Unseen
        <4>1. /\ stack'[i].vertex = stack[i].vertex
              /\ stack'[i].next = IF i = n THEN stack[i].next + 1 ELSE stack[i].next
          BY <2>1, PassMoves, VisitMoves
        <4>2. PICK x \in Nat : x = stack[i].next
          BY <1>5
        <4>3. k \in 1 .. x - 1 \/ (i = n /\ k = x)
          BY <4>1, <4>2
        <4>4. CASE k \in 1 .. x - 1
          BY <1>6, <4>1, <4>2, <4>4
        <4>5. CASE i = n /\ k = x
          <5>1. graph[stack'[i].vertex][k] = Child /\ HasChild /\ Child \in Vertex
            BY <1>1, <1>5, <2>1, <4>1, <4>2, <4>5, PassMoves, VisitMoves, Frames1 DEF Child
          <5>2. visited'[Child] # Unseen
            BY <2>1, <5>1, VisitedKept DEF Skip, TooDeep, Beyond
          <5> QED BY <5>1, <5>2
        <4> QED BY <4>3, <4>4, <4>5
      <3>2. CASE TooDeep \/ Skip
        <4>1. DOMAIN stack' = 1 .. n
          BY <3>2, PassMoves
        <4> QED BY <1>1, <3>1, <4>1
      <3>3. CASE Visit
        <4>1. DOMAIN stack' = 1 .. n + 1 /\ stack'[n + 1].next = 1
          BY <3>3, VisitMoves
        <4>2. \A i \in 1 .. n + 1 : i \in 1 .. n \/ i = n + 1
          BY <1>5
        <4>3. \A k \in 1 .. stack'[n + 1].next - 1 : FALSE
          BY <4>1
        <4> QED BY <1>1, <3>1, <4>1, <4>2, <4>3
      <3> QED BY <2>1, <3>2, <3>3
    <2>2. CASE Finish
      <3>1. DOMAIN stack' = 1 .. n - 1 /\ \A i \in 1 .. n - 1 : stack'[i] = stack[i]
        BY <2>2, FinishMoves
      <3>2. \A i \in 1 .. n - 1 : i \in 1 .. n
        BY <1>5
      <3> QED BY <1>1, <1>6, <3>1, <3>2
    <2>3. CASE Postprocess
      BY <2>3, PostMoves
    <2> QED BY <2>1, <2>2, <2>3
  <1>8. ASSUME NEW v \in ToSet(toposort)
        PROVE  /\ \A w \in ToSet(Plain[v]) : visited'[w] # Unseen
               /\ v \in pending \/ \A w \in ToSet(Hints[v]) : Settled(w)'
    <2>1. v \in Vertex /\ ToSet(Plain[v]) \subseteq Vertex /\ ToSet(Hints[v]) \subseteq Vertex
      BY <1>3
    <2>2. \A w \in ToSet(Plain[v]) : visited'[w] # Unseen
      BY <1>2, <2>1, VisitedKept
    <2>3. v \in pending \/ \A w \in ToSet(Hints[v]) : Settled(w)'
      BY <1>2, <2>1, SettledKept
    <2> QED BY <2>2, <2>3
  <1>9. ASSUME Finish
        PROVE  /\ \A w \in ToSet(Plain[Top.vertex]) : visited'[w] # Unseen
               /\ Top.vertex \in pending \/ \A w \in ToSet(Hints[Top.vertex]) : Settled(w)'
    <2>1. Top.vertex \in Vertex /\ ~HasChild /\ visited' = visited
      BY <1>9, FinishMoves
    <2>2. \A w \in ToSet(graph[Top.vertex]) : visited'[w] # Unseen
      <3> SUFFICES ASSUME NEW k \in DOMAIN graph[Top.vertex] PROVE visited'[graph[Top.vertex][k]] # Unseen
        BY DEF ToSet
      <3>1. PICK q \in Seq(Vertex) : q = graph[Top.vertex]
        BY <1>5
      <3>2. PICK x \in Nat : x = stack[n].next
        BY <1>5
      <3>3. x > Len(q) /\ k \in 1 .. Len(q) /\ Len(q) \in Nat
        BY <1>5, <2>1, <3>1, <3>2, SeqDomain DEF HasChild
      <3>4. k \in 1 .. stack[n].next - 1
        BY <3>2, <3>3
      <3> QED BY <1>5, <1>6, <3>4
    <2>3. Between
      BY <1>1 DEF GraphInv, Started
    <2> QED BY <2>1, <2>2, <2>3 DEF Between, Settled
  <1>10. \A v \in ToSet(toposort') :
            /\ \A w \in ToSet(Plain[v]) : visited'[w] # Unseen
            /\ v \in pending \/ \A w \in ToSet(Hints[v]) : Settled(w)'
    <2>1. CASE Finish
      <3>1. ToSet(toposort') = ToSet(toposort) \union {Top.vertex}
        BY <2>1, FinishMoves
      <3> QED BY <1>8, <1>9, <2>1, <3>1
    <2>2. CASE ~Finish
      <3>1. toposort' = toposort
        BY <2>2, PassMoves, VisitMoves, PostMoves
      <3> QED BY <1>8, <3>1
    <2> QED BY <2>1, <2>2
  <1>11. Requested' = Requested /\ Plain' = Plain /\ Hints' = Hints /\ pending' = pending
    BY <1>1, InputKept
  <1> QED BY <1>4, <1>7, <1>10, <1>11 DEF TakenInv

LEMMA TakenHolds == Spec => []TakenInv
  <1>1. Init => TakenInv
    BY DEF Init, TakenInv, Started
  <1>2. DepInv /\ GraphInv /\ TakenInv /\ PrintList => TakenInv'
    <2> SUFFICES ASSUME DepInv, TakenInv, PrintList PROVE TakenInv'
      OBVIOUS
    <2>1. pc = "hints" /\ pc' = "done" /\ UNCHANGED <<input, graph, pending, visited, stack, toposort>>
      BY DEF PrintList
    <2>2. \A w : Settled(w)' = Settled(w)
      BY <2>1 DEF Settled, Ahead
    <2> QED BY <2>1, <2>2, InputKept DEF TakenInv, Started
  <1>3. DepInv /\ GraphInv /\ TakenInv /\ UNCHANGED vars => TakenInv'
    <2> SUFFICES ASSUME DepInv, TakenInv, UNCHANGED vars PROVE TakenInv'
      OBVIOUS
    <2>1. UNCHANGED <<input, pc, graph, pending, visited, stack, toposort>>
      BY DEF vars, input
    <2>2. \A w : Settled(w)' = Settled(w)
      BY <2>1 DEF Settled, Ahead
    <2> QED BY <2>1, <2>2, InputKept DEF TakenInv, Started
  <1>4. DepInv /\ GraphInv /\ TakenInv /\ [Next]_vars => TakenInv'
    BY <1>2, <1>3, TakenStart, TakenWalk DEF Next
  <1> QED BY Inductive, GraphHolds, <1>1, <1>4, PTL DEF Spec

(* --------------------- what is reported is a cycle --------------------- *)

(* A child on the path reaches itself along the path.                      *)
LEMMA PathCircular ==
    ASSUME DepInv, GraphInv, pc = "visit", HasChild, OnPath(Child)
    PROVE  Circular(Child, AllEdges)
  <1> DEFINE n == Len(stack)
             R == Within(ToSet(AllEdges[Child]), AllEdges, N)
  <1>1. /\ n \in Nat \ {0} /\ DOMAIN stack = 1 .. n /\ Top = stack[n] /\ Child \in Vertex
        /\ Child \in ToSet(graph[Top.vertex])
        /\ \A i \in 1 .. n : stack[i].vertex \in Node /\ (stack[i].vertex = MetaRoot <=> i = 1)
    BY Frames1
  <1>2. Between /\ Path
    BY DEF GraphInv, Started
  <1>3. AllEdges \in [Vertex -> Seq(Vertex)] /\ ToSet(AllEdges[Child]) \in SUBSET Vertex
    BY <1>1, EdgeFacts DEF ToSet
  <1>4. \A v \in R : v \in Vertex /\ ToSet(graph[v]) \subseteq R
    <2>1. R \in SUBSET Vertex /\ Successors(R, AllEdges) \subseteq R
      BY <1>3, NAssumption, WithinStep, WithinClosed
    <2>2. \A v \in R : ToSet(AllEdges[v]) \subseteq R
      BY <2>1 DEF Successors
    <2> HIDE DEF R
    <2> QED BY <1>2, <2>1, <2>2 DEF Between
  <1>5. ToSet(graph[Child]) \subseteq R
    <2>1. Within(ToSet(AllEdges[Child]), AllEdges, 0) \subseteq R
      BY <1>3, NAssumption, WithinClosed
    <2>2. ToSet(AllEdges[Child]) \subseteq R
      BY <1>3, <2>1, WithinStep
    <2> HIDE DEF R
    <2> QED BY <1>1, <1>2, <2>2 DEF Between
  <1> HIDE DEF R
  <1>6. PICK p \in 1 .. n : stack[p].vertex = Child
    BY <1>1 DEF OnPath
  <1>7. \A j \in p + 1 .. n : stack[j].vertex \in R
    <2> DEFINE Bad == {j \in p + 1 .. n : stack[j].vertex \notin R}
    <2>1. SUFFICES ASSUME Bad # {} PROVE FALSE
      OBVIOUS
    <2>2. PICK m \in Bad : \A x \in Bad : m <= x
      <3>1. Bad \in SUBSET Nat
        BY <1>1
      <3> HIDE DEF Bad
      <3> QED BY <2>1, <3>1, LeastNat
    <2>3. m \in p + 1 .. n /\ m - 1 \in 1 .. n - 1 /\ m - 1 + 1 = m /\ ~(m <= m - 1) /\ m - 1 >= p
      <3> HIDE DEF n
      <3> QED BY <1>1, <2>2
    <2>4. stack[m].vertex \in ToSet(graph[stack[m - 1].vertex])
      <3>1. \A i \in 1 .. n - 1 : stack[i + 1].vertex \in ToSet(graph[stack[i].vertex])
        BY <1>2 DEF Path
      <3>2. stack[m - 1 + 1].vertex \in ToSet(graph[stack[m - 1].vertex])
        BY <2>3, <3>1
      <3> QED BY <2>3, <3>2
    <2>5. CASE m - 1 = p
      BY <1>5, <1>6, <2>2, <2>4, <2>5
    <2>6. CASE m - 1 # p
      <3>1. m - 1 \in p + 1 .. n /\ m - 1 \notin Bad
        BY <1>1, <2>2, <2>3, <2>6
      <3>2. stack[m - 1].vertex \in R
        BY <3>1
      <3> QED BY <1>4, <2>2, <2>4, <3>2
    <2> QED BY <2>5, <2>6
  <1>8. Child \in R
    <2>1. CASE p = n
      BY <1>1, <1>5, <1>6, <2>1
    <2>2. CASE p # n
      <3>1. n \in p + 1 .. n
        <4> HIDE DEF n
        <4> QED BY <1>1, <1>6, <2>2
      <3> QED BY <1>1, <1>4, <1>7, <3>1
    <2> QED BY <2>1, <2>2
  <1> QED BY <1>8 DEF Circular, R

LEMMA CyclesHold == Spec => []RealCycles
  <1>1. Init => RealCycles
    BY DEF Init, RealCycles, Started
  <1>2. DepInv /\ GraphInv /\ RealCycles /\ [Next]_vars => RealCycles'
    <2> SUFFICES ASSUME DepInv, GraphInv, RealCycles, [Next]_vars PROVE RealCycles'
      OBVIOUS
    <2>1. ASSUME UNCHANGED input,
                 \A v \in Vertex : <<"cycle", v>> \in warnings' => Circular(v, AllEdges)
          PROVE  RealCycles'
      BY <2>1, InputKept DEF RealCycles, Circular
    <2>2. CASE ReadRule \/ Sanitize
      BY <2>2 DEF ReadRule, Sanitize, RealCycles, Started
    <2>3. CASE Setup
      BY <2>1, <2>3, SetupTraverse DEF Setup, GraphInv, Idle, Started
    <2>4. CASE NextHint
      BY <2>1, <2>4, HintTraverse DEF RealCycles, Started
    <2>5. CASE Skip
      <3>1. UNCHANGED input /\ pc = "visit" /\ HasChild
        BY <2>5, PassMoves
      <3>2. warnings' = warnings \union (IF opts.check_cycles /\ OnPath(Child) THEN {<<"cycle", Child>>} ELSE {})
        BY <2>5 DEF Skip
      <3> QED BY <2>1, <3>1, <3>2, PathCircular DEF RealCycles, Started
    <2>6. CASE TooDeep
      BY <2>1, <2>6 DEF TooDeep, RealCycles, Started
    <2>7. CASE Finish
      BY <2>1, <2>7 DEF Finish, RealCycles, Started
    <2>8. CASE Visit
      <3>1. \A v : <<"cycle", v>> \notin StartVisit(Child)
        BY DEF StartVisit
      <3> QED BY <2>1, <2>8, <3>1 DEF Visit, RealCycles, Started
    <2>9. CASE Postprocess
      BY <2>1, <2>9 DEF Postprocess, RealCycles, Started
    <2>10. CASE PrintList
      BY <2>1, <2>10 DEF PrintList, RealCycles, Started
    <2>11. CASE UNCHANGED vars
      <3>1. UNCHANGED <<input, warnings, pc>> /\ Started' = Started
        BY <2>11 DEF vars, input, Started
      <3> QED BY <3>1, InputKept DEF RealCycles, Circular
    <2> QED BY <2>2, <2>3, <2>4, <2>5, <2>6, <2>7, <2>8, <2>9, <2>10, <2>11 DEF Next
  <1> QED BY Inductive, GraphHolds, <1>1, <1>2, PTL DEF Spec

(* ------------------------------ the checks ----------------------------- *)

LEMMA TwoElements ==
    ASSUME NEW S, IsFiniteSet(S)
    PROVE  Cardinality(S) > 1 <=> \E x, y \in S : x # y
  <1>1. Cardinality(S) \in Nat
    BY FS_CardinalityType
  <1>2. ASSUME Cardinality(S) > 1 PROVE \E x, y \in S : x # y
    <2>1. S # {}
      BY <1>2, FS_EmptySet
    <2>2. PICK x \in S : TRUE
      BY <2>1
    <2>3. S # {x}
      BY <1>1, <1>2, FS_Singleton
    <2> QED BY <2>2, <2>3
  <1>3. ASSUME NEW x \in S, NEW y \in S, x # y PROVE Cardinality(S) > 1
    <2>1. IsFiniteSet({x}) /\ Cardinality({x}) = 1
      BY FS_Singleton
    <2>2. {x} \in SUBSET S /\ {x} # S
      BY <1>3
    <2>3. Cardinality({x}) <= Cardinality(S) /\ Cardinality(S) # Cardinality({x})
      BY <2>2, FS_Subset
    <2> QED BY <1>1, <2>1, <2>3
  <1> QED BY <1>2, <1>3

LEMMA SeqFinite ==
    ASSUME NEW S, NEW s \in Seq(S)
    PROVE  IsFiniteSet(DOMAIN s)
  <1>1. DOMAIN s = 1 .. Len(s) /\ Len(s) \in Nat
    BY SeqDomain
  <1> QED BY <1>1, FS_Interval

(* The checks look at the prerequisites in the makefiles, and at most at   *)
(* the hints as well.                                                      *)
LEMMA PrerequisiteFacts ==
    ASSUME DepInv, GraphInv, Started, NEW v \in Vertex
    PROVE  /\ Prerequisites(v) \in Seq(Vertex)
           /\ ToSet(dep_graph[v]) \subseteq ToSet(Prerequisites(v))
           /\ ToSet(Prerequisites(v)) \subseteq ToSet(dep_graph[v]) \union ToSet(extra[v])
  <1>1. dep_graph[v] \in Seq(Vertex) /\ graph[v] \in Seq(Vertex)
    BY DEF DepInv, TypeOK, Edges, Node
  <1>2. CASE opts.mode = "prereq"
    BY <1>1, <1>2 DEF Prerequisites
  <1>3. CASE opts.mode # "prereq"
    <2>1. Plain[v] = dep_graph[v] /\ Hints[v] = extra[v] /\ Prerequisites(v) = graph[v]
      BY <1>3 DEF Plain, Hints, Prerequisites
    <2>2. ToSet(AllEdges[v]) = ToSet(Plain[v]) \union ToSet(Hints[v])
      BY EdgeFacts
    <2> QED BY <1>1, <2>1, <2>2 DEF GraphInv, Between
  <1> QED BY <1>2, <1>3

LEMMA CheckFacts ==
    ASSUME DepInv, GraphInv, Started, NEW v \in Vertex, NEW c \in Check
    PROVE  /\ Cardinality(Found(c, v)) > 1 => Cardinality(Matching(v, c)) > 1
           /\ Found(c, v) = {} /\ ToSet(extra[v]) = {} => Matching(v, c) = {}
  <1> DEFINE q == Prerequisites(v)
  <1>1. /\ q \in Seq(Vertex) /\ ToSet(dep_graph[v]) \subseteq ToSet(q)
        /\ ToSet(q) \subseteq ToSet(dep_graph[v]) \union ToSet(extra[v])
    BY PrerequisiteFacts
  <1>2. dep_graph[v] \in Seq(Vertex) /\ c.any \in Seq(SUBSET Vertex)
    BY DEF DepInv, TypeOK, Edges, Check
  <1>3. Matching(v, c) = {m \in (DOMAIN c.any) \X (DOMAIN q) : q[m[2]] \in c.any[m[1]]}
    BY DEF Matching
  <1> HIDE DEF q
  <1>4. IsFiniteSet(Matching(v, c))
    <2>1. IsFiniteSet(DOMAIN c.any) /\ IsFiniteSet(DOMAIN q)
      BY <1>1, <1>2, SeqFinite
    <2>2. IsFiniteSet((DOMAIN c.any) \X (DOMAIN q))
      BY <2>1, FS_Product
    <2>3. Matching(v, c) \in SUBSET ((DOMAIN c.any) \X (DOMAIN q))
      BY <1>3
    <2> QED BY <2>2, <2>3, FS_Subset
  <1>5. IsFiniteSet(Found(c, v))
    <2>1. IsFiniteSet(Vertex)
      BY NAssumption, FS_Interval DEF Vertex
    <2>2. Found(c, v) \in SUBSET Vertex
      BY <1>2 DEF Found, ToSet
    <2> QED BY <2>1, <2>2, FS_Subset
  <1>6. \A x \in Found(c, v) : \E i \in DOMAIN c.any : \E j \in DOMAIN q : q[j] = x /\ <<i, j>> \in Matching(v, c)
    <2> TAKE x \in Found(c, v)
    <2>1. PICK i \in DOMAIN c.any : x \in c.any[i]
      BY DEF Found
    <2>2. PICK j \in DOMAIN q : q[j] = x
      BY <1>1 DEF Found, ToSet
    <2>3. <<i, j>> \in Matching(v, c)
      BY <1>3, <2>1, <2>2
    <2> QED BY <2>2, <2>3
  <1>7. ASSUME Cardinality(Found(c, v)) > 1 PROVE Cardinality(Matching(v, c)) > 1
    <2>1. PICK x, y \in Found(c, v) : x # y
      BY <1>5, <1>7, TwoElements
    <2>2. PICK i \in DOMAIN c.any, j \in DOMAIN q : q[j] = x /\ <<i, j>> \in Matching(v, c)
      BY <1>6
    <2>3. PICK k \in DOMAIN c.any, l \in DOMAIN q : q[l] = y /\ <<k, l>> \in Matching(v, c)
      BY <1>6
    <2>4. <<i, j>> # <<k, l>>
      BY <2>1, <2>2, <2>3
    <2> QED BY <1>4, <2>2, <2>3, <2>4, TwoElements
  <1>8. ASSUME Found(c, v) = {}, ToSet(extra[v]) = {}, NEW m \in Matching(v, c) PROVE FALSE
    <2>1. m[1] \in DOMAIN c.any /\ m[2] \in DOMAIN q /\ q[m[2]] \in c.any[m[1]]
      BY <1>3
    <2>2. q[m[2]] \in ToSet(dep_graph[v])
      BY <1>1, <1>8, <2>1 DEF ToSet
    <2> QED BY <1>8, <2>1, <2>2 DEF Found
  <1> QED BY <1>7, <1>8

(* What the checks find of one name, and of two with a common basename.    *)
CheckedOne(v) ==
    /\ \A c \in opts.unique_prereq :
           v \in c.of /\ Cardinality(Found(c, v)) > 1 => <<"unique", v>> \in warnings
    /\ \A c \in opts.exists_prereq :
           v \in c.of /\ Found(c, v) = {} /\ ToSet(extra[v]) = {} => <<"exists", v>> \in warnings

CheckedTwo(v, w) ==
    \A g \in opts.unique_basename :
        v # w /\ {v, w} \subseteq g /\ Basename[v] = Basename[w] => <<"basename", v>> \in warnings

LEMMA CheckedIs ==
    Checked <=> /\ \A v \in Vertex : visited[v] # Unseen => CheckedOne(v)
                /\ pc # "visit" => \A v, w \in Vertex :
                       visited[v] # Unseen /\ visited[w] # Unseen => CheckedTwo(v, w)
  BY DEF Checked, CheckedOne, CheckedTwo

LEMMA CheckedKept ==
    ASSUME UNCHANGED input, warnings \subseteq warnings'
    PROVE  \A v, w : /\ CheckedOne(v) => CheckedOne(v)'
                     /\ CheckedTwo(v, w) => CheckedTwo(v, w)'
  <1>1. opts' = opts /\ dep_graph' = dep_graph /\ extra' = extra
    BY InputKept
  <1>2. \A c, v : Found(c, v)' = Found(c, v)
    BY <1>1 DEF Found
  <1>3. \A v : CheckedOne(v) => CheckedOne(v)'
    BY <1>1, <1>2 DEF CheckedOne
  <1>4. \A v, w : CheckedTwo(v, w) => CheckedTwo(v, w)'
    BY <1>1 DEF CheckedTwo
  <1> QED BY <1>3, <1>4

LEMMA StartVisitChecks ==
    ASSUME DepInv, GraphInv, Started, NEW v \in Vertex, UNCHANGED input, StartVisit(v) \subseteq warnings'
    PROVE  CheckedOne(v)'
  <1>1. opts' = opts /\ dep_graph' = dep_graph /\ extra' = extra
    BY InputKept
  <1>2. opts.unique_prereq \subseteq Check /\ opts.exists_prereq \subseteq Check
    BY DEF DepInv, TypeOK, Options
  <1>3. \A c : Found(c, v)' = Found(c, v)
    BY <1>1 DEF Found
  <1>4. StartVisit(v) =
            {<<"unique", v>> : c \in {d \in opts.unique_prereq : v \in d.of /\ Cardinality(Matching(v, d)) > 1}}
            \union {<<"exists", v>> : c \in {d \in opts.exists_prereq : v \in d.of /\ Matching(v, d) = {}}}
    BY DEF StartVisit, MetaRoot, Vertex
  <1>5. ASSUME NEW c \in opts.unique_prereq, v \in c.of, Cardinality(Found(c, v)) > 1
        PROVE  <<"unique", v>> \in warnings'
    <2>1. Cardinality(Matching(v, c)) > 1
      BY <1>2, <1>5, CheckFacts
    <2> QED BY <1>4, <1>5, <2>1
  <1>6. ASSUME NEW c \in opts.exists_prereq, v \in c.of, Found(c, v) = {}, ToSet(extra[v]) = {}
        PROVE  <<"exists", v>> \in warnings'
    <2>1. Matching(v, c) = {}
      BY <1>2, <1>6, CheckFacts
    <2> QED BY <1>4, <1>6, <2>1
  <1> QED BY <1>1, <1>3, <1>5, <1>6 DEF CheckedOne

LEMMA CheckedHolds == Spec => []Checked
  <1>1. Init => Checked
    BY DEF Init, Checked, Vertex, Node
  <1>2. DepInv /\ GraphInv /\ Checked /\ [Next]_vars => Checked'
    <2> SUFFICES ASSUME DepInv, GraphInv, Checked, [Next]_vars PROVE Checked'
      OBVIOUS
    <2>0. Checked' <=> /\ \A v \in Vertex : visited'[v] # Unseen => CheckedOne(v)'
                       /\ pc' # "visit" => \A v, w \in Vertex :
                              visited'[v] # Unseen /\ visited'[w] # Unseen => CheckedTwo(v, w)'
      BY DEF Checked, CheckedOne, CheckedTwo
    <2>1. /\ \A v \in Vertex : visited[v] # Unseen => CheckedOne(v)
          /\ pc # "visit" => \A v, w \in Vertex :
                 visited[v] # Unseen /\ visited[w] # Unseen => CheckedTwo(v, w)
      BY CheckedIs
    <2>2. ASSUME UNCHANGED input, warnings \subseteq warnings',
                 \A v \in Vertex : visited'[v] # Unseen => visited[v] # Unseen,
                 pc' # "visit" => pc # "visit"
          PROVE  Checked'
      BY <2>0, <2>1, <2>2, CheckedKept
    <2>3. CASE ReadRule \/ Sanitize
      <3>1. \A v \in Vertex : visited'[v] = Unseen
        BY <2>3 DEF ReadRule, Sanitize, GraphInv, Idle, Started
      <3> QED BY <2>0, <3>1
    <2>4. CASE Setup
      <3>1. PICK g \in [Node -> Seq(Vertex)] : Traverse(g, StartNodes, -1)
        BY <2>4, SetupTraverse
      <3>2. UNCHANGED <<input, warnings>> /\ StartNodes \in Seq(Vertex) /\ -1 \in Int
        BY <2>4, SetupTraverse, EdgeFacts
      <3>3. pc' = "visit" /\ \A v \in Vertex : visited'[v] = visited[v]
        BY <3>1, <3>2, TraverseMoves
      <3> QED BY <2>2, <3>2, <3>3
    <2>5. CASE NextHint
      <3>1. pc = "hints" /\ UNCHANGED <<input, warnings>> /\ Hinted \in [Node -> Seq(Vertex)]
        BY <2>5, HintTraverse
      <3>2. PICK t \in Vertex :
               \/ visited[t] = Unseen /\ graph' = Hinted /\ UNCHANGED <<pc, visited, stack>>
               \/ visited[t] # Unseen /\ Traverse(Hinted, Hints[t], visited[t])
        BY <2>5, HintTraverse
      <3>3. Hints[t] \in Seq(Vertex) /\ visited[t] \in Int
        BY EdgeFacts DEF DepInv, TypeOK, Node
      <3>4. \A v \in Vertex : visited'[v] = visited[v]
        BY <3>1, <3>2, <3>3, TraverseMoves
      <3> QED BY <2>2, <3>1, <3>4
    <2>6. CASE TooDeep \/ Skip
      <3>1. UNCHANGED <<input, visited, pc>>
        BY <2>6, PassMoves
      <3>2. warnings \subseteq warnings'
        BY <2>6 DEF TooDeep, Skip
      <3> QED BY <2>2, <3>1, <3>2
    <2>7. CASE Finish
      BY <2>2, <2>7, FinishMoves
    <2>8. CASE Visit
      <3>1. /\ UNCHANGED input /\ pc = "visit" /\ pc' = pc /\ HasChild /\ warnings' = warnings \union StartVisit(Child)
            /\ visited' = [visited EXCEPT ![Child] = Top.depth + 1]
        BY <2>8, VisitMoves
      <3>2. Child \in Vertex /\ Started
        BY <3>1, Frames1 DEF Started
      <3>5. PICK x \in Vertex : x = Child
        BY <3>2
      <3>3. CheckedOne(x)'
        <4>1. StartVisit(x) \subseteq warnings'
          BY <3>1, <3>5
        <4> QED BY <3>1, <3>2, <4>1, StartVisitChecks
      <3>4. \A v \in Vertex : v # x => visited'[v] = visited[v]
        BY <3>1, <3>5
      <3> QED BY <2>0, <2>1, <3>1, <3>3, <3>4, CheckedKept
    <2>9. CASE Postprocess
      <3>1. /\ UNCHANGED <<input, visited>>
            /\ warnings' = warnings \union
                   {<<"basename", v>> : v \in UNION {SameBasename(g) : g \in opts.unique_basename}}
        BY <2>9, PostMoves
      <3>2. ASSUME NEW v \in Vertex, NEW w \in Vertex, visited[v] # Unseen, visited[w] # Unseen
            PROVE  CheckedTwo(v, w)'
        <4> SUFFICES ASSUME NEW g \in opts.unique_basename, v # w, {v, w} \subseteq g, Basename[v] = Basename[w]
                     PROVE  <<"basename", v>> \in warnings'
          BY <3>1, InputKept DEF CheckedTwo
        <4>1. v \in SameBasename(g)
          BY <3>2 DEF SameBasename
        <4> QED BY <3>1, <4>1
      <3> QED BY <2>0, <2>1, <3>1, <3>2, CheckedKept
    <2>10. CASE PrintList
      BY <2>2, <2>10 DEF PrintList
    <2>11. CASE UNCHANGED vars
      <3>1. UNCHANGED <<input, warnings, visited, pc>>
        BY <2>11 DEF vars, input
      <3> QED BY <2>2, <3>1
    <2> QED BY <2>3, <2>4, <2>5, <2>6, <2>7, <2>8, <2>9, <2>10, <2>11 DEF Next
  <1> QED BY Inductive, GraphHolds, <1>1, <1>2, PTL DEF Spec

(* ------------------------- theorems of the list ------------------------ *)

LEMMA ReversedFacts ==
    ASSUME NEW S, NEW s \in Seq(S), Distinct(s)
    PROVE  Reversed(s) \in Seq(S) /\ ToSet(Reversed(s)) = ToSet(s) /\ Distinct(Reversed(s))
  <1> DEFINE n == Len(s)
             r == Reversed(s)
  <1>1. n \in Nat /\ DOMAIN s = 1 .. n
    BY SeqDomain
  <1>2. r = [i \in 1 .. n |-> s[n + 1 - i]]
    BY DEF Reversed
  <1> HIDE DEF n, r
  <1>3. \A i \in 1 .. n : n + 1 - i \in 1 .. n /\ n + 1 - (n + 1 - i) = i
    BY <1>1
  <1>4. r \in Seq(S)
    <2>1. \A i \in 1 .. n : s[i] \in S
      BY <1>1 DEF n
    <2>2. r \in [1 .. n -> S]
      BY <1>2, <1>3, <2>1
    <2> QED BY <1>1, <2>2
  <1>5. ToSet(r) = ToSet(s)
    <2>1. \A i \in 1 .. n : s[i] = r[n + 1 - i]
      BY <1>2, <1>3
    <2> QED BY <1>1, <1>2, <1>3, <2>1 DEF ToSet
  <1>6. Distinct(r)
    <2> SUFFICES ASSUME NEW i \in 1 .. n, NEW j \in 1 .. n, r[i] = r[j] PROVE i = j
      BY <1>2 DEF Distinct
    <2>1. s[n + 1 - i] = s[n + 1 - j]
      BY <1>2
    <2>2. n + 1 - i = n + 1 - j
      BY <1>1, <1>3, <2>1 DEF Distinct
    <2> QED BY <1>1, <2>2
  <1> QED BY <1>4, <1>5, <1>6 DEF r

LEMMA DistinctCount ==
    ASSUME NEW S, NEW s \in Seq(S), Distinct(s)
    PROVE  Len(s) = Cardinality(ToSet(s))
  <1>1. Len(s) \in Nat /\ DOMAIN s = 1 .. Len(s) /\ s \in [1 .. Len(s) -> ToSet(s)]
    <2>1. Len(s) \in Nat /\ DOMAIN s = 1 .. Len(s) /\ s = [i \in 1 .. Len(s) |-> s[i]]
      OBVIOUS
    <2> QED BY <2>1 DEF ToSet
  <1>2. IsFiniteSet(1 .. Len(s)) /\ Cardinality(1 .. Len(s)) = Len(s)
    <2>1. IsFiniteSet(1 .. Len(s)) /\ Cardinality(1 .. Len(s)) = IF 1 > Len(s) THEN 0 ELSE Len(s) - 1 + 1
      BY <1>1, FS_Interval
    <2> QED BY <1>1, <2>1
  <1>3. s \in Surjection(1 .. Len(s), ToSet(s)) /\ s \in Injection(1 .. Len(s), ToSet(s))
    <2>1. \A t \in ToSet(s) : \E i \in 1 .. Len(s) : s[i] = t
      BY <1>1 DEF ToSet
    <2>2. IsInjective(s)
      BY <1>1 DEF IsInjective, Distinct
    <2> QED BY <1>1, <2>1, <2>2 DEF Surjection, Injection
  <1> QED BY <1>2, <1>3, FS_Surjection

(* At the end the list is that of the finished names, in one order or the  *)
(* other, and these are the visited ones.                                  *)
LEMMA ListFacts ==
    ASSUME DepInv, GraphInv, pc = "done", keys # <<>>
    PROVE  /\ Started /\ pending = {} /\ Ahead = {}
           /\ printed \in Seq(Vertex) /\ Distinct(printed) /\ ToSet(printed) = ToSet(toposort)
           /\ \A v \in Vertex : v \in ToSet(printed) <=> visited[v] # Unseen
  <1>1. Started /\ Ended /\ Ahead = {} /\ stack = <<>>
    BY DEF GraphInv, Started, Ahead, DepInv, Shape
  <1>2. toposort \in Seq(Vertex) /\ Distinct(toposort)
    BY DEF DepInv, TypeOK, Accounted
  <1>3. printed \in Seq(Vertex) /\ Distinct(printed) /\ ToSet(printed) = ToSet(toposort)
    BY <1>1, <1>2, ReversedFacts DEF Ended
  <1>4. \A v \in Vertex : v \in ToSet(toposort) <=> visited[v] # Unseen
    <2>1. \A v : ~OnPath(v)
      BY <1>1 DEF OnPath
    <2> QED BY <2>1 DEF DepInv, Accounted
  <1> QED BY <1>1, <1>3, <1>4 DEF Ended

(* The list is complete, for every makefile and every command line: each   *)
(* name that can be reached from a requested one is printed, once, and no  *)
(* other; with a depth limit none that is farther away.                    *)
THEOREM ListIsComplete == Spec => []Complete
  <1>1. DepInv /\ GraphInv /\ DepthInv /\ TakenInv => Complete
    <2> SUFFICES ASSUME DepInv, GraphInv, DepthInv, TakenInv, pc = "done", keys # <<>>
                 PROVE  /\ Len(printed) = Cardinality(ToSet(printed))
                        /\ ~Limited => ToSet(printed) = Within(Requested, AllEdges, N)
                        /\ Limited => ToSet(printed) \subseteq Within(Requested, AllEdges, opts.max_depth)
      BY DEF Complete, Requested
    <2>1. /\ Started /\ pending = {} /\ Ahead = {}
          /\ printed \in Seq(Vertex) /\ Distinct(printed) /\ ToSet(printed) = ToSet(toposort)
          /\ \A v \in Vertex : v \in ToSet(printed) <=> visited[v] # Unseen
      BY ListFacts
    <2>2. Requested \in SUBSET Vertex /\ AllEdges \in [Vertex -> Seq(Vertex)] /\ ToSet(printed) \in SUBSET Vertex
      BY <2>1, EdgeFacts DEF ToSet
    <2>3. Len(printed) = Cardinality(ToSet(printed))
      BY <2>1, DistinctCount
    <2>4. \A v \in ToSet(printed) : /\ visited[v] \in Nat /\ ~Beyond(visited[v])
                                    /\ v \in Within(Requested, AllEdges, visited[v])
      BY <2>1, <2>2 DEF DepthInv, Near
    <2>5. ToSet(printed) \subseteq Within(Requested, AllEdges, N)
      BY <2>2, <2>4, WithinClosed
    <2>6. ASSUME Limited PROVE ToSet(printed) \subseteq Within(Requested, AllEdges, opts.max_depth)
      <3>1. opts.max_depth \in Nat
        BY <2>6 DEF Limited, NoLimit, DepInv, TypeOK, Options
      <3>2. \A v \in ToSet(printed) : visited[v] <= opts.max_depth
        BY <2>4, <2>6, <3>1 DEF Beyond
      <3> QED BY <2>2, <2>4, <3>1, <3>2, WithinMono
    <2>7. ASSUME ~Limited PROVE Within(Requested, AllEdges, N) \subseteq ToSet(printed)
      <3> DEFINE U == ToSet(printed)
      <3>1. /\ \A w \in Requested : visited[w] # Unseen
            /\ \A v \in U : /\ \A w \in ToSet(Plain[v]) : visited[w] # Unseen
                            /\ \A w \in ToSet(Hints[v]) : visited[w] # Unseen
        BY <2>1, <2>7 DEF TakenInv, Settled
      <3>2. Requested \subseteq U
        BY <2>1, <2>2, <3>1
      <3>3. \A v \in U \cap Vertex : ToSet(AllEdges[v]) \subseteq U
        <4> TAKE v \in U \cap Vertex
        <4>0. v \in Vertex
          OBVIOUS
        <4>2. ToSet(AllEdges[v]) \subseteq Vertex
          BY <2>2, <4>0 DEF ToSet
        <4>1. ToSet(AllEdges[v]) = ToSet(Plain[v]) \union ToSet(Hints[v]) /\ ToSet(AllEdges[v]) \subseteq Vertex
          BY <4>0, <4>2, EdgeFacts
        <4> QED BY <2>1, <3>1, <4>1
      <3> HIDE DEF U
      <3>4. Within(Requested, AllEdges, N) \subseteq U
        BY <2>2, <3>2, <3>3, NAssumption, WithinLeast
      <3> QED BY <3>4 DEF U
    <2> QED BY <2>3, <2>5, <2>6, <2>7
  <1> QED BY Inductive, GraphHolds, DepthHolds, TakenHolds, <1>1, PTL

(* Before the end, and when main finds no target, nothing is printed.      *)
LEMMA NothingPrinted ==
    ASSUME DepInv, GraphInv, pc = "done", keys = <<>>
    PROVE  ToSet(printed) = {} /\ warnings = {}
  BY DEF GraphInv, Started, Idle, ToSet

(* A cycle of prerequisites among the printed names is reported, and what  *)
(* is reported is a cycle, for every makefile and every command line       *)
(* without a depth limit.                                                  *)
THEOREM CyclesAreReported == Spec => []CyclesReported
  <1>1. DepInv /\ GraphInv /\ RealCycles => CyclesReported
    <2> SUFFICES ASSUME DepInv, GraphInv, RealCycles, pc = "done", opts.check_cycles, ~Limited
                 PROVE  /\ (\E v \in ToSet(printed) : Circular(v, Plain)) => CycleReported
                        /\ \A v \in Vertex : <<"cycle", v>> \in warnings => Circular(v, AllEdges)
      BY DEF CyclesReported
    <2>1. CASE keys = <<>>
      BY <2>1, NothingPrinted
    <2>2. CASE keys # <<>>
      <3>1. Started /\ ToSet(printed) = ToSet(toposort)
        BY <2>2, ListFacts
      <3>2. ASSUME NEW v \in ToSet(toposort), Circular(v, Plain), ~CycleReported PROVE FALSE
        <4>1. Reliable /\ toposort \in Seq(Vertex) /\ Plain \in [Vertex -> Seq(Vertex)]
          BY <3>2, EdgeFacts DEF Reliable, DepInv, TypeOK
        <4>2. PICK b \in DOMAIN toposort : toposort[b] = v
          BY DEF ToSet
        <4> DEFINE U == {toposort[a] : a \in {i \in DOMAIN toposort : i < b}}
        <4>3. Closed /\ Distinct(toposort)
          BY <4>1 DEF DepInv, Accounted
        <4>4. ToSet(Plain[v]) \subseteq U
          BY <4>2, <4>3 DEF Closed
        <4>5. \A u \in U \cap Vertex : ToSet(Plain[u]) \subseteq U
          <5> TAKE u \in U \cap Vertex
          <5>1. PICK a \in DOMAIN toposort : a < b /\ toposort[a] = u
            OBVIOUS
          <5>2. DOMAIN toposort \subseteq Nat
            BY <4>1, SeqDomain
          <5>3. \A p \in ToSet(Plain[u]) : \E i \in DOMAIN toposort : i < b /\ toposort[i] = p
            <6> TAKE p \in ToSet(Plain[u])
            <6>1. PICK i \in DOMAIN toposort : i < a /\ toposort[i] = p
              BY <4>3, <5>1 DEF Closed
            <6>2. i < b
              BY <5>1, <5>2, <6>1
            <6> QED BY <6>1, <6>2
          <5> QED BY <5>3
        <4>6. v \notin U
          <5>1. \A i \in DOMAIN toposort : i < b => toposort[i] # v
            <6>1. DOMAIN toposort \subseteq Nat
              BY <4>1, SeqDomain
            <6> QED BY <4>2, <4>3, <6>1 DEF Distinct
          <5> QED BY <5>1
        <4>7. v \in Vertex /\ ToSet(Plain[v]) \in SUBSET Vertex
          BY <4>1 DEF ToSet
        <4> HIDE DEF U
        <4>8. Within(ToSet(Plain[v]), Plain, N) \subseteq U
          BY <4>1, <4>4, <4>5, <4>7, NAssumption, WithinLeast
        <4> QED BY <3>2, <4>6, <4>8 DEF Circular
      <3> QED BY <3>1, <3>2 DEF RealCycles
    <2> QED BY <2>1, <2>2
  <1> QED BY Inductive, GraphHolds, CyclesHold, <1>1, PTL

(* A module that two listed files define, or none, is reported, for every  *)
(* makefile, every command line and every list of patterns.                *)
THEOREM ChecksAreReported == Spec => []ChecksReported
  <1>1. DepInv /\ GraphInv /\ Checked => ChecksReported
    <2> SUFFICES ASSUME DepInv, GraphInv, Checked, pc = "done"
                 PROVE  \A v \in ToSet(printed) : CheckedOne(v) /\ \A w \in ToSet(printed) : CheckedTwo(v, w)
      <3> SUFFICES ASSUME NEW v \in ToSet(printed), CheckedOne(v), \A w \in ToSet(printed) : CheckedTwo(v, w)
                   PROVE  /\ \A c \in opts.unique_prereq :
                                 v \in c.of /\ Cardinality(Found(c, v)) > 1 => <<"unique", v>> \in warnings
                          /\ \A c \in opts.exists_prereq :
                                 v \in c.of /\ Found(c, v) = {} /\ ToSet(extra[v]) = {}
                                     => <<"exists", v>> \in warnings
                          /\ \A g \in opts.unique_basename, w \in ToSet(printed) :
                                 v # w /\ {v, w} \subseteq g /\ Basename[v] = Basename[w]
                                     => <<"basename", v>> \in warnings
        BY Zenon DEF ChecksReported, Found
      <3> QED BY DEF CheckedOne, CheckedTwo
    <2> TAKE v \in ToSet(printed)
    <2>1. keys # <<>>
      BY NothingPrinted
    <2>2. \A x \in ToSet(printed) : x \in Vertex /\ visited[x] # Unseen
      <3>1. printed \in Seq(Vertex) /\ \A x \in Vertex : x \in ToSet(printed) <=> visited[x] # Unseen
        BY <2>1, ListFacts
      <3>2. ToSet(printed) \subseteq Vertex
        BY <3>1 DEF ToSet
      <3> QED BY <3>1, <3>2
    <2> QED BY <2>2, CheckedIs
  <1> QED BY Inductive, GraphHolds, CheckedHolds, <1>1, PTL
=============================================================================
