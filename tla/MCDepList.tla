----------------------------- MODULE MCDepList -----------------------------
EXTENDS DepList

One(t, ps) == [targets |-> {t}, normal |-> ps, order_only |-> <<>>, hint |-> <<>>]

Up(S)   == Filter([i \in Vertex |-> i], S)
Down(S) == Reversed(Up(S))

(* Every graph over three names, self-loops of two of them included, its   *)
(* rules and prerequisites in either order.                                *)
Graph3 == {g \in [1 .. 3 -> SUBSET (1 .. 3)] : 3 \notin g[3]}
Makefile3(g) ==
    {<<One(1, Up(g[1])), One(2, Up(g[2])), One(3, Up(g[3]))>>,
     <<One(3, Down(g[3])), One(2, Down(g[2])), One(1, Down(g[1]))>>}

(* One more rule: a hint, an order-only prerequisite, several targets.     *)
More ==
    {<<>>,
     <<[targets |-> {1}, normal |-> <<>>, order_only |-> <<>>, hint |-> <<2>>]>>,
     <<[targets |-> {2}, normal |-> <<>>, order_only |-> <<3>>, hint |-> <<3, 1>>]>>,
     <<[targets |-> {1, 3}, normal |-> <<2>>, order_only |-> <<>>, hint |-> <<4>>]>>}

Checks == [of |-> {1, 3}, any |-> <<{2}, {3, 4}>>]
MCBasename == [v \in Vertex |-> IF v = 4 THEN 2 ELSE v]

Opts(mode, names, depth, reverse) ==
    [mode |-> mode, names |-> names, max_depth |-> depth,
     ignore_order_only |-> reverse, ignore_hints |-> FALSE, reverse |-> reverse,
     unique_prereq |-> {Checks}, exists_prereq |-> {Checks},
     unique_basename |-> {{2, 3, 4}}, check_cycles |-> TRUE]

Calls == {Opts("all", <<>>, -1, TRUE), Opts("target", <<1>>, -1, FALSE),
          Opts("target", <<3, 1, 4>>, -1, TRUE), Opts("prereq", <<1>>, -1, FALSE),
          Opts("prereq", <<2, 4>>, 1, TRUE), Opts("target", <<1, 2>>, 1, FALSE)}

(* Every graph over four names whose prerequisites have greater numbers,   *)
(* and one edge back.                                                      *)
Graph4 == {[v \in 1 .. 4 |-> g[v] \union (IF v = b[1] THEN {b[2]} ELSE {})] :
               g \in {h \in [1 .. 4 -> SUBSET (2 .. 4)] : \A v \in 1 .. 4 : \A p \in h[v] : v < p},
               b \in {<<0, 0>>, <<4, 1>>, <<4, 2>>, <<3, 1>>}}
Makefile4(g) == {<<One(1, Down(g[1])), One(2, Up(g[2])), One(3, Up(g[3])), One(4, Up(g[4]))>>}
Calls4 == {Opts("target", <<1>>, -1, FALSE), Opts("prereq", <<4>>, -1, TRUE), Opts("target", <<1>>, 2, FALSE)}

MCInputs ==
    [rules : {m \o a : m \in UNION {Makefile3(g) : g \in Graph3}, a \in More}, opts : Calls]
    \union [rules : {m \o a : m \in UNION {Makefile4(g) : g \in Graph4}, a \in More}, opts : Calls4]
=============================================================================
