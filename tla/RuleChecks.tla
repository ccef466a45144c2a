----------------------------- MODULE RuleChecks ------------------------------
(***************************************************************************)
(* What the rules of the query DSL (archetype/dsl/query.py) and the        *)
(* built-in rules (archetype/rules) find in an import graph G, a record of *)
(* its nodes and its edges.  Pure operators.  A call gives its violations, *)
(* and the patterns that matched no module (_record_unmatched_pattern).    *)
(***************************************************************************)
EXTENDS ModulePattern

Found(G, violations, patterns) ==
  [ violations |-> violations,
    unmatched |-> {p \in patterns : Matching(p, G.nodes) = {}} ]

Passes(found) == found.violations = {}

Successors(G, m) == {e[2] : e \in {f \in G.edges : f[1] = m}}
Predecessors(G, m) == {e[1] : e \in {f \in G.edges : f[2] = m}}
Subgraph(G, ms) == [nodes |-> ms, edges |-> G.edges \cap (ms \X ms)]

(* nx.descendants: what a search from m reaches, without m.                *)
Descendants(G, m) ==
  LET within[n \in 0 .. Cardinality(G.nodes)] ==
        IF n = 0 THEN {m}
        ELSE LET near == within[n - 1]
             IN  near \cup UNION {Successors(G, k) : k \in near}
  IN  within[Cardinality(G.nodes)] \ {m}

-----------------------------------------------------------------------------
(* ImportQuery.                                                            *)
MustNotImport(G, source, target) ==
  Found(G, G.edges \cap (Matching(source, G.nodes) \X Matching(target, G.nodes)),
        {source, target})

(* Faulty: what is reached is looked for in the modules of the source.     *)
MustNotDependOnWithin(G, source, target) ==
  LET S == Subgraph(G, Matching(source, G.nodes) \cup Matching(target, G.nodes))
  IN  Found(G, {st \in Matching(source, G.nodes) \X Matching(target, G.nodes) :
                  st[2] \in Descendants(S, st[1])},
            {source, target})

MustNotDependOn(G, source, target) ==
  Found(G, {st \in Matching(source, G.nodes) \X Matching(target, G.nodes) :
              st[2] \in Descendants(G, st[1])},
        {source, target})

MustOnlyImportFrom(G, source, alloweds) ==
  LET allowed == UNION {Matching(p, G.nodes) : p \in alloweds}
  IN  Found(G, {e \in G.edges : e[1] \in Matching(source, G.nodes) /\ e[2] \notin allowed},
            {source} \cup alloweds)

MaxDepth(G, source, segments) ==
  Found(G, {e \in G.edges : e[1] \in Matching(source, G.nodes) /\ Len(e[2]) > segments},
        {source})

FanInAtMost(G, source, count) ==
  Found(G, {m \in Matching(source, G.nodes) : Cardinality(Predecessors(G, m)) > count},
        {source})

FanOutAtMost(G, source, count) ==
  Found(G, {m \in Matching(source, G.nodes) : Cardinality(Successors(G, m)) > count},
        {source})

(* nx.find_cycle stops at one cycle; it is reported at the first of its    *)
(* modules, which is one of those that come back to themselves.            *)
OnCycle(G) ==
  {m \in G.nodes : \/ <<m, m>> \in G.edges
                   \/ \E k \in Descendants(G, m) : <<k, m>> \in G.edges}

HasNoCycles(G, source) ==
  Found(G, OnCycle(Subgraph(G, Matching(source, G.nodes))), {source})

-----------------------------------------------------------------------------
(* nx.simple_cycles: a cycle is the set of its edges, with one into and    *)
(* one out of each of its modules.                                         *)
IsSimpleCycle(cycle) ==
  LET C == [nodes |-> {e[1] : e \in cycle}, edges |-> cycle]
  IN  /\ cycle # {}
      /\ C.nodes = {e[2] : e \in cycle}
      /\ Cardinality(C.nodes) = Cardinality(cycle)
      /\ \A m \in C.nodes : Descendants(C, m) = C.nodes \ {m}

SimpleCycles(G) ==
  LET looping == {e \in G.edges : e[1] \in {e[2]} \cup Descendants(G, e[2])}
  IN  {cycle \in SUBSET looping : IsSimpleCycle(cycle)}

(* Faulty: every cycle that touches a module of the pattern is reported.   *)
NoCyclesTouching(G, source) ==
  Found(G, {c \in SimpleCycles(G) : \E e \in c : e[1] \in Matching(source, G.nodes)}, {source})

(* rules/cycles.py, below MAX_REPORTED_CYCLES.                             *)
NoCycles(G, source) ==
  Found(G, SimpleCycles(Subgraph(G, Matching(source, G.nodes))), {source})

(* rules/boundaries.py.                                                    *)
OnlyImportedWithin(G, protected, parent) ==
  Found(G, {e \in G.edges : /\ e[1] \notin Matching(parent, G.nodes)
                            /\ e[2] \in Matching(protected, G.nodes)},
        {protected, parent})

(* rules/deprecated.py.                                                    *)
Deprecated(G, pattern) ==
  LET matched == Matching(pattern, G.nodes)
  IN  Found(G, {e \in G.edges : e[1] \notin matched /\ e[2] \in matched}, {pattern})

-----------------------------------------------------------------------------
(* Faulty: a later pattern takes a module over.                            *)
LastOwnerIn(patterns, m) ==
  SelectLastInSeq(patterns, LAMBDA p : Matching(p, {m}) # {})

(* The number of the first of some patterns that a module matches, 0 if it *)
(* matches none: node_owner and node_layer_index.                          *)
OwnerIn(patterns, m) ==
  SelectInSeq(patterns, LAMBDA p : Matching(p, {m}) # {})

(* rules/independence.py.                                                  *)
Independent(G, patterns) ==
  Found(G, {e \in G.edges : LET s == OwnerIn(patterns, e[1])
                                t == OwnerIn(patterns, e[2])
                            IN  s # 0 /\ t # 0 /\ s # t},
        ToSet(patterns))

(* Faulty: only neighbouring layers are compared.                          *)
AreOrderedPairwise(G, patterns) ==
  Found(G, UNION {G.edges \cap (Matching(patterns[i + 1], G.nodes) \X Matching(patterns[i], G.nodes)) :
                    i \in 1 .. Len(patterns) - 1},
        ToSet(patterns))

(* rules/layers.py, the upper layers first.                                *)
AreOrdered(G, patterns) ==
  Found(G, {e \in G.edges : \E upper, lower \in DOMAIN patterns :
                              /\ upper < lower
                              /\ e[1] \in Matching(patterns[lower], G.nodes)
                              /\ e[2] \in Matching(patterns[upper], G.nodes)},
        IF Len(patterns) > 1 THEN ToSet(patterns) ELSE {})

AreAdjacent(G, patterns) ==
  Found(G, {e \in G.edges : LET s == OwnerIn(patterns, e[1])
                                t == OwnerIn(patterns, e[2])
                            IN  s # 0 /\ t # 0 /\ t - s \notin {0, 1}},
        ToSet(patterns))

-----------------------------------------------------------------------------
(* rules/public_api.py: the packages that a pattern names are the topmost  *)
(* of the matches among the modules and the packages above them.           *)
ImpliedNames(G) == (UNION {Prefixes(m) : m \in G.nodes}) \ {<<>>}

ApiRoots(G, pattern) ==
  LET matched == Matching(pattern, ImpliedNames(G))
  IN  {m \in matched : Front(m) \notin matched}

Packages(G, pattern) ==
  {m \in ApiRoots(G, pattern) : \E n \in G.nodes : IsStrictPrefix(m, n)}

(* enforce: declared[m] is the __all__ of a package that has one.  Without *)
(* it, or without an __init__.py, the rule ends in an error.               *)
PublicApiErrs(G, pattern, declared) == \E m \in Packages(G, pattern) : m \notin DOMAIN declared

PublicApi(G, pattern, declared) ==
  [ violations |->
      {em \in G.edges \X Packages(G, pattern) :
         LET e == em[1]  m == em[2]
         IN  /\ ~IsPrefix(m, e[1]) /\ IsStrictPrefix(m, e[2])
             /\ e[2][Len(m) + 1] \notin declared[m]},
    unmatched |-> IF ApiRoots(G, pattern) = {} THEN {pattern} ELSE {} ]
=============================================================================
