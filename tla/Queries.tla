------------------------------ MODULE Queries --------------------------------
(***************************************************************************)
(* Rules over the import graph of a project: what imports(), module(),     *)
(* layers(), no_cycles() and the others find in whatever graph the files   *)
(* of the project give (ImportGraph), for whatever patterns.               *)
(***************************************************************************)
EXTENDS ImportGraph, RuleChecks

CONSTANTS
  Patterns,      \* the patterns that the rules are called with
  LayerLists,    \* the lists of patterns that the rules are called with
  NamePatterns,  \* patterns for which matching itself is compared,
  Names          \* on these module names

(* Patterns that validate_pattern accepts, in lists of two at least, and   *)
(* names of modules.                                                       *)
ASSUME QueriesAssumption ==
  /\ \A pattern \in Patterns \cup NamePatterns : IsPattern(pattern)
  /\ \A patterns \in LayerLists :
       /\ patterns \in Seq(ToSet(patterns)) /\ Len(patterns) >= 2
       /\ \A pattern \in ToSet(patterns) : IsPattern(pattern)
  /\ \A name \in Names : IsModuleName(name)

vars == graphVars

Init == GraphInit
Next == ReadStatement
Spec == Init /\ [][Next]_vars

G == [nodes |-> nodes, edges |-> edges]

(* _matched_python_files of rules/naming.py: all files below the analysis  *)
(* root, named from there, whichever package root they belong to.          *)
NamingFiles(p, ms) ==
  {f \in p.files : IsPrefix(p.root, f.dir) /\ ModuleOf(p.root, f) \in ms \ {<<>>}}

-----------------------------------------------------------------------------
(* The regular expression of a pattern, with its joints of "**" and dots,  *)
(* and the shortcut of matches_pattern select exactly the modules that the *)
(* documentation says the pattern selects (pattern.py:33-107;              *)
(* rules.md:18-34).                                                        *)
PatternsAgree ==
  read = {} => \A pattern \in NamePatterns : PatternAgrees(pattern, Names)

(* The imports in a set of edges can be listed bottom up, that is, taking  *)
(* away modules that import nothing any more leaves none.                  *)
HasOrder(S) ==
  LET left[n \in 0 .. Cardinality(S.nodes)] ==
        IF n = 0 THEN S.nodes
        ELSE LET last == left[n - 1]
             IN  {m \in last : Successors(S, m) \cap last # {}}
  IN  left[Cardinality(S.nodes)] = {}

(* The two cycle rules agree with one another and with the definition: one *)
(* passes, and so does the other, if the modules of the pattern can be     *)
(* listed with every import downwards; no_cycles reports each module that  *)
(* is in a cycle, an import of itself included (query.py:244-273;          *)
(* cycles.py:29-108).                                                      *)
CyclesAgree ==
  \A p \in Patterns :
    /\ Passes(HasNoCycles(G, p)) <=> Passes(NoCycles(G, p))
    /\ Passes(NoCycles(G, p)) <=> HasOrder(Subgraph(G, Matching(p, nodes)))
    /\ HasNoCycles(G, p).violations
         = {e[1] : e \in UNION NoCycles(G, p).violations}

AreAll(patterns) == UNION {Matching(p, nodes) : p \in ToSet(patterns)} = nodes

(* What layers() is for, whether the layers are apart or overlap: where    *)
(* they have every module, in order, no chain of imports leads up, so      *)
(* must_not_depend_on passes too; and if they are in order or adjacent,    *)
(* and no layer has a cycle in itself, the project has none                *)
(* (layers.py:22-141; query.py:197-273; cycles.py:29-108).                 *)
LayersExcludeLoops ==
  \A patterns \in LayerLists :
    AreAll(patterns) =>
      /\ Passes(AreOrdered(G, patterns)) =>
           \A upper, lower \in DOMAIN patterns :
             upper < lower => Passes(MustNotDependOn(G, patterns[lower], patterns[upper]))
      /\ /\ Passes(AreOrdered(G, patterns)) \/ Passes(AreAdjacent(G, patterns))
         /\ \A p \in ToSet(patterns) : Passes(HasNoCycles(G, p))
         => Passes(NoCycles(G, <<GlobStar>>))

-----------------------------------------------------------------------------
(* The modules of a layer that no earlier one has, and those in several.   *)
Part(patterns, i) ==
  Matching(patterns[i], nodes) \ UNION {Matching(patterns[k], nodes) : k \in 1 .. i - 1}

Shared(patterns) ==
  {m \in nodes : \E i, j \in DOMAIN patterns :
     i # j /\ m \in Matching(patterns[i], nodes) \cap Matching(patterns[j], nodes)}

(* The rules on lists of patterns agree, whether or not the patterns       *)
(* overlap.  For independent and are_adjacent a module is in its first     *)
(* pattern, and in no other: the one reports every import from part to     *)
(* part, the other all of these but those to the next part.  are_ordered   *)
(* takes each pair of patterns for itself and reports every import up from *)
(* part to part, all of which are_adjacent reports too; it is documented   *)
(* to report no other (layers.py:83, rules.md:202), yet may do so, by      *)
(* modules in several patterns, and by no others (independence.py:10-64,   *)
(* layers.py:22-141).                                                      *)
OverlapsAgree ==
  \A patterns \in LayerLists :
    LET layers == DOMAIN patterns
        across(pairs) ==
          edges \cap UNION {Part(patterns, ij[1]) \X Part(patterns, ij[2]) : ij \in pairs}
        ordered == AreOrdered(G, patterns).violations
        adjacent == AreAdjacent(G, patterns).violations
    IN  /\ Independent(G, patterns).violations
             = across({ij \in layers \X layers : ij[1] # ij[2]})
        /\ adjacent = across({ij \in layers \X layers : ij[2] \notin {ij[1], ij[1] + 1}})
        /\ across({ij \in layers \X layers : ij[2] < ij[1]}) \subseteq ordered
        /\ \A e \in ordered \ adjacent : e[1] \in Shared(patterns)

-----------------------------------------------------------------------------
(* must_not_depend_on finds what some chain of must_not_import would: the  *)
(* imports of a module itself, and what these depend on.                   *)
DependenciesAgree(p, q) ==
  \A st \in Matching(p, nodes) \X Matching(q, nodes) :
    st[1] # st[2] =>
      ( st \in MustNotDependOn(G, p, q).violations
        <=> \E k \in Successors(G, st[1]) : k = st[2] \/ st[2] \in Descendants(G, k) )

(* What two rules on single imports mean for chains of them.  Where        *)
(* only_imported_within(p, q) passes, a module outside q depends on one of *)
(* p through a module of q that imports it; where p and q may only import  *)
(* from one another, they depend on nothing else.                          *)
BoundariesHold(p, q) ==
  /\ Passes(OnlyImportedWithin(G, p, q)) =>
       \A st \in (nodes \ Matching(q, nodes)) \X Matching(p, nodes) :
         st[2] \in Descendants(G, st[1]) =>
           Descendants(G, st[1]) \cap Predecessors(G, st[2]) \cap Matching(q, nodes) # {}
  /\ Passes(MustOnlyImportFrom(G, p, {p, q})) /\ Passes(MustOnlyImportFrom(G, q, {p, q})) =>
       \A st \in MustNotDependOn(G, p, <<GlobStar>>).violations :
         st[2] \in Matching(p, nodes) \cup Matching(q, nodes)

(* A package with an empty __all__ can be imported from outside as itself  *)
(* only, one that declares all that is in it as anything.                  *)
PublicApiAgrees(p) ==
  LET packages == Packages(G, p)
      children(m) == {n[Len(m) + 1] : n \in {k \in nodes : IsStrictPrefix(m, k)}}
      empty == PublicApi(G, p, [m \in packages |-> {}])
  IN  /\ Passes(PublicApi(G, p, [m \in packages |-> children(m)]))
      /\ IsLiteral(p) /\ packages # {} =>
           {em[1] : em \in empty.violations}
             = Deprecated(G, p).violations \ {e \in edges : e[2] \in packages}

(* Neither naming rules nor resolve_module_file look at what the graph     *)
(* leaves out: a file that is ignored or excluded is found where a module  *)
(* that is read has its name.                                              *)
LeftOut == {f \in project.files : IsIgnored(f.dir) \/ IsExcluded(project, f.dir)}

(* Naming rules look at the files of the modules they match that are named *)
(* from the analysis root, and at no others that the graph has.            *)
NamingAgrees(p) ==
  LET rootFiles == {rf[2] : rf \in {sf \in PythonFiles(project) : sf[1] = project.root}}
  IN  project.root \in PackageRoots(project) =>
        NamingFiles(project, Matching(p, nodes)) \ LeftOut
          = {f \in rootFiles : ModuleOf(project.root, f) \in Matching(p, nodes)}

(* A module that fan-in or fan-out is reported for is located in a file    *)
(* that it was read from or that is left out, whichever package root is    *)
(* tried first.                                                            *)
LocationsAgree ==
  \A m \in LocalModules(project) :
    LET files == {rf[2] : rf \in {sf \in PythonFiles(project) : ModuleOf(sf[1], sf[2]) = m}}
    IN  /\ ResolveModuleFile(project, m) # {}
        /\ ResolveModuleFile(project, m) \subseteq files \cup LeftOut

(* Limits of nothing and of one agree with rules that need none: no        *)
(* fan-out is no import, no fan-in no importer, and a depth of one is no   *)
(* import of "*.*.**".                                                     *)
LimitsAgree(p) ==
  LET all == <<GlobStar>>
      star == Glob(UNION {ToSet(m) : m \in nodes})
  IN  /\ FanOutAtMost(G, p, 0).violations
           = {e[1] : e \in MustOnlyImportFrom(G, p, {}).violations}
      /\ FanInAtMost(G, p, 0).violations = {e[2] : e \in MustNotImport(G, all, p).violations}
      /\ MaxDepth(G, p, 1).violations
           = MustNotImport(G, p, <<star, star, GlobStar>>).violations

(* What rules say and what follows for another way to ask: each part says  *)
(* of which modules and files.  Files that the graph leaves out, which     *)
(* naming rules and resolve_module_file still see, and files below other   *)
(* package roots, which naming rules do not see, are excepted              *)
(* (query.py:163-432, boundaries.py:35-79, public_api.py:108-185,          *)
(* naming.py:20-48).                                                       *)
RulesAgree ==
  /\ LocationsAgree
  /\ \A p \in Patterns : PublicApiAgrees(p) /\ NamingAgrees(p) /\ LimitsAgree(p)
  /\ \A patterns \in LayerLists :
       LET p == patterns[1]  q == patterns[2]
       IN  /\ AreOrdered(G, <<q, p>>).violations = MustNotImport(G, p, q).violations
           /\ DependenciesAgree(p, q) /\ BoundariesHold(p, q)
=============================================================================
