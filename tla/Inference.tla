----------------------------- MODULE Inference -----------------------------
(***************************************************************************)
(* archetype init --infer (archetype/infer.py): from the imports between   *)
(* the components of a project, the direct children of its package, infer  *)
(* layers, leaks, independent and protected packages, write them as rules, *)
(* run these through the rule engine on all the code that archetype check  *)
(* sees, tests included, and downgrade to @warn what fails there.          *)
(*                                                                         *)
(* Components are numbered in the order of their names.  Module imports    *)
(* are counted by pair of components; loops of modules are a Boolean.      *)
(***************************************************************************)
EXTENDS Naturals, SequencesExt

CONSTANTS
  Components,        \* 1 .. n
  Slug,              \* Slug[c]: the name of c in the name of a rule
  Candidates,        \* internal and _private packages in the order of infer.py that
                     \* are in a component,
                     \* records of slug, internal, inside: the candidates it is in
  Projects,          \* the projects to infer from, but for their imports
  Counts,            \* how often one component may import another one
  LeakRatio,         \* _LEAK_RATIO
  MaxBoundaryRules,  \* _MAX_BOUNDARY_RULES
  MaxLeakRules       \* _MAX_LEAK_RULES

Pairs == {e \in Components \X Components : e[1] # e[2]}
Candidate == DOMAIN Candidates

(* A project: the most pairs of components with imports, the imports its   *)
(* production code has of each candidate from inside and outside the       *)
(* candidate's parent, components that import the package they are in,     *)
(* whether modules form a loop, and what the tests add to all that.        *)
ASSUME ProjectAssumption ==
  \A p \in Projects :
    /\ p.most \in Nat /\ p.tests \subseteq Pairs
    /\ p.importers \in [Candidate -> SUBSET {"inside", "outside"}]
    /\ p.testImporters \subseteq Candidate
    /\ p.facade \subseteq Components
    /\ p.loops \in BOOLEAN /\ p.testLoops \in BOOLEAN

ASSUME ConstantAssumption ==
  /\ IsFiniteSet(Components) /\ Components \subseteq Nat
  /\ Len(Candidates) \in Nat /\ Candidate = 1 .. Len(Candidates)
  /\ \A i \in Candidate : Candidates[i].internal \in BOOLEAN /\ Candidates[i].inside \subseteq 1 .. i - 1
  /\ Counts \subseteq Nat \ {0}
  /\ LeakRatio \in Nat /\ MaxBoundaryRules \in Nat /\ MaxLeakRules \in Nat

VARIABLES
  project,      \* the project, which stays as it is,
  imports,      \* and the count of the imports between its components
  phase,        \* what is done next
  judged,       \* groups of looping components that are leaks or tangled
  cut,          \* imports cut from the group in hand
  leaks,        \* suspected leaks
  tangled,      \* inference.tangled
  layers,       \* inference.layers, top to bottom
  independent,  \* inference.independent
  at,           \* the next candidate to protect
  protected,    \* inference.protected
  rules,        \* inference.rules
  attempt,      \* which run of the generated file this is
  results,      \* the results of the last run
  registry      \* the names in the process-wide rule registry

inferVars == <<judged, cut, leaks, tangled, layers, independent, at, protected>>
code == <<project, imports>>
vars == <<code, phase, inferVars, rules, attempt, results, registry>>

(* What the caller has registered.                                         *)
CallersRules == <<<<"a rule of the caller">>>>

Edges == {e \in Pairs : imports[e] > 0}
Weight(es) == Cardinality(UNION {{e} \X (1 .. imports[e]) : e \in es})
Inside(es, group) == es \cap (group \X group)

Transpose(es) == {<<e[2], e[1]>> : e \in es}

(* The pairs with a way from the first to the second: no set of components *)
(* that has all that its members import has the first only.                *)
Reach(es) ==
  LET closed == {S \in SUBSET Components : \A e \in es : e[1] \in S => e[2] \in S}
  IN  {mn \in Components \X Components : \A S \in closed : mn[1] \in S => mn[2] \in S}

(* The strongly connected groups of more than one component.               *)
Groups ==
  LET reach == Reach(Edges)
  IN  {g \in {{n \in Components : {<<m, n>>, <<n, m>>} \subseteq reach} : m \in Components} :
         Cardinality(g) > 1}

(* sorted(): the elements of S, those that are before others first.        *)
Sorted(S, before) ==
  CHOOSE s \in [1 .. Cardinality(S) -> S] :
    \A i, j \in DOMAIN s : i < j => <<s[i], s[j]>> \in before

Rule(name, check, of, warn) == [name |-> name, check |-> check, of |-> of, warn |-> warn]

TypeOK ==
  /\ project \in Projects /\ imports \in [Pairs -> Counts \cup {0}]
  /\ phase \in {"tangles", "independent", "protect", "build", "verify", "running", "raising",
                "verified", "done", "failed"}
  /\ judged \subseteq SUBSET Components /\ tangled \subseteq judged
  /\ cut \subseteq Edges /\ leaks \subseteq Edges
  /\ ToSet(layers) \subseteq Components /\ independent \subseteq Components
  /\ at \in 1 .. Len(Candidates) + 1
  /\ ToSet(protected) \subseteq Candidate /\ Len(protected) <= MaxBoundaryRules
  /\ \A i \in DOMAIN rules :
       /\ rules[i].check \in {"layers", "independent", "protect", "cycles", "leak"}
       /\ rules[i].warn \in BOOLEAN
  /\ attempt \in {1, 2}
  /\ ToSet(results) \subseteq {"passed", "warned", "failed"}

Init ==
  /\ project \in Projects
  /\ \E es \in SUBSET Pairs :
       /\ Cardinality(es) <= project.most
       /\ \E count \in [es -> Counts] :
            imports = [e \in Pairs |-> IF e \in es THEN count[e] ELSE 0]
  /\ phase = "tangles"
  /\ judged = {} /\ cut = {} /\ leaks = {} /\ tangled = {}
  /\ layers = <<>> /\ independent = {}
  /\ at = 1 /\ protected = <<>>
  /\ rules = <<>> /\ attempt = 1 /\ results = <<>>
  /\ registry = CallersRules

-----------------------------------------------------------------------------
(* _break_tangles, for the first of the groups not judged yet.             *)
Group ==
  LET left == Groups \ judged
  IN  CHOOSE g \in left : \A h \in left : Min(g) <= Min(h)

(* The imports of the group that are on a loop still.                      *)
Looping ==
  LET group == Group
      left == Inside(Edges, group) \ cut
      reach == Reach(left)
  IN  {e \in left : <<e[2], e[1]>> \in reach}

(* min by count, source and target.                                        *)
Precedes(e, f) ==
  \/ imports[e] < imports[f]
  \/ imports[e] = imports[f] /\ e[1] < f[1]
  \/ imports[e] = imports[f] /\ e[1] = f[1] /\ e[2] <= f[2]

Cut ==
  /\ phase = "tangles" /\ Groups # judged
  /\ LET looping == Looping
     IN  \E e \in looping :
           /\ \A f \in looping : Precedes(e, f)
           /\ cut' = cut \cup {e}
  /\ UNCHANGED <<code, phase, judged, leaks, tangled, layers, independent, at, protected,
                 rules, attempt, results, registry>>

(* Faulty: what is cut is compared to all the imports of the group.        *)
JudgeByTotal ==
  /\ phase = "tangles" /\ Groups # judged
  /\ Looping = {}
  /\ judged' = judged \cup {Group}
  /\ IF Weight(cut) * LeakRatio <= Weight(Inside(Edges, Group))
     THEN leaks' = leaks \cup cut /\ UNCHANGED tangled
     ELSE tangled' = tangled \cup {Group} /\ UNCHANGED leaks
  /\ cut' = {}
  /\ UNCHANGED <<code, phase, layers, independent, at, protected,
                 rules, attempt, results, registry>>

(* No loop remains: what was cut is leaks if it is rare, else the group    *)
(* is tangled.                                                             *)
Judge ==
  /\ phase = "tangles" /\ Groups # judged
  /\ Looping = {}
  /\ judged' = judged \cup {Group}
  /\ IF Weight(cut) * LeakRatio <= Weight(Inside(Edges, Group)) - Weight(cut)
     THEN leaks' = leaks \cup cut /\ UNCHANGED tangled
     ELSE tangled' = tangled \cup {Group} /\ UNCHANGED leaks
  /\ cut' = {}
  /\ UNCHANGED <<code, phase, layers, independent, at, protected,
                 rules, attempt, results, registry>>

-----------------------------------------------------------------------------
Connected == {c \in Components : \E e \in Edges : c \in {e[1], e[2]}}
CleanEdges == Edges \ leaks
Layered == Connected \ UNION tangled
LayeredEdges == Inside(CleanEdges, Layered)

(* Faulty: a chain is as good as its heaviest import.                      *)
BetterByWeight(c, d) == c.weight >= d.weight

(* Chains compare by length, then by imports.                              *)
Better(c, d) ==
  Len(c.path) > Len(d.path) \/ (Len(c.path) = Len(d.path) /\ c.weight >= d.weight)

(* The best of the chains; among equal ones the first by the name of the   *)
(* component with this number, in which they differ.                       *)
BestOf(chains, number) ==
  LET best == {c \in chains : \A d \in chains : Better(c, d)}
  IN  CHOOSE c \in best : \A d \in best : c.path[number] <= d.path[number]

(* _longest_chain: the best chain from each component is got from those of *)
(* the components it imports.  In n steps chains of n + 1 components are   *)
(* got; without loops, none has more than there are components.            *)
LongestChain ==
  LET Via(c, chain) ==
        [path |-> <<c>> \o chain.path, weight |-> chain.weight + imports[<<c, chain.path[1]>>]]
      best[n \in 0 .. Cardinality(Layered)] ==
        [c \in Layered |->
           LET successors == {d \in Layered : <<c, d>> \in LayeredEdges}
           IN  IF n = 0 \/ successors = {} THEN [path |-> <<c>>, weight |-> 0]
               ELSE BestOf({Via(c, best[n - 1][d]) : d \in successors}, 2)]
  IN  BestOf({best[Cardinality(Layered)][c] : c \in Layered}, 1).path

InferLayers ==
  /\ phase = "tangles" /\ Groups = judged
  /\ layers' = IF LayeredEdges # {} THEN LongestChain ELSE <<>>
  /\ phase' = "independent"
  /\ UNCHANGED <<code, judged, cut, leaks, tangled, independent, at, protected,
                 rules, attempt, results, registry>>

InChain(e) == {e[1], e[2]} \subseteq ToSet(layers)
Position(c) == CHOOSE i \in DOMAIN layers : layers[i] = c

(* Faulty: only leaks that get a rule of their own are kept out.           *)
LayerLeaksReported ==
  {e \in leaks : /\ Cardinality({f \in leaks : Precedes(f, e)}) <= MaxLeakRules
                 /\ InChain(e) /\ Position(e[2]) < Position(e[1])}

LayerLeaks == {e \in leaks : InChain(e) /\ Position(e[2]) < Position(e[1])}

(* The layers that no leak reaches into.                                   *)
EnforcedLayers ==
  LET members == {c \in ToSet(layers) : \A e \in LayerLeaks : e[2] # c}
  IN  Sorted(members, {cd \in members \X members : Position(cd[1]) < Position(cd[2])})

-----------------------------------------------------------------------------
(* Faulty: only imports of one another count.                              *)
ComparableDirectly == Edges \cup Transpose(Edges)

(* The pairs of components of which one reaches the other.                 *)
Comparable == Reach(Edges) \cup Transpose(Reach(Edges))

Consumers ==
  {c \in Connected \ ((UNION tangled) \cup project.facade) : \E e \in CleanEdges : e[1] = c}

(* _independent_group: greedily, those comparable to the fewest first.     *)
IndependentGroup(candidates) ==
  LET comparable == Comparable
      comparability == [c \in candidates |->
                          Cardinality({d \in candidates \ {c} : <<c, d>> \in comparable})]
      order == Sorted(candidates,
                      {cd \in candidates \X candidates :
                         \/ comparability[cd[1]] < comparability[cd[2]]
                         \/ comparability[cd[1]] = comparability[cd[2]] /\ cd[1] < cd[2]})
      chosen[n \in 0 .. Cardinality(candidates)] ==
        IF n = 0 THEN {}
        ELSE IF \A d \in chosen[n - 1] : <<order[n], d>> \notin comparable
        THEN chosen[n - 1] \cup {order[n]}
        ELSE chosen[n - 1]
      group == chosen[Cardinality(candidates)]
  IN  IF Cardinality(group) >= 2 THEN group ELSE {}

InferIndependent ==
  /\ phase = "independent"
  /\ independent' = IndependentGroup(Consumers)
  /\ phase' = "protect"
  /\ UNCHANGED <<code, judged, cut, leaks, tangled, layers, at, protected,
                 rules, attempt, results, registry>>

(* A candidate worth a rule: an internal package, or a private one that is *)
(* used, by nobody but its parent; and not inside a protected one.         *)
Protects(i) ==
  /\ Candidates[i].inside \cap ToSet(protected) = {}
  /\ Candidates[i].internal \/ project.importers[i] = {"inside"}

Protect ==
  /\ phase = "protect"
  /\ at <= Len(Candidates) /\ Len(protected) < MaxBoundaryRules
  /\ protected' = IF Protects(at) THEN Append(protected, at) ELSE protected
  /\ at' = at + 1
  /\ UNCHANGED <<code, phase, judged, cut, leaks, tangled, layers, independent,
                 rules, attempt, results, registry>>

-----------------------------------------------------------------------------
LayerRules ==
  LET Flow(members) == Rule(<<"layers-flow-downward">>, "layers", members, FALSE) IN
    CASE layers = <<>> -> <<>>
      [] layers # <<>> /\ LayerLeaks = {} -> <<Flow(layers)>>
      [] layers # <<>> /\ LayerLeaks # {} ->
           (IF Len(EnforcedLayers) >= 2 THEN <<Flow(EnforcedLayers)>> ELSE <<>>)
             \o <<Rule(<<"all-layers-flow-downward">>, "layers", layers, TRUE)>>

IndependentRules ==
  IF independent = {} THEN <<>>
  ELSE <<Rule(<<"independent-packages">>, "independent",
              Sorted(independent, {cd \in independent \X independent : cd[1] < cd[2]}), FALSE)>>

ProtectRules ==
  [i \in DOMAIN protected |->
     Rule(<<"protect", Candidates[protected[i]].slug>>, "protect", <<protected[i]>>,
          "outside" \in project.importers[protected[i]])]

CycleRule == Rule(<<"no-import-cycles">>, "cycles", <<>>, project.loops)

(* The first leaks, but for those the rule on all layers reports.          *)
LeakRules ==
  LET first == {e \in leaks : Cardinality({f \in leaks : Precedes(f, e)}) <= MaxLeakRules}
      reported == Sorted(first \ LayerLeaks,
                         {ef \in leaks \X leaks : ef[1] # ef[2] /\ Precedes(ef[1], ef[2])})
  IN  [i \in DOMAIN reported |->
         Rule(<<"must-not-import", Slug[reported[i][1]], Slug[reported[i][2]]>>,
              "leak", reported[i], TRUE)]

BuildRules ==
  /\ phase = "protect"
  /\ at > Len(Candidates) \/ Len(protected) = MaxBoundaryRules
  /\ rules' = LayerRules \o IndependentRules \o ProtectRules \o <<CycleRule>> \o LeakRules
  /\ phase' = "verify"
  /\ UNCHANGED <<code, inferVars, attempt, results, registry>>

-----------------------------------------------------------------------------
(* The rules, of code with the imports es between components, imports of   *)
(* these candidates from outside their parents, and these loops.           *)
AreOrdered(of, es) == \A i, j \in DOMAIN of : i < j => <<of[j], of[i]>> \notin es
AreIndependent(of, es) == \A i, j \in DOMAIN of : <<of[i], of[j]>> \notin es
OnlyImportedWithin(i, outside) == i \notin outside
NoCycles(loops) == ~loops
MustNotImport(source, target, es) == <<source, target>> \notin es

Holds(rule, es, outside, loops) ==
  LET of == rule.of IN
    CASE rule.check = "layers" -> AreOrdered(of, es)
      [] rule.check = "independent" -> AreIndependent(of, es)
      [] rule.check = "protect" -> OnlyImportedWithin(of[1], outside)
      [] rule.check = "cycles" -> NoCycles(loops)
      [] rule.check = "leak" -> MustNotImport(of[1], of[2], es)

UsedOutside == {i \in Candidate : "outside" \in project.importers[i]}

HoldsInProduction(rule) == Holds(rule, Edges, UsedOutside, project.loops)

HoldsInCheck(rule) ==
  Holds(rule, Edges \cup project.tests, UsedOutside \cup project.testImporters,
        project.loops \/ project.testLoops)

Names == [i \in DOMAIN rules |-> rules[i].name]

(* run_architecture_source: the registry is cleared and the generated file *)
(* executed, which registers its rules up to one whose name is taken ...   *)
Execute ==
  /\ phase = "verify"
  /\ IF IsInjective(Names)
     THEN registry' = Names /\ phase' = "running"
     ELSE /\ \E n \in 1 .. Len(Names) :
               /\ IsInjective(SubSeq(Names, 1, n)) /\ ~IsInjective(SubSeq(Names, 1, n + 1))
               /\ registry' = SubSeq(Names, 1, n)
          /\ phase' = "raising"
  /\ UNCHANGED <<code, inferVars, rules, attempt, results>>

(* ... the rules are run and the caller's registry is restored.            *)
RunRules ==
  /\ phase = "running"
  /\ results' = [i \in DOMAIN rules |->
                   IF HoldsInCheck(rules[i]) THEN "passed"
                   ELSE IF rules[i].warn THEN "warned" ELSE "failed"]
  /\ registry' = CallersRules
  /\ phase' = "verified"
  /\ UNCHANGED <<code, inferVars, rules, attempt>>

(* Faulty: the registry is restored on success only.                       *)
RaiseUnrestored ==
  /\ phase = "raising"
  /\ phase' = "failed"
  /\ UNCHANGED <<code, inferVars, rules, attempt, results, registry>>

(* The ValueError of register ends the command, the registry restored.     *)
Raise ==
  /\ phase = "raising"
  /\ registry' = CallersRules
  /\ phase' = "failed"
  /\ UNCHANGED <<code, inferVars, rules, attempt, results>>

(* Faulty: only the first failing rule is downgraded.                      *)
DowngradeFirst ==
  /\ phase = "verified" /\ attempt = 1
  /\ \E i \in DOMAIN results : results[i] = "failed"
  /\ LET first == Min({i \in DOMAIN results : results[i] = "failed"})
     IN  rules' = [rules EXCEPT ![first].warn = TRUE]
  /\ attempt' = 2
  /\ phase' = "verify"
  /\ UNCHANGED <<code, inferVars, results, registry>>

(* The rules that failed become warnings and the file is run again.        *)
Downgrade ==
  /\ phase = "verified" /\ attempt = 1
  /\ \E i \in DOMAIN results : results[i] = "failed"
  /\ rules' = [i \in DOMAIN rules |-> [rules[i] EXCEPT !.warn = @ \/ results[i] = "failed"]]
  /\ attempt' = 2
  /\ phase' = "verify"
  /\ UNCHANGED <<code, inferVars, results, registry>>

Done ==
  /\ phase = "verified"
  /\ attempt = 2 \/ \A i \in DOMAIN results : results[i] # "failed"
  /\ phase' = "done"
  /\ UNCHANGED <<code, inferVars, rules, attempt, results, registry>>

(* The file is written, or the command has failed.                         *)
Over == phase \in {"done", "failed"} /\ UNCHANGED vars

Next ==
  \/ Cut \/ Judge \/ InferLayers \/ InferIndependent \/ Protect
  \/ BuildRules \/ Execute \/ RunRules \/ Raise \/ Downgrade \/ Done \/ Over

Spec == Init /\ [][Next]_vars

-----------------------------------------------------------------------------
(* "Every rule describes structure the code already has": before it is     *)
(* verified, a rule that is no warning holds of the code it was inferred   *)
(* from, so that what is downgraded fails in tests and examples only, as   *)
(* the comment over it says (infer.py:437-439, infer.py:743, 802-808).     *)
RulesHoldByConstruction ==
  phase = "verify" /\ attempt = 1 =>
    \A i \in DOMAIN rules : rules[i].warn \/ HoldsInProduction(rules[i])

(* The generated file passes on all the code that check will see: the      *)
(* first archetype check is green (infer.py:907-927).                      *)
FirstCheckGreen == phase = "done" => "failed" \notin ToSet(results)

(* "The longest chain of packages where each imports the next and nothing  *)
(* imports back up" (rules.md:128): no sequence of components that can be  *)
(* layered is a longer chain, whatever order the search took.              *)
Chains ==
  {s \in UNION {[1 .. n -> Layered] : n \in 2 .. Cardinality(Layered)} :
     \A i \in 1 .. Len(s) - 1 : <<s[i], s[i + 1]>> \in LayeredEdges}

LayersAreLongestChain ==
  phase = "independent" =>
    /\ layers # <<>> <=> Chains # {}
    /\ layers # <<>> => layers \in Chains
    /\ \A s \in Chains : Len(s) <= Len(layers)
    /\ \A e \in Edges : InChain(e) => Position(e[1]) < Position(e[2]) \/ e \in LayerLeaks

(* A leak is a rare import that closes a loop: without it there still is a *)
(* way back, the leaks of a group are at most a quarter of its imports,    *)
(* and the components that are not tangled are free of loops without them  *)
(* (infer.py:251-289, infer.py:429).                                       *)
LeaksCloseLoops ==
  phase = "independent" =>
    /\ \A e \in leaks : <<e[2], e[1]>> \in Reach(Edges \ {e})
    /\ \A g \in Groups \ tangled :
         (LeakRatio + 1) * Weight(Inside(leaks, g)) <= Weight(Inside(Edges, g))
    /\ LET reach == Reach(LayeredEdges) IN \A e \in LayeredEdges : <<e[2], e[1]>> \notin reach

(* The independent components are consumers of which none reaches another  *)
(* one, no other consumer could be added, and there are some whenever two  *)
(* consumers are apart (infer.py:301-330).                                 *)
IndependentIsMaximal ==
  phase = "protect" =>
    LET reach == Reach(Edges)
        Apart(c, d) == {<<c, d>>, <<d, c>>} \cap reach = {}
    IN  /\ \A c, d \in independent : c # d => Apart(c, d)
        /\ \A c \in Consumers \ independent :
             IF independent = {} THEN \A d \in Consumers \ {c} : ~Apart(c, d)
                                 ELSE \E d \in independent : ~Apart(c, d)

(* Verification is not seen from outside: whatever becomes of the run, the *)
(* caller's rules are registered when it is over (infer.py:855-864).       *)
CallerUndisturbed == phase \notin {"running", "raising"} => registry = CallersRules

=============================================================================
