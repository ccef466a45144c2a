---------------------------- MODULE PytestSession ----------------------------
(***************************************************************************)
(* One pytest session over several architecture.py files                   *)
(* (archetype/plugin/pytest_plugin.py), with the process-wide rule         *)
(* registry it collects from (RuleRegistry, rule() and use() of            *)
(* archetype/rule.py), the process-wide graph of load_project              *)
(* (archetype/dsl/query.py) and a shared rule pack, a module that Python   *)
(* executes on its first import only.                                      *)
(*                                                                         *)
(* An architecture.py is the list of its statements that touch the         *)
(* registry: a rule of its own, an import of the pack, a use() of it.      *)
(***************************************************************************)
EXTENDS Naturals, Sequences, SequencesExt, Functions

CONSTANTS
  Files,    \* the architecture.py files, each in a project of its own
  Names,    \* rule names
  Pack,     \* the names of the pack's rules, in order
  Scripts,  \* the statements an architecture.py may consist of
  NoFile    \* no file is being collected, no project loaded

Statement == [op : {"rule"}, name : Names] \cup {[op |-> "import"], [op |-> "use"]}

(* The pack has to be imported before it can be used.                      *)
ASSUME ScriptAssumption ==
  /\ Pack \in Seq(Names) /\ IsInjective(Pack)
  /\ \A s \in Scripts :
       /\ s \in Seq(Statement)
       /\ \A i \in DOMAIN s : s[i].op = "use" => \E j \in 1 .. i : s[j].op = "import"
  /\ NoFile \notin Files /\ "pack" \notin Files

VARIABLES
  script,     \* script[f]: the statements of f
  waiting,    \* files not collected yet
  current,    \* the file being collected
  line,       \* the statement that it executes, 0 before the first
  queue,      \* the functions that the statement has still to register
  registry,   \* registry._rules
  imported,   \* the pack is in sys.modules
  graph,      \* the project load_project loaded last
  items,      \* the items collected, in order: [file, func]
  broken,     \* files whose collection raised
  ran         \* ran[i]: the project whose graph item i was checked against

vars == <<script, waiting, current, line, queue, registry, imported, graph, items, broken, ran>>

(* A function is known by its name and by the statement that defines it,   *)
(* the one of that number in a file, or the pack's.                        *)
Function == [name : Names, of : Files \cup {"pack"}, at : Nat]

OwnFunction(f, i) == [name |-> script[f][i].name, of |-> f, at |-> i]
PackRules == [i \in DOMAIN Pack |-> [name |-> Pack[i], of |-> "pack", at |-> i]]

Init ==
  /\ script \in [Files -> Scripts]
  /\ waiting = Files
  /\ current = NoFile
  /\ line = 0 /\ queue = <<>>
  /\ registry = <<>>
  /\ imported = FALSE
  /\ graph = NoFile
  /\ items = <<>>
  /\ broken = {}
  /\ ran = <<>>

(* Faulty: the registry keeps the rules of the file before.                *)
CollectUncleared(f) ==
  /\ current = NoFile /\ f \in waiting
  /\ current' = f
  /\ waiting' = waiting \ {f}
  /\ graph' = f
  /\ line' = 0
  /\ UNCHANGED <<script, queue, registry, imported, items, broken, ran>>

(* ArchetypeFile.collect: clears the registry, loads the project and       *)
(* starts to execute the file.                                             *)
Collect(f) ==
  /\ current = NoFile /\ f \in waiting
  /\ current' = f
  /\ waiting' = waiting \ {f}
  /\ registry' = <<>>
  /\ graph' = f
  /\ line' = 0
  /\ UNCHANGED <<script, queue, imported, items, broken, ran>>

-----------------------------------------------------------------------------
(* The file goes on to its next statement, which registers functions.      *)
Executes(op, functions) ==
  /\ current # NoFile /\ queue = <<>>
  /\ line < Len(script[current]) /\ script[current][line + 1].op = op
  /\ line' = line + 1
  /\ queue' = functions
  /\ UNCHANGED <<script, waiting, current, registry, graph, items, broken, ran>>

(* @rule on a function of the file: a new function in every session.       *)
OwnRule ==
  /\ Executes("rule", <<OwnFunction(current, line + 1)>>)
  /\ UNCHANGED imported

(* The first import of the pack runs its @rule decorators; later imports   *)
(* run nothing.                                                            *)
ImportPack ==
  /\ Executes("import", IF imported THEN <<>> ELSE PackRules)
  /\ imported' = TRUE

(* use(pack) registers the functions of the pack module.                   *)
UsePack ==
  /\ Executes("use", PackRules)
  /\ UNCHANGED imported

(* Faulty: a name may be registered once, by whatever function.            *)
ClashesByName(fn) == \E other \in Range(registry) : fn.name = other.name

(* Another function is registered under this one's name.                   *)
Clashes(fn) == \E other \in Range(registry) : fn # other /\ fn.name = other.name

(* RuleRegistry.register: a function that is registered already is passed  *)
(* over.                                                                   *)
Register ==
  /\ queue # <<>> /\ ~Clashes(Head(queue))
  /\ registry' = IF Head(queue) \in Range(registry) THEN registry
                 ELSE Append(registry, Head(queue))
  /\ queue' = Tail(queue)
  /\ UNCHANGED <<script, waiting, current, line, imported, graph, items, broken, ran>>

(* It raises ValueError for another function of a registered name, and the *)
(* file yields nothing; a pack that raises leaves sys.modules.             *)
Refuse ==
  /\ queue # <<>> /\ Clashes(Head(queue))
  /\ broken' = broken \cup {current}
  /\ imported' = (imported /\ script[current][line].op # "import")
  /\ current' = NoFile /\ queue' = <<>>
  /\ UNCHANGED <<script, waiting, line, registry, graph, items, ran>>

(* The file has run: collect yields an item for each registered rule.      *)
EndCollect ==
  /\ current # NoFile /\ queue = <<>> /\ line = Len(script[current])
  /\ items' = items \o [i \in DOMAIN registry |-> [file |-> current, func |-> registry[i]]]
  /\ current' = NoFile
  /\ UNCHANGED <<script, waiting, line, queue, registry, imported, graph, broken, ran>>

(* Faulty: the last item is left out.                                      *)
RunItemButLast ==
  /\ waiting = {} /\ current = NoFile /\ broken = {}
  /\ Len(ran) + 1 < Len(items)
  /\ ran' = Append(ran, graph)
  /\ UNCHANGED <<script, waiting, current, line, queue, registry, imported, graph, items, broken>>

(* After all files are collected, and none has raised, the items run in    *)
(* order.  A rule queries the graph loaded last.                           *)
RunItem ==
  /\ waiting = {} /\ current = NoFile /\ broken = {}
  /\ Len(ran) < Len(items)
  /\ ran' = Append(ran, graph)
  /\ UNCHANGED <<script, waiting, current, line, queue, registry, imported, graph, items, broken>>

Next ==
  \/ \E f \in Files : Collect(f)
  \/ OwnRule \/ ImportPack \/ UsePack
  \/ Register \/ Refuse
  \/ EndCollect
  \/ RunItem

Spec == Init /\ [][Next]_vars

FairSpec == Spec /\ WF_vars(Next)

-----------------------------------------------------------------------------
TypeOK ==
  /\ script \in [Files -> Scripts]
  /\ waiting \subseteq Files /\ broken \subseteq Files
  /\ current \in Files \cup {NoFile} /\ graph \in Files \cup {NoFile}
  /\ line \in Nat
  /\ queue \in Seq(Function) /\ registry \in Seq(Function)
  /\ imported \in BOOLEAN
  /\ items \in Seq([file : Files, func : Function])
  /\ ran \in Seq(Files) /\ Len(ran) <= Len(items)

(* The numbers of the statements of f that are of this kind.               *)
Statements(f, op) == {i \in DOMAIN script[f] : script[f][i].op = op}

OwnRules(f) == {OwnFunction(f, i) : i \in Statements(f, "rule")}
Uses(f) == Statements(f, "use") # {}
Imports(f) == Statements(f, "import") # {}

(* The rules f declares: its own, and the pack's if it uses the pack; a    *)
(* mere import may or may not register the pack's.                         *)
Declared(f) == OwnRules(f) \cup (IF Uses(f) THEN Range(PackRules) ELSE {})
MayRegister(f) == OwnRules(f) \cup (IF Imports(f) THEN Range(PackRules) ELSE {})

Collected == Files \ (waiting \cup broken \cup {current})
ItemsOf(f) == {i \in DOMAIN items : items[i].file = f}

(* Whatever was collected before it, a file that takes the pack with use() *)
(* or not at all yields one item for each rule it declares and no others:  *)
(* none left over from another file, none lost because the pack had been   *)
(* imported, none twice (rule.py:56-92, rule.py:335-343).                  *)
OneItemPerRule ==
  \A f \in Collected : Uses(f) \/ ~Imports(f) =>
    /\ {items[i].func : i \in ItemsOf(f)} = Declared(f)
    /\ \A i, j \in ItemsOf(f) : items[i].func = items[j].func => i = j

(* Some two of these functions share a name.                               *)
Conflict(functions) == \E fn, other \in functions : fn # other /\ fn.name = other.name

(* A file is refused for two rules of one name, of which the pack's may    *)
(* come from a mere import, and for nothing else: the same pack rule may   *)
(* be registered again and again.  One that declares two rules of one name *)
(* is refused (rule.py:73-82).                                             *)
RefusedForConflict ==
  /\ \A f \in broken : Conflict(MayRegister(f))
  /\ \A f \in Collected : ~Conflict(Declared(f))

(* While a file is collected, what its statements declare is registered or *)
(* about to be, under one name each, and nothing else is.                  *)
Reached == Range(registry) \cup Range(queue)

CollectInv(f) ==
  /\ line \in 0 .. Len(script[f])
  /\ Reached \subseteq MayRegister(f)
  /\ \A i \in 1 .. line : script[f][i].op = "rule" => OwnFunction(f, i) \in Reached
  /\ \A i \in 1 .. line : script[f][i].op = "use" => Range(PackRules) \subseteq Reached
  /\ \A i, j \in DOMAIN registry : registry[i].name = registry[j].name => i = j

(* The inductive invariant of the session.                                 *)
SessionInv ==
  /\ TypeOK
  /\ broken \cap waiting = {} /\ current \notin waiting \cup broken
  /\ current = NoFile => queue = <<>>
  /\ \A f \in Files : current = f => CollectInv(f)
  /\ \A i \in DOMAIN items : items[i].file \in Collected
  /\ graph = NoFile => waiting = Files
  /\ OneItemPerRule /\ RefusedForConflict

(* Every item of a session whose files all collect is run.                 *)
AllRun == <>(waiting = {} /\ current = NoFile /\ (broken # {} \/ Len(ran) = Len(items)))

(* A rule pack works in "a monorepo's pytest plugin collecting multiple    *)
(* architecture.py files" (rules.md:346): each file's rules are checked    *)
(* against the project of that file.                                       *)
OwnProject == \A i \in DOMAIN ran : ran[i] = items[i].file
=============================================================================
