---------------------------- MODULE ImportGraph -----------------------------
(***************************************************************************)
(* The import graph of a project (archetype/analysis/imports.py): package  *)
(* roots, module names, and the edges that the import statements give.  A  *)
(* path is the sequence of its parts below the project root, a module name *)
(* the sequence of its segments.  At first no import statement is read;    *)
(* reading one more is a step, so that each state is the graph of some     *)
(* project.                                                                *)
(***************************************************************************)
EXTENDS Naturals, SequencesExt

CONSTANTS
  Projects,       \* projects: files, analysis root, excludes
  StatementsOf,   \* StatementsOf[f]: import statements that file f may have
  MaxStatements,  \* bound on the statements of a project
  IgnoredDirs,    \* _IGNORED_DIRS
  RootParts       \* the directories above the project root

VARIABLES
  project,  \* the project that is analysed
  read,     \* the import statements that have been read, with their files
  nodes,    \* the modules in the graph
  edges     \* the imports in the graph

graphVars == <<project, read, nodes, edges>>

(* from is FALSE for "import base"; level is the number of leading dots,   *)
(* names what is imported from base, star is "import *".                   *)
Import(base) ==
  [from |-> FALSE, level |-> 0, base |-> base, names |-> {}, star |-> FALSE]
ImportFrom(level, base, names) ==
  [from |-> TRUE, level |-> level, base |-> base, names |-> names, star |-> FALSE]
ImportStar(level, base) == [ImportFrom(level, base, {}) EXCEPT !.star = TRUE]

Inits == {"__init__", "init"}

Below(dir, path) == SubSeq(path, Len(dir) + 1, Len(path))

IsIgnored(path) == (ToSet(path) \cup RootParts) \cap IgnoredDirs # {}

(* is_path_excluded for a pattern that names a directory, without          *)
(* wildcards: only an anchored one with no slash at its end is tied to the *)
(* analysis root.                                                          *)
Exclude(core, anchored, slash) == [core |-> core, anchored |-> anchored, slash |-> slash]

Excludes(x, parts) ==
  IF x.anchored /\ ~x.slash THEN IsPrefix(x.core, parts)
  ELSE \E i \in DOMAIN parts : IsPrefix(x.core, SubSeq(parts, i, Len(parts)))

IsExcluded(p, path) ==
  IsPrefix(p.root, path) /\ \E x \in p.excludes : Excludes(x, Below(p.root, path))

Dirs(p) == UNION {Prefixes(f.dir) : f \in p.files}

(* _has_python_files: os.walk without the ignored directories below dir.   *)
HasPythonFiles(p, dir) ==
  \E f \in p.files :
    /\ IsPrefix(dir, f.dir)
    /\ ToSet(Below(dir, f.dir)) \cap IgnoredDirs = {}
    /\ ~IsExcluded(p, f.dir)

(* _has_top_level_python_package.                                          *)
HasTopLevelPackage(p) ==
  \E f \in p.files :
    /\ f.stem = "__init__"
    /\ IsPrefix(p.root, f.dir) /\ Len(f.dir) = Len(p.root) + 1
    /\ Last(f.dir) \notin IgnoredDirs

(* discover_package_roots.                                                 *)
PackageRoots(p) ==
  LET topLevelSrc == Append(p.root, "src")
      nested == {d \in Dirs(p) : /\ IsStrictPrefix(p.root, d) /\ Last(d) = "src"
                                 /\ ~IsIgnored(d) /\ ~IsExcluded(p, d)}
      candidates == (IF HasTopLevelPackage(p) THEN {p.root} ELSE {})
                      \cup ({topLevelSrc} \cap Dirs(p)) \cup nested
      found == {d \in candidates : HasPythonFiles(p, d)}
  IN  IF found = {} THEN {p.root} ELSE found

(* path_to_module.                                                         *)
ModuleOf(root, f) ==
  Below(root, f.dir) \o (IF f.stem \in Inits THEN <<>> ELSE <<f.stem>>)

(* The files of build_import_graph, each with the package root that it is  *)
(* found under; one below two roots is there twice.                        *)
PythonFiles(p) ==
  {rf \in PackageRoots(p) \X p.files :
     IsPrefix(rf[1], rf[2].dir) /\ ~IsIgnored(rf[2].dir) /\ ~IsExcluded(p, rf[2].dir)}

LocalModules(p) == {ModuleOf(rf[1], rf[2]) : rf \in PythonFiles(p)} \ {<<>>}

IsLocal(p, name) == \E m \in LocalModules(p) : name # <<>> /\ IsPrefix(name, m)

(* resolve_relative_import: too many dots are as many as there are parts.  *)
ResolveRelative(current, base, level) ==
  LET drop == IF level <= Len(current) THEN level ELSE Len(current)
  IN  SubSeq(current, 1, Len(current) - drop) \o base

(* Faulty: in __init__.py too, one dot drops the last part of the module.  *)
BaseOfFlat(rf, s) ==
  IF s.level = 0 THEN s.base
  ELSE ResolveRelative(ModuleOf(rf[1], rf[2]), s.base, s.level)

(* The module that "from base import" names.                               *)
BaseOf(rf, s) ==
  LET current == ModuleOf(rf[1], rf[2])
      context == IF rf[2].stem \in Inits THEN Append(current, "__init__") ELSE current
  IN  IF s.level = 0 THEN s.base ELSE ResolveRelative(context, s.base, s.level)

(* The local modules that a statement in a file gives an edge to:          *)
(* submodules first, the base only if there are none, or for "*".          *)
TargetsOf(p, rf, s) ==
  LET base == BaseOf(rf, s)
      submodules == {m \in {Append(base, n) : n \in s.names} : IsLocal(p, m)}
      orBase == IF IsLocal(p, base) /\ (submodules = {} \/ s.star) THEN {base} ELSE {}
  IN  IF s.from THEN submodules \cup orBase ELSE {m \in {s.base} : IsLocal(p, m)}

(* A statement as the grammar of Python has it.                            *)
IsStatement(s) ==
  /\ s.level \in Nat /\ IsFiniteSet(s.names) /\ s.base \in Seq(ToSet(s.base))
  /\ \/ s = Import(s.base)
     \/ s = ImportFrom(s.level, s.base, s.names) /\ s.names # {}
     \/ s = ImportStar(s.level, s.base)

GraphInit ==
  /\ project \in Projects
  /\ read = {}
  /\ nodes = LocalModules(project)
  /\ edges = {}

(* One turn of the loop over ast.walk, for every module the file is.       *)
ReadStatement ==
  /\ Cardinality(read) < MaxStatements
  /\ \E f \in project.files : \E s \in StatementsOf[f] :
       LET sources == {rf \in PythonFiles(project) :
                         rf[2] = f /\ ModuleOf(rf[1], rf[2]) # <<>>}
           added == UNION {{<<ModuleOf(rf[1], f), t>> : t \in TargetsOf(project, rf, s)} :
                             rf \in sources}
       IN  /\ <<f, s>> \notin read
           /\ read' = read \cup {<<f, s>>}
           /\ nodes' = nodes \cup {e[2] : e \in added}
           /\ edges' = edges \cup added
  /\ UNCHANGED project

-----------------------------------------------------------------------------
(* resolve_module_file: the module's own file before a package's, in the   *)
(* first package root that has either.  Which root comes first is left     *)
(* open: these are all the files it may give.                              *)
FilesOfModule(p, r, module) ==
  LET leaf == {f \in p.files : f.stem \notin Inits /\ r \o module = Append(f.dir, f.stem)}
      init == {f \in p.files : f.stem \in Inits /\ r \o module = f.dir}
  IN  IF leaf # {} THEN leaf ELSE {f \in init : f.stem = "__init__" \/ Cardinality(init) = 1}

ResolveModuleFile(p, module) ==
  UNION {FilesOfModule(p, r, module) : r \in PackageRoots(p)}

-----------------------------------------------------------------------------
(* The package that Python resolves the relative imports of a file in.     *)
PackageOf(rf) ==
  LET module == ModuleOf(rf[1], rf[2])
  IN  IF rf[2].stem \in Inits THEN module ELSE Front(module)

(* A relative import that Python accepts, and what it stands for.          *)
IsValid(rf, s) == s.level <= Len(PackageOf(rf))
Absolute(rf, s) ==
  IF s.level = 0 THEN s.base
  ELSE SubSeq(PackageOf(rf), 1, Len(PackageOf(rf)) - (s.level - 1)) \o s.base

(* What the file system and Python ensure: a project has finitely many     *)
(* files, one of a name in a directory, and every statement of the files   *)
(* that are looked at is one that Python accepts there.                    *)
ASSUME ProjectAssumption ==
  \A p \in Projects :
    /\ IsFiniteSet(p.files) /\ p.root \in Seq(ToSet(p.root))
    /\ \A f \in p.files : f.dir \in Seq(ToSet(f.dir))
    /\ \A f, g \in p.files : f.dir = g.dir /\ f.stem = g.stem => f = g
    /\ \A rf \in PythonFiles(p) : \A s \in StatementsOf[rf[2]] :
         IsStatement(s) /\ (ModuleOf(rf[1], rf[2]) # <<>> => IsValid(rf, s))

(* Per imported name, the submodule of that name, or else the base.        *)
Denoted(p, rf, s) ==
  LET base == Absolute(rf, s)
      of(n) == IF IsLocal(p, Append(base, n)) THEN Append(base, n) ELSE base
  IN  IF s.from /\ ~s.star THEN {of(n) : n \in s.names} ELSE {base}

ReadModules == {rs \in PythonFiles(project) \X {fs[2] : fs \in read} :
                  LET rf == rs[1]  s == rs[2]
                  IN  /\ <<rf[2], s>> \in read /\ ModuleOf(rf[1], rf[2]) # <<>>
                      /\ IsValid(rf, s)}

(* The edges are the imports as Python resolves them, relative ones and    *)
(* those of packages included; all that is left out is an import of the    *)
(* base by a statement that imports a submodule too (imports.py:230-278).  *)
EdgesAsWritten ==
  /\ \A e \in edges : \E rs \in ReadModules :
       /\ e[1] = ModuleOf(rs[1][1], rs[1][2])
       /\ e[2] \in Denoted(project, rs[1], rs[2])
  /\ \A rs \in ReadModules : \A t \in Denoted(project, rs[1], rs[2]) :
       \/ <<ModuleOf(rs[1][1], rs[1][2]), t>> \in edges
       \/ ~IsLocal(project, t)
       \/ t = Absolute(rs[1], rs[2]) /\ Cardinality(Denoted(project, rs[1], rs[2])) > 1
=============================================================================
