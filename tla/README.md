# TLA+ models of Archetype

Archetype checks architecture rules, Python functions in an `architecture.py`,
against the import graph of a Python project. This directory holds TLA+
specifications of its stateful and its tricky parts, the TLC configurations that
model-check them on small instances, and TLAPS proofs of the properties that
matter most. All paths below are relative to `src/archetype/`.

## The system

| Component | State | Operations | Interacts with | What is hard | What makes it correct |
|---|---|---|---|---|---|
| Graph loading (`dsl/query.py`) | module globals: current graph, roots, excludes | `load_project` | cache, graph builder; every rule reads the graph | files change while they are signed and parsed | a load returns the project as it was at some moment of the load |
| Graph cache (`analysis/cache.py`) | `.archetype_cache`, one line of `.gitignore` | sign, load, validate, save, ignore | all processes of a project | unlocked sharing, torn files, crashes, stale signatures | the cache cannot be told from building afresh; it is never stuck |
| Import graph builder (`analysis/imports.py`, `ast_utils.py`) | none | scan, parse, resolve | file system | files vanish between scan and read; relative imports, package roots | one node per file in scope, an edge per import |
| Query DSL and built-in rules (`dsl/query.py`, `rules/`) | thread-local diagnostics | queries that pass or raise | graph, registry | diagnostics per thread, overlapping patterns, cycles | violations are the offending edges |
| Module patterns (`analysis/pattern.py`) | regex cache | match | all rules | globs | regex and definition agree |
| Rule registry (`rule.py`) | process-wide lists of rules | `register`, `clear`, `use`, `group` | `architecture.py`, pytest, inference | global state over several files, packs imported once | each file has its own rules, each once |
| Rule decorators (`rule.py`) | attributes on functions | `warn`, `skip`, `escalate`, `since`, `timeout` | git, the clock | stacks in any order, deadlines | no violation is lost; deadlines hold |
| Rule engine (`rule.py`) | pool, futures, daemon threads | `run_all`, `_run_entry` | decorators, DSL | thread-local data across threads, timeouts, threads that never end, `SystemExit` | results are those of running the rules one by one |
| `check` (`check.py`) | its options and results | run, baseline, scope, report, exit | everything | failures of each step, exit codes | 0 means nothing blocking was left out |
| Baseline (`baseline.py`) | a JSON file | write, load, apply | `check` | rewritten in place under other checks; duplicates | an entry pays for one violation |
| Changed-files scope (`analysis/git_utils.py`) | none | `git diff`, `git log` | `check`, `since` | paths relative to another root | violations of changed files stay |
| pytest plugin (`plugin/pytest_plugin.py`) | items | collect, run | registry, graph | several files in one process | same verdict as `check` |
| Reporter (`reporter.py`) | none | text, JSON, SARIF, GitHub | `check` | four formats filter results in their own way | formats, counts and exit code agree |
| Inference (`infer.py`) | registry and globals, swapped and restored | infer, render, verify, downgrade | registry, engine, graph | greedy choices, verify loop | inferred rules hold on the code |
| `init`, `install-hook` (`init.py`, `check.py`) | `architecture.py`, a git hook | write, replace | user prompts | partial writes, edited hooks | foreign text survives |
| Trend log (`trend.py`) | a JSON Lines file | append, read | `check` | torn lines | records survive |
| Configuration (`config.py`) | none | parse, merge | `check`, inference | precedence | flags win |
| Code owners, `doctor`, `graph`, `completion` | none | look up, print | reporter | - | - |

## The modules

| Module | Models | Proved about in |
|---|---|---|
| `GraphCache` | `load_project` with its cache, in several processes | `GraphCacheProofs` |
| `ProjectLoad` | what `load_project` promises: loading without a cache | `GraphCacheProofs` |
| `RuleResult` | the `RuleResult` a call of a rule ends in; pure operators | |
| `RuleDecorators` | a call unwinding through its decorators, over days and commits | `RuleDecoratorsProofs` |
| `RuleEngine` | `run_all` with pool, daemon threads and diagnostics | `RuleEngineProofs` |
| `RuleRun` | what `run_all` promises: each rule, run once, on its own | `RuleEngineProofs` |
| `Reports` | which results and violations each report format has, and the counts; pure operators | `CheckRunProofs` |
| `CheckRun` | `archetype check` from the results to the exit code, with the baseline file and the reports | `CheckRunProofs` |
| `PytestSession` | a pytest session over several `architecture.py` files | `PytestSessionProofs` |
| `Inference` | `init --infer` from the imports to verified rules | `InferenceProofs` |
| `ModulePattern` | the regular expression of a module pattern, and matching; pure operators | `QueriesProofs` |
| `ImportGraph` | package roots, module names, and the edges of import statements | `QueriesProofs` |
| `RuleChecks` | the queries and rules as operators on a graph | `QueriesProofs` |
| `Queries` | rules over the graphs that `ImportGraph` gives | `QueriesProofs` |
| `InitFile` | `init` replacing `architecture.py` while it is edited | `WorkflowProofs` |
| `InstallHook` | `install-hook` and its block in an edited pre-commit hook | `WorkflowProofs` |
| `TrendLog` | the trend history and writes of it that fail | `WorkflowProofs` |
| `Workflow` | `init`, `install-hook`, `check --record-trend` and `git commit` in one project | `WorkflowProofs` |

Each proof module carries the few general lemmas on sequences, induction and recursion that
it needs, so that it can be checked by itself.

`RuleDecorators`, `RuleEngine` and `Reports` extend `RuleResult`, `CheckRun` extends
`Reports`; `RuleChecks` extends `ModulePattern`, `Queries` extends `ImportGraph` and
`RuleChecks`; `Workflow` extends `InitFile`, `InstallHook` and `TrendLog`. `GraphCache`
instantiates `ProjectLoad`, `RuleEngine` instantiates `RuleRun`, each with a
refinement mapping, and has the abstract specification as a property. `MC<Module>`
gives a module small constants, `<Module><Question>.cfg` is one run. An operator
whose comment begins with "Faulty:" is no part of a specification: it is a bug that
could have been made in the definition after it, kept to see that a property
notices it (`PROJECT.json`, "mutants").

### How state and actions correspond to the code

**GraphCache.** A file is its version: every write gives it a number that no file
had before, 0 is "not there". A graph and a signature map are functions from files to
versions. `pc[p]` follows one call of `load_project`: `sign`
(`compute_file_signatures`, one `stat` per step), the decision (`CacheHit`,
`CacheMiss`), `list` (the scan of `build_import_graph`, then one read per step),
`save` and `write` (`write_bytes` truncates, then fills), `ignore` (`.gitignore`),
`done`. Edits, deletions, removal of the cache, crashes at any step and failed saves
come between any two steps. `during[p][f]`, the versions that `f` had while `p` was
loading, is a history variable for the property.

**RuleResult.** One record type `Outcome` for what a call of a rule returns or raises
and for the `RuleResult` made of it. `RunEntry` is `_run_entry` for a call that ends,
`Fails` is what `check` counts as failed, `PytestOutcome` is `runtest`.

**RuleDecorators.** `frame` is the decorator the call has come up to, `outcome` what
the function below returned or raised. There is an action for each decorator's
`wrapped()`. `NextDay` and `Commit` change, between calls, what `date.today()` and
`git log` answer.

**RuleEngine.** `Take` is the executor handing a rule to a thread (or the main
thread's loop), `Call` the clear of the diagnostics and the call or the start of the
daemon, `BodyQueries` one query that records an unmatched pattern. A daemon has its
own storage, named by its rule. `JoinTimesOut` is `join()` coming back to a thread that
is alive; `ReportTimeout` reads the diagnostics in a later step. The main thread
collects futures in order; a future with a `BaseException` makes it leave the
`with` block, which cancels what is queued and waits for what is running. The variable
`pool` is the argument `workers`: one thread, or several.

**CheckRun.** `options` are `--write-baseline`, `--baseline` and `--changed-from`; the
steps follow `check` in its order: write, load and apply, scope, report. A
violation is a model value, its baseline key another one (`KeyOf`), a baseline a bag of
keys; `write_text` truncates the file and then fills it. `Suppressed` leaves open
*which* of several equal violations an entry pays for, since the order of
violations is not modelled.

**PytestSession.** An `architecture.py` is the list of its statements that touch the
registry; a rule function is its name and the statement that defines it. A statement puts
the functions that it registers into `queue` (an import of the pack executes its `@rule`
decorators the first time only), and `Register` or `Refuse` takes one of them, as
`RuleRegistry.register` does: a file may be refused half-way through a pack. `imported`
is `sys.modules`, `graph` the module global of `query.py`.

**Inference.** The state is the project's graph between components, taken from the
module graph by counting, and the fields of the dataclass `Inference`. `Cut` is one
turn of the loop of `_break_tangles`, `Judge` its end; `InferLayers`,
`InferIndependent`, `Protect`, `BuildRules` are the paragraphs of
`infer_architecture`; `Execute`, `RunRules` and `Raise` are
`run_architecture_source` with the registry it swaps. What a rule finds is an operator
per rule (`AreOrdered`, `AreIndependent`, ...) over the imports between components.
Reachability (`Reach`), which networkx computes, is defined by the sets of components that
import nothing outside themselves; `sorted()` is `Sorted`. `LongestChain` is the recurrence
of `_longest_chain`, in as many rounds as there are components instead of in topological
order; `IndependentGroup` the loop over the sorted candidates.

**ModulePattern, ImportGraph, RuleChecks, Queries.** A module name is the sequence of its
segments, a pattern the sequence of its, a segment with wildcards the set of names it
matches; `IsPattern` is what `validate_pattern` accepts. `ChunkOf` is one turn of the loop of
`_wildcard_pattern_to_regex`, and `FullMatch` matches the chunks one after the other: a place
in a name is after a segment (`AfterName`) or after the dot behind it (`AfterDot`), which is
where the joints of the regular expression differ. A project is a set of files with an analysis root and excludes; in the
initial state no import statement has been read, and each step (`ReadStatement`) reads one
more of those that a file may have and adds the edges that `build_import_graph` adds for
it, so that every state is a graph that some project has. The queries and rules are
operators on a graph that return the violations they raise and the patterns they found
unmatched. `ResolveModuleFile` and `NamingFiles` look for files themselves, as the code does,
and do not look at excludes when they do; `LeftOut` are the files that this concerns.
`Queries` has no actions of its own: it states what these operators must agree
on in every graph.

**Reports.** `Status`, `TextViolations`, `JsonViolations`, `SarifResults`, `Annotations` and
`Summary` are what `reporter.py` and `trend.py` select from the results; a violation is in a
report together with its level.

**InitFile.** `arch` is what `architecture.py` is: absent, the developer's own, generated by
one of `init`'s two ways, or torn. `initPc` follows one `init`. The answer (`Confirm`) and
the unlink (`Unlink`) are steps of their own, and so are the three of
`write_architecture_py`: the test (`RefuseExisting`), the opening of the file, which creates
or truncates it (`OpenArchitecture`), and the write (`FillArchitecture`). The saves and
removals of the developer come between any two of them. `fate` is a history variable: what
became of the content that was saved or generated last. A save between a test or an answer
and the calls that rely on it is `"raced"`.

**InstallHook.** A hook is the sequence of its lines, of which only their role counts: a
command, an `exit 0`, a marker, or what is between the markers. `Rendered` is
`_render_pre_commit_hook`, its `re.sub` with a lazy `.*?` is `Updated`. `WriteHook` and `Chmod`
are two steps. `HookStatus` is the exit status of `sh` for those lines, `OwnLines` what of
a hook is outside the blocks, `WellFormed` says that its markers are those of whole blocks.

**TrendLog.** A line of the file is the sequence of the pieces that were written into it, so
that a torn record and a record glued to another can be told from a whole one.

**Workflow.** One command runs at a time in the terminal (`TerminalFree`), while files are
edited; `GitCommit` runs the hook, which runs `check`, which needs `architecture.py`.

## The runs

Each run checks the properties its `.cfg` names; deadlock is checked unless said.

| Run | What it shows |
|---|---|
| `GraphCache.cfg` | Two processes, with different excludes or `--no-cache`, two files that are edited and deleted under them, one fault: no finished load has a version of a file that the file did not have during the load (`FreshUnlessGhost`), and the invariant of the proof (`CacheInv`) holds. |
| `GraphCacheTransparent.cfg` | Where no file is deleted and excludes mean the same everywhere, loading with the cache implements loading without it (`CacheTransparent`); a torn or outdated cache does not stay so, once edits end (`CacheRecovers`). |
| `GraphCacheRoots.cfg` | Violated: `check` and the pytest plugin share a cache but not an analysis root (`OwnRootOnly`). |
| `RuleDecorators.cfg` | Every stack of at most three decorators over every body, with every policy, on three days: no violation is lost, deadlines are kept, a failing rule never passes by the passing of time, unmatched patterns are shown, and the plugin fails the rules that `check` fails. |
| `RuleEngine.cfg` | Five rules, two with timeouts, two that may exit, in one thread or two: diagnostics stay with their rule, the invariant of the proof (`EngineInv`) holds, `run_all` implements `RuleRun`, and it ends. |
| `CheckRun.cfg` | Two checks with every combination of options share a baseline file: what is suppressed is accounted for, exit code 0 is earned, no partial baseline is applied, a fresh baseline leaves nothing new; text, JSON, SARIF and annotations have the same violations at the same level, and agree with the summary and the exit code (`ReportsAgree`). |
| `CheckRunSubdir.cfg` | Violated: below the root of the repository `--changed-from` reports nothing (`ChangedFilesReported`). |
| `PytestSession.cfg` | Three files, with and without a shared pack: one item per declared rule, files refused for name conflicts only, all items run. |
| `PytestSessionGraph.cfg` | Violated: items run against the project that was collected last (`OwnProject`). |
| `Inference.cfg` | Every way in which four components import each other up to four times, once or three times each, and fewer imports with tests, imports of the root package and internal packages: layers are a longest chain, leaks close loops and are rare, independent packages are maximal, rules hold by construction, the first check is green, the caller's registry is restored. |
| `Queries.cfg` | Eight project layouts (flat, src analysed from above and from inside, a monorepo, two with excludes, two more whose excluded files have the names of modules that are read) with every choice of up to three import statements out of thirteen: patterns select what is documented (`PatternsAgree`), each import gives the edge that Python's resolution gives (`EdgesAsWritten`), the two cycle rules agree with each other and with the definition (`CyclesAgree`), layers that pass, overlapping or not, leave no cycle and no chain upwards (`LayersExcludeLoops`), the rules on lists of patterns report what they have to where the patterns overlap (`OverlapsAgree`), and the others agree with one another: with rules that ask the same in another way, and with what they mean for chains of imports, for `__all__` and for files (`RulesAgree`). |
| `Workflow.cfg` | Two saves of `architecture.py`, eleven hooks written by hand, three trend records and one fault in each file: no save is overwritten unasked, but those that come between a test of `init` and the call that relies on it (`UserFileKept`), an overwrite replaces the file (`OverwriteReplaces`), an install changes only its block of a hook (`OnlyBlockChanges`), a commit under an installed hook has passed `check` (`GuardedCommitsPass`), and a trend history that is read has no hole (`HistoryHasNoHoles`). |

The three violated properties are sentences of the documentation that the code does not
keep; `PROJECT.json`, "findings", quotes them with the code.

`TypeOK` is an invariant of the runs of `GraphCache` and `RuleEngine`; the other modules
define one as well, as the documentation of their variables. It is proved for
`GraphCache`, `RuleEngine`, `CheckRun`, `RuleDecorators`, `PytestSession`, `Inference` and
`Workflow`; for the graph of `Queries`, `GraphAsRead` says which values its variables have.

### Bounds, and why they are enough

- `GraphCache`: two processes, because every hazard is one process's load between two
  steps of another's, and the invariant speaks of pairs. Two files: one that is excluded,
  deleted, or read, while the other is not. `MaxClock` = 2 (3 where deletion is off) is
  the version a file starts with and one or two writes: stale means that one
  write was missed. `MaxFaults` = 1. The proof lifts all of these.
- `RuleDecorators`: `MaxDepth` = 3 has each pair of decorators with one above, between or
  below them; `LastDay` = 2 has days before, on and after each of two deadlines;
  two violations make "some are in scope" differ from "all are". The proofs lift all of
  these.
- `RuleEngine`: two threads and five rules, so that a thread runs several rules and both
  kinds alternate; two notes, so that a rule can be caught between two
  queries. The proofs lift all of these.
- `CheckRun`: two processes on one file, `MaxFaults` = 1; four versions of the code and
  three rules, with two violations of one key, a warning, a timeout, an error and a
  plain assert. The proofs lift all of these, for any results that rules can have.
- `PytestSession`: three files, so that one is collected between two others; nine
  scripts. The proofs lift both.
- `Inference`: four components allow chains of four, two separate loops and loops of
  three; counts of one and three make an import a leak or not at `LeakRatio` = 3.
  `MaxBoundaryRules` = 2 and `MaxLeakRules` = 1 instead of 10 and 5, so that the limits
  are passed. The proofs lift all of these.
- `Queries`: `MaxStatements` = 3, for a cycle of three, a chain with a detour, or two
  imports that a rule has to tell apart; patterns and names of up to three and four
  segments have `**` at the start, in the middle, at the end, and twice; ten lists of
  layers that cover all modules, overlap, or miss some. The proofs lift all of these.
- `Workflow`: `MaxSaves` = 2 is a save that was approved and one after it, in any step of
  the `init` that overwrites it. The hooks have no
  block, one before, between and after commands, two blocks, an `exit`, one marker, and
  swapped markers. `MaxRecords` = 3 has a record before, at and after the failed one.
  One fault per file. The proofs lift all of these.

Symmetry is used for the processes of `GraphCache` and `CheckRun` only, which no
definition tells apart, and not in the run with liveness properties.

`CHECK_DEADLOCK FALSE` is set for `GraphCache` and `RuleDecorators` (bounded edits and
days, and a rule that is to be checked again or not), for `PytestSession`, which ends, and
for `Queries`, whose projects have a bounded number of statements.

### Fairness

- `GraphCache`: a process is scheduled until its load ends, and checks keep being
  started: weak fairness of `Start`, `Load` and `Finish`. Nothing makes edits, faults or
  crashes happen or stop, but they are bounded.
- `RuleEngine`: weak fairness of the main thread and of each pool thread, which the
  operating system's scheduler gives. A rule without a timeout is assumed to end; nothing
  is assumed of daemons, which may hang forever (`thread.join(timeout)` does not wait
  for them).
- `PytestSession`: one sequential process that does not stop by itself.

All other runs check safety only.

## What is proved

`tlapm` checks all proofs, for every value of the constants that satisfies the
assumptions next to them (which TLC evaluates for the instances above).

**GraphCacheProofs.** `TypeCorrect`; `CacheInvariant`; `LoadsAreFresh`:
`Spec => []FreshUnlessGhost` for any number of files, processes, configurations, edits
and faults. A finished load being fresh is not inductive: whether a cached graph may be
used is decided by signatures that were taken by another process, before the graph
was built. `CacheInv` therefore says of every pair of a signature and a version, in the
cache (`EntrySound`) and in each build under way (`BuildsSound`), that as long as the
signature is that of the file on disk, the version is too, and that a process that has
signed the file with it has seen that version during its load; `LoadsObserve`
connects builds with the history variable and `LocalsInOrder` gives the locals of a
process before its build. The step that needs all of it is `CacheHit`. The argument is
that of signing *before* building; with signatures taken afterwards
(`WriteCacheSignedLate`) the invariant fails.
`CacheIsTransparent` proves the refinement: under `CacheBlind` (no file is deleted, and
the exclude setting alone decides what a graph covers, which the instance of
`GraphCacheTransparent.cfg` satisfies) `Spec => CacheTransparent`, so that loading with a
cache, signatures, saves, faults and crashes is loading by parsing. It needs besides
`CacheInv` that each graph, cached or in the making, is of the files of its own
configuration (`GraphsAreOwn`): a step of `Load` then is a step of `ProjectLoad` or a
stutter, and a cache hit ends a load with the versions that a parse could have read.

**RuleEngineProofs.** `TypeCorrect`; `EngineInvariant`; `DiagnosticsAreOwn`; and the
refinement `RunAllKeepsPromise`: `Spec => KeepsPromise`, for any rules, pools and threads.
`EngineInv` has four parts. `WorkerInv`: no two threads have one rule, or one that has ended
(the executor's queue gives it to one). `QueueInv`: a rule still in the queue has not been
touched, so that what a thread takes is new. `StorageInv`: a thread's storage holds notes of
the rule it runs only, a worker waiting for a daemon has none, and a capture is either
absent or complete; so a report has all notes or, on a timeout, all or none
(`SeenAtReport`). `FutureInv`: a future that raises has no result, and when `run_all` has
ended no thread is busy. With these, each step that reports is a `Report` of `RuleRun` with
a verdict the rule may get (`ReportsVerdict`), and every other step stutters, returns or
raises. Assumed are that threads and rules have different names, and that a result or a set
of notes is not `Pending`.

**RuleDecoratorsProofs.** For stacks of any depth, any deadlines and any commits:
`LosesNoViolation`, `EscalatesOnSchedule`, `StaysFailing`, `ShowsUnmatchedPatterns`,
`PytestFailsTheSame`. The inductive invariant `RuleInv` says of a call that has unwound to
some decorator (`CallInv`) what its outcome is in terms of the body and of the decorators
below: an assertion is still one with the violations that these leave (`Left`), unless one
of them has softened it (`Uncaught`); and of the results, that a rule which failed on a day
does so by its decorators as they are (`FailsOn`). The properties follow once the call has
come out of its stack. `ResultsAreVerdicts` shows that these results have the
flags that `CheckRun` assumes of what it is given (`IsVerdict`), so that the two proofs
fit together.

**CheckRunProofs.** `LoadsWholeBaselines`, `AdoptsCleanly`, `ExcusesOnlyViolations`,
`AccountsForViolations` and `ReportsOneOutcome`, for any number of checks on one baseline
file. The inductive invariant `CheckInv` relates what a check has in hand to the
evaluation it started from: its results are those of the rules, less what the baseline it
loaded and the scope allow. That suppressed violations are accounted for is an argument
about counting: `OccurrencesOfPart` and its companions say how many violations of a
key a set of them has. `ReportsOneOutcome` is a fact about operators once the results are
known to be consistent: text, JSON, SARIF and annotations select from them by different
conditions, `FormatsAgree` shows that these come to the same.

**PytestSessionProofs.** `YieldsOneItemPerRule` and `RefusesConflicts`, for any files,
scripts and pack. `SessionInv` says that what is registered or queued (`Reached`) has all
that the statements of the current file up to the line it is at declare, and nothing that
the file may not register, the registered ones under one name each; the items of a file
that was collected follow from it, and do not change when other files are.

**WorkflowProofs.** `KeepsUserFile` from the invariant `FileGuarded`: a file that is the
developer's to keep is there, and `init` is at no step that would unlink, truncate or write
it; where it is about to do so, the content was approved, has raced, or is absent.
`ReplacesOnOverwrite` from the invariant `Overwriting`; `HasNoHoles` from `History`, which
relates each line of the trend file to the record of its number; `ChangesOnlyBlocks` and
`GuardsCommits` from `Hooked`: a hook is as its developer wrote it, or what `install-hook`
makes of that. This rests on lemmas about the rewriting of a hook, for hooks of any length
with any number of blocks: `Updated` replaces what is in the blocks and nothing else, and
rewriting what it has written changes nothing. `TypeCorrect` needs in addition what becomes
of a hook whose markers are not those of blocks: `UpdatedInLines` shows that the rewriting
comes to its end, with a hook of lines, for every hook.

**InferenceProofs.** All six properties of the run, for any number of components,
imports and candidates. `Tangles`: each group of looping components is judged once,
imports are cut within the group in hand while they are on a loop, and a group that was
found to have leaks is free of loops without them; `LeaksClose` follows, and with the
lemma that a loop of components is within one group, so does `LayeredAreAcyclic`.
`Layering`: the layers are a chain such that no chain is longer. The recurrence of
`_longest_chain` is proved by induction over its rounds (after n of them, each
component has a chain that is no shorter than any of at most n + 1 components from it); as
there are no loops, no chain is longer than there are components (`ChainsAreShort`).
`MaximalConsumers`: the greedy choice is maximal, by induction over the sorted candidates;
that an empty choice means that all consumers are comparable is due to their order, by
how many others they are comparable to (`OneChosenMeansNoneApart`). `Verified`: after the
downgrade every rule that is no warning holds of all the code. `RulesHold` brings the
parts together: a rule that is generated holds of the code, or is a warning (`IsFit`), for
the reasons why it was generated. General lemmas are on the way: that a finite set can be
sorted and what sorting gives, and that `Reach` is the least preorder over the imports.

**QueriesProofs.** All six properties of the run, for any project, statements, patterns,
layers and names. `GraphAsRead`, the inductive invariant, says that the edges are those of the
statements read so far; all else is about operators, in any graph that satisfies it.
`EdgesWritten`: what `resolve_relative_import` makes of a module or of its `__init__` is what
Python resolves (`BaseIsAbsolute`), so that a statement gives edges to what it denotes and to
all of it that is local (`TargetsAreDenoted`, `DenotedAreTargets`). `CycleRulesAgree`: what
networkx reaches is the smallest set that no import leaves (`ReachedIsClosed`,
`ReachedIsSmallest`); a module that comes back to itself does so by a shortest walk, which
meets no module twice (`ShortRound`) and so is a simple cycle (`RoundIsSimpleCycle`); and where
taking away the modules that import nothing leaves some, that of them which is reached from
fewest comes back to itself (`CoreHasCycle`). `LayersHoldCycles`: an
import leads to no layer above the first of its module (`OwnersLeadDown`), so that this is one
layer all round a cycle; and what a chain that leaves a layer reaches is in no upper one
(`ChainsLeadDown`). `OverlapsAgreeAlways`: the first pattern of a module is the part that it is
in (`PartsAreOwned`), and a module that `are_ordered` alone reports is in a second layer
besides the one it is reported for. `PatternsSelectAsDocumented`: the
places up to which the first k chunks match are those that the first k parts of the pattern
fit, on dots or on names according to the kind of the last part (`RegexMatches`), and
collapsing `**.**` changes nothing (`CollapsedFits`). `RulesAgreeAlways` takes the rules by
their groups: single imports and chains of them (`BoundariesHoldAlways`), limits, `public_api`,
and the files that a module may have (`FileOfModule`).

Assumed are `ProjectAssumption` and `QueriesAssumption`: a project has finitely many files and
one of a name in a directory; statements have the form that Python's grammar gives them, and
relative ones do not leave the top-level package, which Python refuses to import; patterns are
those that `validate_pattern` accepts, and a list of them has two at least, as `independent`
requires (`independence.py:24`) and as comparing pairs needs. The instance of `Queries.cfg`
satisfies them.

The proof attempt has shown two statements to be false as they were written first: that naming
rules, and `resolve_module_file`, give files of the graph only. Both look at excluded
files, which the run had no project for; it has two now, and the properties except
`LeftOut`.

**Loops and recursion.** The library's theorems on induction take an operator as a parameter.
`FiniteInduction` and `FiniteRecursion` state induction and recursion up to a number with
sets and functions instead: a set that has 0, and each number whose predecessor it has,
has all numbers up to n; and a step that is a function can be iterated n times. With these,
what loops over finite data compute is proved here too: the rewriting of a hook, the order of
candidates, chains of components, searches in a graph, and matching chunk by chunk.

**Only model-checked.** `RunEnds`, `CacheRecovers` and `AllRun`, since liveness under
fairness and `ENABLED` are out of the prover's reach. The three violated properties are
statements that the code does not keep. Every other property of the runs is proved.

## Known divergences without a run

- In a src layout exclude patterns are resolved under the project root for signatures
  and under the analysis root for the graph (`cache.py:35`), so that a file may be parsed
  without being signed; `FreshUnlessGhost` is stated for files that both cover.
- `@since` over `@warn` or `@escalate` gets a returned result and does not filter it.
- A rule that passes over an unmatched pattern is a warning in `check` and a pass in
  pytest, which does not look at diagnostics.
- A warning whose violations are all suppressed by the baseline or the scope becomes a
  pass, its diagnostic lines included.
- Errors and timeouts fail a check with `--baseline` whatever the baseline holds.
- A rule that calls `sys.exit(0)` ends the check with exit code 0 and no report
  (`RuleExits` of `CheckRun`; hence `ExitZeroJustified` speaks of checks that come to
  their report).
- Two protected packages with one slug (`core/internal`, `core/_internal`) make
  `init --infer` fail with "already registered" (`Raise` of `Inference`).
- Independence is judged on imports between components. A component that imports the
  root package is left out, but one that is *reached* through such a component is not,
  so that two "independent" packages may reach each other through the root package
  (`rules.md`: "never reach each other, directly or indirectly").
- A file that is created after the signing and deleted before the next load stays in the
  cached graph: it has no signature that could differ (`query.py:87`). `FreshUnlessGhost`
  excepts such files.
- `@warn` over `@escalate` drops the violations that `@escalate` returns in its result
  (`rule.py:366`), which through the deadline should be "visible in output"
  (`rule.py:435`). `ViolationsAccounted` of `RuleDecorators` excepts that stack.
- The pytest plugin runs rules without their timeout (`pytest_plugin.py:84`).
- `install-hook` killed between write and chmod leaves a hook that is not executable; run
  again it says "already installed" and does not look at the mode (`check.py:971`). A
  write that fails has truncated the hook before, the developer's lines with it.
- `install-hook` on a hook with a single marker appends a block; the next run takes the
  lines from the first begin marker to the end marker of that block for its own and
  replaces them. With swapped markers it says "already installed", with no block there.
- The status of the hook is that of its last command: a command after the block, or an
  `exit 0` before it, lets a failed check pass. `GuardedCommitsPass` is stated for hooks
  to which the block was appended, with no `exit` in them.
- `init` writes "without overwriting existing files" (`init.py:236`), but does not lock the
  file: a save between `exists()` and the end of `write_text()` (`init.py:238-240`) is
  overwritten unasked, one between the answer and `unlink()` (`check.py:860-867`, `890-894`)
  is removed. `UserFileKept` excepts these saves (`"raced"`).
- `init` without `--infer` unlinks the old `architecture.py` before it generates the new
  one (`check.py:894`): an I/O error or a crash in between leaves none.
- A torn record in the trend file (a full disk) makes `archetype trend` fail on the whole
  file until it is edited (`trend.py:90`).
- `from pkg import sub, CONST` gives the edge to `pkg.sub` only (`imports.py:272`), though
  `CONST` comes from `pkg`. `EdgesAsWritten` describes the code in this.
- The names of ignored directories are looked for in the absolute path (`imports.py:180`):
  a project below a directory called `venv` or `node_modules` has an empty graph.
- Naming rules name files from the analysis root (`naming.py:45`): in a monorepo, or from
  the pytest plugin in a src layout, no file's name is a module's, and the rules pass.
  `RulesAgree` speaks of the files that are named from the analysis root.
- Naming rules and the file that a fan-in or fan-out violation is located in are looked up
  without the excludes (`naming.py:43`, `imports.py:155`), though `docs/usage.md:20` has
  `--exclude` "Exclude paths from analysis and reporting." An excluded or ignored file that has
  the name of a module which is read (`q.py` beside an excluded `q/`) is checked or named.
  `RulesAgree` excepts such files (`LeftOut`).
- `are_adjacent` is documented as a strict superset of `are_ordered` (`layers.py:83`,
  `docs/rules.md:202`). Where layers overlap it is not: `are_ordered` takes a module to be
  in each layer it matches, `are_adjacent` in the first, so that an import by a module in
  two layers may be reported by the one and not by the other. `OverlapsAgree` has that it
  is such imports only, and that `are_ordered` reports all that lead up from part to part.
- `fan_in_at_most` counts a module's import of itself.
- An anchored directory pattern (`/x/`) excludes directories `x` at any depth
  (`path_filters.py:61`).
- SARIF has no entry for rules that timed out, raised, or failed by a plain assert, and
  the annotations none for timeouts and plain asserts (`reporter.py:471`, `539`).
  `ReportsAgree` speaks of violations.
- A warning that became a pass keeps the symbol of a warning in the text report
  (`reporter.py:232`).

## What is not modelled

- Layout and wording of reports, file locations in them, code owners, suggestions for
  patterns that match nothing; `doctor`, `graph`, `trend` and `completion`, which print
  what other components computed.
- Configuration: `archetype.toml`, `pyproject.toml` and the precedence of flags over them
  are one-line choices without state. Policies are an input of `RuleResult`.
- `group()`, a context manager around registrations that only adds a label to rules.
- Wildcards in exclude patterns, which are Python's `fnmatch`; `.gitignore` beyond whether
  it names the cache.
- Parsing of Python: import statements, the names that naming rules check and `__all__` are
  inputs. The names are checked one by one with regular expressions on a syntax tree.
- The structure that `init` detects, and the text of the files it generates.
- mtime granularity is left to the file system: two writes of one mtime have one signature.

## Plan

Order: the graph everything is judged on (`GraphCache`), the results of rules
(`RuleResult`, `RuleDecorators`, `RuleEngine`), the verdict (`CheckRun`, `Reports`), other
ways in (`PytestSession`, `Inference`), the rules themselves (`ModulePattern`, `ImportGraph`,
`RuleChecks`, `Queries`), the files of a developer's work (`InitFile`, `InstallHook`,
`TrendLog`, `Workflow`): done. No module has a `RECURSIVE` operator, so that all can be
proved about. The inductive invariants of all modules with actions are proved, with every
safety property and both refinements. What could come next:

1. The precedence of `archetype.toml`, `pyproject.toml` and flags, as a component of its own
   whose result is an input of `CheckRun`.
2. `group()` among the statements of `PytestSession`.
3. `--exclude` with wildcards, as sets of the names they match, as in `ModulePattern`.
