----------------------------- MODULE GraphCache -----------------------------
(***************************************************************************)
(* load_project (archetype/dsl/query.py) and the on-disk graph cache it    *)
(* uses (archetype/analysis/cache.py).  Several processes load the same    *)
(* project while files are written and deleted under them, processes are   *)
(* killed, and saves fail.                                                 *)
(*                                                                         *)
(* A version of a file stands for its text and its mtime: every write      *)
(* gives the file a version no file had before (mtimes do not repeat),     *)
(* and 0 is the version of a file that does not exist.  A graph is the     *)
(* version of each file its builder parsed, 0 for the files it left out;   *)
(* a signature map is the version stat saw, 0 for a file it has no key     *)
(* for.                                                                    *)
(***************************************************************************)
EXTENDS Naturals

CONSTANTS
  Files,     \* the .py files that may exist under the project root
  Procs,     \* processes that load the project (check, graph, pytest)
  Excludes,  \* the --exclude settings in use
  Configs,   \* the argument combinations of load_project in use
  Signed,    \* Signed[x]: files compute_file_signatures covers under x
  InGraph,   \* InGraph[c]: files build_import_graph parses under c
  Deletable, \* files that may be deleted
  MaxClock,  \* bound on the number of file writes
  MaxFaults  \* bound on crashes, failed saves and removals of the cache

ASSUME ConfigAssumption ==
  /\ \A c \in Configs : c.excl \in Excludes /\ c.cache \in BOOLEAN
  /\ Signed \in [Excludes -> SUBSET Files]
  /\ InGraph \in [Configs -> SUBSET Files]
  /\ Deletable \subseteq Files

ASSUME BoundAssumption == MaxClock \in Nat \ {0} /\ MaxFaults \in Nat

VARIABLES
  disk,       \* disk[f]: the version of f, 0 when f is absent
  clock,      \* the newest version
  faults,     \* how many faults have happened
  cacheFile,  \* .archetype_cache: "missing", "torn" or "whole"
  entry,      \* what a whole .archetype_cache holds
  gitignored, \* .gitignore names the cache
  pc,         \* where each process is in load_project
  config,     \* config[p]: the arguments of p's load
  seen,       \* seen[p]: files the current directory scan has passed
  sigs,       \* sigs[p]: current_signatures
  listed,     \* listed[p]: python_files of build_import_graph
  graph,      \* graph[p]: the graph, being built or loaded
  origin,     \* origin[p]: the configuration graph[p] was built under
  during      \* during[p][f]: the versions f had while p was loading

diskVars == <<disk, clock, faults>>
cacheVars == <<cacheFile, entry, gitignored>>
procVars == <<pc, config, seen, sigs, listed, graph, origin, during>>
vars == <<diskVars, cacheVars, procVars>>

Nothing == [f \in Files |-> 0]

(* The steps of one load, in order; "idle" before and after a process.     *)
Loading == {"sign", "list", "save", "write", "ignore"}

Versions == 0 .. MaxClock
Entry == [graph : [Files -> Versions], sigs : [Files -> Versions], by : Configs]

TypeOK ==
  /\ disk \in [Files -> Versions]
  /\ clock \in Versions
  /\ \A f \in Files : disk[f] <= clock
  /\ faults \in 0 .. MaxFaults
  /\ cacheFile \in {"missing", "torn", "whole"}
  /\ entry \in Entry
  /\ gitignored \in BOOLEAN
  /\ pc \in [Procs -> Loading \cup {"idle", "done"}]
  /\ config \in [Procs -> Configs]
  /\ seen \in [Procs -> SUBSET Files]
  /\ sigs \in [Procs -> [Files -> Versions]]
  /\ listed \in [Procs -> SUBSET Files]
  /\ graph \in [Procs -> [Files -> Versions]]
  /\ origin \in [Procs -> Configs]
  /\ during \in [Procs -> [Files -> SUBSET Versions]]
  /\ \A p \in Procs : /\ listed[p] \subseteq InGraph[config[p]]
                      /\ pc[p] \in {"idle", "sign"} => listed[p] = {}

(***************************************************************************)
(* The project as the tests of load_project set it up: some files exist,   *)
(* nothing is cached and no process runs.                                  *)
(***************************************************************************)
Init ==
  /\ disk \in [Files -> {0, 1}]
  /\ clock = 1
  /\ faults = 0
  /\ cacheFile = "missing"
  /\ \E c \in Configs :
       /\ entry = [graph |-> Nothing, sigs |-> Nothing, by |-> c]
       /\ config = [p \in Procs |-> c]
       /\ origin = [p \in Procs |-> c]
  /\ gitignored = FALSE
  /\ pc = [p \in Procs |-> "idle"]
  /\ seen = [p \in Procs |-> {}]
  /\ sigs = [p \in Procs |-> Nothing]
  /\ listed = [p \in Procs |-> {}]
  /\ graph = [p \in Procs |-> Nothing]
  /\ during = [p \in Procs |-> [f \in Files |-> {}]]

(* The content of .archetype_cache is gone.                                *)
NoEntry == [graph |-> Nothing, sigs |-> Nothing, by |-> entry.by]

Goto(p, step) == pc' = [pc EXCEPT ![p] = step]

(* The locals of a process before it runs, and again once it has ended.    *)
Ended(p) ==
  /\ Goto(p, "idle")
  /\ seen' = [seen EXCEPT ![p] = {}]
  /\ sigs' = [sigs EXCEPT ![p] = Nothing]
  /\ listed' = [listed EXCEPT ![p] = {}]
  /\ graph' = [graph EXCEPT ![p] = Nothing]
  /\ during' = [during EXCEPT ![p] = [f \in Files |-> {}]]
  /\ UNCHANGED <<config, origin>>

(* load_project is called: --no-cache builds at once, without signatures.  *)
Start(p) ==
  /\ pc[p] = "idle"
  /\ \E c \in Configs :
       /\ config' = [config EXCEPT ![p] = c]
       /\ origin' = [origin EXCEPT ![p] = c]
       /\ Goto(p, IF c.cache THEN "sign" ELSE "list")
  /\ during' = [during EXCEPT ![p] = [f \in Files |-> {disk[f]}]]
  /\ UNCHANGED <<diskVars, cacheVars, seen, sigs, listed, graph>>

(* compute_file_signatures reaches f in its scan and records its mtime.    *)
SignFile(p, f) ==
  /\ pc[p] = "sign"
  /\ f \notin seen[p]
  /\ seen' = [seen EXCEPT ![p] = @ \cup {f}]
  /\ sigs' = IF f \in Signed[config[p].excl]
             THEN [sigs EXCEPT ![p][f] = disk[f]]
             ELSE sigs
  /\ UNCHANGED <<diskVars, cacheVars, pc, config, listed, graph, origin, during>>

(* Faulty: the cache is used whatever its signatures are.                  *)
CacheValidUnsigned(p) ==
  /\ cacheFile = "whole"
  /\ entry.by.excl = config[p].excl

(***************************************************************************)
(* is_cache_valid on what load_cached_graph returned.  The signature map   *)
(* holds the file mtimes and one marker per exclude pattern; an unreadable *)
(* file reads as no cache.                                                 *)
(***************************************************************************)
CacheValid(p) ==
  /\ cacheFile = "whole"
  /\ entry.sigs = sigs[p]
  /\ entry.by.excl = config[p].excl

CacheHit(p) ==
  /\ pc[p] = "sign" /\ seen[p] = Files
  /\ CacheValid(p)
  /\ graph' = [graph EXCEPT ![p] = entry.graph]
  /\ origin' = [origin EXCEPT ![p] = entry.by]
  /\ seen' = [seen EXCEPT ![p] = {}]
  /\ Goto(p, "done")
  /\ UNCHANGED <<diskVars, cacheVars, config, sigs, listed, during>>

CacheMiss(p) ==
  /\ pc[p] = "sign" /\ seen[p] = Files
  /\ ~CacheValid(p)
  /\ seen' = [seen EXCEPT ![p] = {}]
  /\ Goto(p, "list")
  /\ UNCHANGED <<diskVars, cacheVars, config, sigs, listed, graph, origin, during>>

(* Faulty: the scan of the build forgets the excludes.                     *)
ListFileUnfiltered(p, f) ==
  /\ pc[p] = "list"
  /\ f \notin seen[p]
  /\ seen' = [seen EXCEPT ![p] = @ \cup {f}]
  /\ listed' = IF disk[f] # 0 THEN [listed EXCEPT ![p] = @ \cup {f}] ELSE listed
  /\ UNCHANGED <<diskVars, cacheVars, pc, config, sigs, graph, origin, during>>

(* build_import_graph collects its files first ...                         *)
ListFile(p, f) ==
  /\ pc[p] = "list"
  /\ f \notin seen[p]
  /\ seen' = [seen EXCEPT ![p] = @ \cup {f}]
  /\ listed' = IF f \in InGraph[config[p]] /\ disk[f] # 0
               THEN [listed EXCEPT ![p] = @ \cup {f}]
               ELSE listed
  /\ UNCHANGED <<diskVars, cacheVars, pc, config, sigs, graph, origin, during>>

(* ... and then reads them one at a time ...                               *)
ReadFile(p, f) ==
  /\ pc[p] = "list" /\ seen[p] = Files
  /\ f \in listed[p] /\ graph[p][f] = 0
  /\ disk[f] # 0
  /\ graph' = [graph EXCEPT ![p][f] = disk[f]]
  /\ UNCHANGED <<diskVars, cacheVars, pc, config, seen, sigs, listed, origin, during>>

(* ... and a listed file that is gone raises out of load_project.          *)
ReadVanished(p, f) ==
  /\ pc[p] = "list" /\ seen[p] = Files
  /\ f \in listed[p] /\ graph[p][f] = 0
  /\ disk[f] = 0
  /\ Ended(p)
  /\ UNCHANGED <<diskVars, cacheVars>>

EndBuild(p) ==
  /\ pc[p] = "list" /\ seen[p] = Files
  /\ \A f \in listed[p] : graph[p][f] # 0
  /\ seen' = [seen EXCEPT ![p] = {}]
  /\ listed' = [listed EXCEPT ![p] = {}]
  /\ Goto(p, IF config[p].cache THEN "save" ELSE "done")
  /\ UNCHANGED <<diskVars, cacheVars, config, sigs, graph, origin, during>>

(* save_cached_graph: write_bytes truncates the file, then fills it.       *)
OpenCache(p) ==
  /\ pc[p] = "save"
  /\ cacheFile' = "torn"
  /\ entry' = NoEntry
  /\ Goto(p, "write")
  /\ UNCHANGED <<diskVars, gitignored, config, seen, sigs, listed, graph,
                 origin, during>>

(* Faulty: the signatures are taken when the build is over.                *)
WriteCacheSignedLate(p) ==
  /\ pc[p] = "write"
  /\ cacheFile' = "whole"
  /\ entry' = [graph |-> graph[p], by |-> config[p],
               sigs |-> [f \in Files |-> IF f \in Signed[config[p].excl] THEN disk[f] ELSE 0]]
  /\ Goto(p, "ignore")
  /\ UNCHANGED <<diskVars, gitignored, config, seen, sigs, listed, graph, origin, during>>

(* Faulty: the signatures are not stored.                                  *)
WriteCacheUnsigned(p) ==
  /\ pc[p] = "write"
  /\ cacheFile' = "whole"
  /\ entry' = [graph |-> graph[p], sigs |-> Nothing, by |-> config[p]]
  /\ Goto(p, "ignore")
  /\ UNCHANGED <<diskVars, gitignored, config, seen, sigs, listed, graph, origin, during>>

WriteCache(p) ==
  /\ pc[p] = "write"
  /\ cacheFile' = "whole"
  /\ entry' = [graph |-> graph[p], sigs |-> sigs[p], by |-> config[p]]
  /\ Goto(p, "ignore")
  /\ UNCHANGED <<diskVars, gitignored, config, seen, sigs, listed, graph, origin, during>>

(* A save that cannot open or cannot fill the file is given up silently.   *)
SaveFails(p) ==
  /\ pc[p] \in {"save", "write"}
  /\ faults < MaxFaults /\ faults' = faults + 1
  /\ Goto(p, "ignore")
  /\ UNCHANGED <<disk, clock, cacheVars, config, seen, sigs, listed, graph, origin, during>>

(* ensure_gitignore_entry, after a build that was to be cached.            *)
EnsureGitignore(p) ==
  /\ pc[p] = "ignore"
  /\ gitignored' = TRUE
  /\ Goto(p, "done")
  /\ UNCHANGED <<diskVars, cacheFile, entry, config, seen, sigs, listed, graph,
                 origin, during>>

(* The process has used the graph and ends.                                *)
Finish(p) ==
  /\ pc[p] = "done"
  /\ Ended(p)
  /\ UNCHANGED <<diskVars, cacheVars>>

(* The process is killed, a file it parses does not parse, or one is gone  *)
(* between the scan for signatures and the stat of it.                     *)
Crash(p) ==
  /\ pc[p] \in Loading
  /\ faults < MaxFaults /\ faults' = faults + 1
  /\ Ended(p)
  /\ UNCHANGED <<disk, clock, cacheVars>>

(* Each load under way records the versions a file passes through.         *)
Observe(f, version) ==
  during' = [p \in Procs |->
               IF pc[p] \in Loading
               THEN [during[p] EXCEPT ![f] = @ \cup {version}]
               ELSE during[p]]

WriteFile(f) ==
  /\ clock < MaxClock
  /\ clock' = clock + 1
  /\ disk' = [disk EXCEPT ![f] = clock + 1]
  /\ Observe(f, clock + 1)
  /\ UNCHANGED <<faults, cacheVars, pc, config, seen, sigs, listed, graph, origin>>

DeleteFile(f) ==
  /\ f \in Deletable /\ disk[f] # 0
  /\ disk' = [disk EXCEPT ![f] = 0]
  /\ Observe(f, 0)
  /\ UNCHANGED <<clock, faults, cacheVars, pc, config, seen, sigs, listed, graph, origin>>

RemoveCache ==
  /\ cacheFile # "missing"
  /\ faults < MaxFaults /\ faults' = faults + 1
  /\ cacheFile' = "missing"
  /\ entry' = NoEntry
  /\ UNCHANGED <<disk, clock, gitignored, procVars>>

Load(p) ==
  \/ CacheHit(p) \/ CacheMiss(p)
  \/ \E f \in Files : SignFile(p, f)
  \/ \E f \in Files : ListFile(p, f)
  \/ \E f \in Files : ReadFile(p, f)
  \/ \E f \in Files : ReadVanished(p, f)
  \/ EndBuild(p)
  \/ OpenCache(p) \/ WriteCache(p) \/ EnsureGitignore(p)

Environment ==
  \/ \E f \in Files : WriteFile(f) \/ DeleteFile(f)
  \/ RemoveCache

Next ==
  \/ \E p \in Procs : Start(p) \/ Load(p) \/ SaveFails(p) \/ Finish(p) \/ Crash(p)
  \/ Environment

Spec == Init /\ [][Next]_vars

(* A started process is scheduled until its load ends, and checks keep     *)
(* being run.  Faults and edits are never forced to happen.                *)
Fairness == \A p \in Procs : WF_vars(Load(p)) /\ WF_vars(Finish(p)) /\ WF_vars(Start(p))

FairSpec == Spec /\ Fairness

-----------------------------------------------------------------------------
(***************************************************************************)
(* What a load promises.  The graph describes every file as it was at some *)
(* moment of the load, absent files included.                              *)
(***************************************************************************)
Fresh(p, f) == graph[p][f] \in during[p][f]

(* A file the load found absent when it signed the tree, but which may     *)
(* have come and gone while the cached graph was being built.              *)
PossibleGhost(p, f) == config[p].cache /\ f \in Deletable /\ sigs[p][f] = 0

(* Files for which the signature decides: signed, and parsed both by this  *)
(* load's configuration and by the one that built the graph.               *)
Covered(p) == Signed[config[p].excl] \cap InGraph[config[p]] \cap InGraph[origin[p]]

(* The main safety property: a finished load, cached or not, returned no   *)
(* stale file: whatever edits, crashes, torn writes and other processes    *)
(* came between the signing, the build and the save (query.py:84-97).      *)
FreshUnlessGhost ==
  \A p \in Procs : pc[p] = "done" =>
    \A f \in Covered(p) : Fresh(p, f) \/ PossibleGhost(p, f)

(***************************************************************************)
(* The inductive invariant behind the cache.  Take a graph that was built  *)
(* under configuration c after its files were signed, a file f that both   *)
(* cover, the signature s of f and the version v the graph has of f.  If s *)
(* still matches f on disk then so does v; and if a process has signed f   *)
(* with s, then v is something f was since that process started.           *)
(***************************************************************************)
Tracked(f, s) == s # 0 \/ f \notin Deletable

Sound(f, c, s, v) ==
  f \in Signed[c.excl] \cap InGraph[c] /\ Tracked(f, s) =>
    /\ s = disk[f] => v = disk[f]
    /\ \A p \in Procs :
         pc[p] = "sign" /\ f \in seen[p] /\ config[p].excl = c.excl /\ sigs[p][f] = s
           => v \in during[p][f]

(* A build has settled f once it has parsed it or passed it by.            *)
Settled(p, f) ==
  \/ pc[p] \in {"save", "write", "ignore"}
  \/ pc[p] = "list" /\ (graph[p][f] # 0 \/ f \in seen[p] \ listed[p])

EntrySound == cacheFile = "whole" => \A f \in Files : Sound(f, entry.by, entry.sigs[f], entry.graph[f])

BuildsSound ==
  \A p \in Procs, f \in Files :
    Settled(p, f) => Sound(f, config[p], sigs[p][f], graph[p][f])

(* What a load has read so far, it read during the load.                   *)
LoadsObserve ==
  \A p \in Procs, f \in Files :
    /\ pc[p] \in Loading => disk[f] \in during[p][f]
    /\ pc[p] \in Loading \ {"sign"} /\ f \in InGraph[config[p]] /\ Settled(p, f)
         => Fresh(p, f)

(* The locals of a process that has not come to its build, or never will.  *)
LocalsInOrder ==
  /\ \A p \in Procs :
       /\ pc[p] \in {"idle", "sign"} => graph[p] = Nothing
       /\ pc[p] = "idle" => seen[p] = {} /\ sigs[p] = Nothing
       /\ pc[p] = "sign" => config[p].cache
       /\ origin[p].excl = config[p].excl
       /\ pc[p] = "list" =>
            listed[p] \subseteq seen[p] /\ \A f \in Files : graph[p][f] # 0 => f \in listed[p]
  /\ \A f \in Files : entry.sigs[f] <= clock /\ \A p \in Procs : sigs[p][f] <= clock

(* The signatures of one process and the graph it or another process       *)
(* cached agree well enough that every load is fresh: TypeOK and this are  *)
(* preserved by every step, FreshUnlessGhost alone is not.                 *)
CacheInv ==
  EntrySound /\ BuildsSound /\ LoadsObserve /\ LocalsInOrder /\ FreshUnlessGhost

(***************************************************************************)
(* When no file is deleted and the exclude setting alone decides what a    *)
(* graph covers, the cache cannot be observed: the processes behave like   *)
(* those of ProjectLoad, which have none.                                  *)
(***************************************************************************)
CacheBlind ==
  /\ Deletable = {}
  /\ \A c \in Configs :
       /\ InGraph[c] \subseteq Signed[c.excl]
       /\ \A d \in Configs : c.excl = d.excl => InGraph[c] = InGraph[d]

phase == [p \in Procs |-> IF pc[p] \in Loading THEN "loading" ELSE pc[p]]
scope == [p \in Procs |-> InGraph[config[p]]]
result == [p \in Procs |-> IF pc[p] = "done" THEN graph[p] ELSE Nothing]

Uncached == INSTANCE ProjectLoad

(* A project with a cache behaves as one without (query.py:84-102).        *)
CacheTransparent == Uncached!Spec

(* A graph holds only files of the configuration it was loaded under: the  *)
(* analysis root of check and the root of pytest are not mixed up.         *)
OwnRootOnly ==
  \A p \in Procs : pc[p] = "done" =>
    \A f \in Files : graph[p][f] # 0 => f \in InGraph[config[p]]

(***************************************************************************)
(* However processes tear and overwrite the cache, it is time and again    *)
(* whole and in step with the project once edits end: an old or torn cache *)
(* is never stuck.  It may not stay so: a process that reads the cache     *)
(* while another is filling it misses, and its own save tears it for the   *)
(* next one.                                                               *)
(***************************************************************************)
Signature(x) == [f \in Files |-> IF f \in Signed[x] THEN disk[f] ELSE 0]

Warm == /\ cacheFile = "whole"
        /\ entry.sigs = Signature(entry.by.excl)

CacheRecovers == []<>Warm
=============================================================================
