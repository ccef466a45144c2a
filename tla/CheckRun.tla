------------------------------ MODULE CheckRun ------------------------------
(***************************************************************************)
(* archetype check after the rules have run (archetype/check.py), with the *)
(* baseline of archetype/baseline.py, the changed-files scope, the exit    *)
(* code and the reports.  Several checks of one project run at once and    *)
(* share the baseline file, which is rewritten in place; each sees the     *)
(* code, and later the git diff, as it finds them.                         *)
(***************************************************************************)
EXTENDS Reports

CONSTANTS
  Procs,        \* archetype check processes
  Rules,        \* the rules of architecture.py
  PolicyOf,     \* PolicyOf[r]: the policy of rule r in archetype.toml
  Evaluations,  \* the results run_all may have, by rule: [Rules -> Outcome]
  Exiting,      \* exit codes of rules that call sys.exit
  Keys,         \* baseline keys: rule, group, date, module, file, line, message
  KeyOf,        \* KeyOf[v]: the key of violation v
  Diffs,        \* the sets of violations that may be in changed files
  OwnRepo,      \* the project root is the root of its git repository
  MaxFaults     \* bound on crashes, failed writes, failed git calls and removals

ASSUME EvaluationAssumption ==
  /\ IsFiniteSet(Violations) /\ IsFiniteSet(Rules)
  /\ Evaluations \subseteq [Rules -> Outcome] /\ Evaluations # {}
  /\ \A e \in Evaluations, r \in Rules :
       /\ IsVerdict(e[r], PolicyOf[r])
       /\ \A s \in Rules \ {r} :
            {KeyOf[v] : v \in e[r].found} \cap {KeyOf[v] : v \in e[s].found} = {}
  /\ PolicyOf \in [Rules -> Policies]
  /\ KeyOf \in [Violations -> Keys] /\ Diffs \subseteq SUBSET Violations
  /\ Exiting \subseteq {0, 1} /\ OwnRepo \in BOOLEAN /\ MaxFaults \in Nat

VARIABLES
  faults,     \* how many faults have happened
  baseline,   \* the baseline file: "missing", "torn" or "whole"
  counts,     \* what a whole baseline file holds, as a bag of keys
  pc,         \* where each process is in check
  options,    \* its --write-baseline, --baseline and --changed-from
  evaluated,  \* its results as run_all returned them
  results,    \* its results now
  loaded,     \* the baseline it has loaded
  changed,    \* the violations in files that differ from its git ref
  exit        \* its exit code, 3 before it has one

file == <<baseline, counts>>
locals == <<options, evaluated, results, loaded, changed>>
vars == <<faults, file, pc, locals, exit>>

Options == [write : BOOLEAN, baseline : BOOLEAN, changed : BOOLEAN]
Bags == [Keys -> 0 .. Cardinality(Violations)]
EmptyBag == [k \in Keys |-> 0]

Steps == {"write", "fill", "load", "scope", "exit"}

TypeOK ==
  /\ faults \in 0 .. MaxFaults
  /\ baseline \in {"missing", "torn", "whole"}
  /\ counts \in Bags
  /\ pc \in [Procs -> Steps \cup {"idle", "done", "quit"}]
  /\ options \in [Procs -> Options]
  /\ evaluated \in [Procs -> Evaluations]
  /\ results \in [Procs -> [Rules -> Outcome]]
  /\ loaded \in [Procs -> Bags]
  /\ changed \in [Procs -> SUBSET Violations]
  /\ exit \in [Procs -> {0, 1, 3}]

(* The locals of a process that is not running.                            *)
NoOptions == [write |-> FALSE, baseline |-> FALSE, changed |-> FALSE]
AnEvaluation == CHOOSE e \in Evaluations : TRUE

Init ==
  /\ faults = 0
  /\ baseline = "missing"
  /\ counts = EmptyBag
  /\ pc = [p \in Procs |-> "idle"]
  /\ options = [p \in Procs |-> NoOptions]
  /\ evaluated = [p \in Procs |-> AnEvaluation]
  /\ results = [p \in Procs |-> AnEvaluation]
  /\ loaded = [p \in Procs |-> EmptyBag]
  /\ changed = [p \in Procs |-> Violations]
  /\ exit = [p \in Procs |-> 3]

Goto(p, step) == pc' = [pc EXCEPT ![p] = step]

Ended(p) ==
  /\ Goto(p, "idle")
  /\ options' = [options EXCEPT ![p] = NoOptions]
  /\ evaluated' = [evaluated EXCEPT ![p] = AnEvaluation]
  /\ results' = [results EXCEPT ![p] = AnEvaluation]
  /\ loaded' = [loaded EXCEPT ![p] = EmptyBag]
  /\ changed' = [changed EXCEPT ![p] = Violations]
  /\ exit' = [exit EXCEPT ![p] = 3]

(* The steps check still has to take, by its options.                      *)
AfterLoad(o) == IF o.changed THEN "scope" ELSE "exit"
AfterWrite(o) == IF o.baseline THEN "load" ELSE AfterLoad(o)
AfterRules(o) == IF o.write THEN "write" ELSE AfterWrite(o)

(* raise SystemExit(status): after the report, or "quit" without one.      *)
ExitFrom(p, step, status) ==
  /\ Goto(p, step)
  /\ exit' = [exit EXCEPT ![p] = status]

Exit(p, status) == ExitFrom(p, "done", status)

(* The rules have run, with these results.                                 *)
RulesRan(p, e) ==
  /\ pc[p] = "idle"
  /\ evaluated' = [evaluated EXCEPT ![p] = e]
  /\ results' = [results EXCEPT ![p] = e]
  /\ UNCHANGED <<faults, file, loaded, changed>>

(* click refuses a --baseline that does not exist before check starts.     *)
RunRules(p) ==
  /\ \E e \in Evaluations : RulesRan(p, e)
  /\ \E o \in Options :
       /\ o.baseline => baseline # "missing"
       /\ options' = [options EXCEPT ![p] = o]
       /\ Goto(p, AfterRules(o))
  /\ UNCHANGED exit

(* A rule calls sys.exit: _run_entry does not catch it, nor does check,    *)
(* and the results of the other rules are lost.                            *)
RuleExits(p) ==
  /\ \E e \in Evaluations : RulesRan(p, e)
  /\ \E status \in Exiting : ExitFrom(p, "quit", status)
  /\ UNCHANGED options

-----------------------------------------------------------------------------
Occurrences(vs, k) == Cardinality({v \in vs : KeyOf[v] = k})

(* Faulty: equal violations are written once.                              *)
BaselineOfDistinct(rs) ==
  [k \in Keys |-> IF \E r \in Rules : Counts(rs[r]) /\ \E v \in rs[r].found : KeyOf[v] = k
                  THEN 1 ELSE 0]

(* build_baseline_payload, read back by load_baseline.                     *)
BaselineOf(rs) ==
  [k \in Keys |-> Occurrences(UNION {rs[r].found : r \in {s \in Rules : Counts(rs[s])}}, k)]

(* write_baseline: write_text truncates the file and then fills it.        *)
OpenBaseline(p) ==
  /\ pc[p] = "write"
  /\ baseline' = "torn"
  /\ counts' = EmptyBag
  /\ Goto(p, "fill")
  /\ UNCHANGED <<faults, locals, exit>>

(* Faulty: the file is opened to append.                                   *)
FillBaselineAppending(p) ==
  /\ pc[p] = "fill"
  /\ baseline' = "whole"
  /\ counts' = [k \in Keys |-> counts[k] + BaselineOf(results[p])[k]]
  /\ Goto(p, AfterWrite(options[p]))
  /\ UNCHANGED <<faults, locals, exit>>

(* A file that another process has filled in the meantime keeps its tail,  *)
(* if that was longer: no JSON document.                                   *)
FillBaseline(p) ==
  /\ pc[p] = "fill"
  /\ \/ baseline' = "whole" /\ counts' = BaselineOf(results[p])
     \/ baseline = "whole" /\ baseline' = "torn" /\ counts' = EmptyBag
  /\ Goto(p, AfterWrite(options[p]))
  /\ UNCHANGED <<faults, locals, exit>>

WriteFails(p) ==
  /\ pc[p] \in {"write", "fill"}
  /\ faults < MaxFaults /\ faults' = faults + 1
  /\ ExitFrom(p, "quit", 1)
  /\ UNCHANGED <<file, locals>>

-----------------------------------------------------------------------------
(* Faulty: a warning whose last violation is gone stays a warning.         *)
WithViolationsStillWarned(r, found, hidden) ==
  IF found = {}
  THEN [r EXCEPT !.found = {}, !.hidden = hidden, !.passed = TRUE]
  ELSE [r EXCEPT !.found = found, !.hidden = hidden]

(* A result that has lost its last violation passes.                       *)
WithViolations(r, found, hidden) ==
  IF found = {}
  THEN [r EXCEPT !.found = {}, !.hidden = hidden, !.passed = TRUE, !.warned = FALSE]
  ELSE [r EXCEPT !.found = found, !.hidden = hidden]

(* Faulty: an entry of the baseline suppresses all violations of its key.  *)
SuppressedByKey(r, bag) == {{v \in r.found : bag[KeyOf[v]] > 0}}

(* The violations of r that the baseline suppresses: as many of each key   *)
(* as it counts, the first in the list; the others stay.                   *)
Suppressed(r, bag) ==
  {h \in SUBSET r.found :
     \A k \in Keys : Occurrences(h, k) = IF Occurrences(r.found, k) <= bag[k]
                                         THEN Occurrences(r.found, k)
                                         ELSE bag[k]}

(* apply_baseline, for one result.                                         *)
Baselined(r, bag) ==
  IF Counts(r) /\ r.found # {}
  THEN {WithViolations(r, r.found \ h, r.hidden \cup h) : h \in Suppressed(r, bag)}
  ELSE {r}

LoadBaseline(p) ==
  /\ pc[p] = "load" /\ baseline = "whole"
  /\ loaded' = [loaded EXCEPT ![p] = counts]
  /\ \E rs \in [Rules -> UNION {Baselined(results[p][r], counts) : r \in Rules}] :
       /\ \A r \in Rules : rs[r] \in Baselined(results[p][r], counts)
       /\ results' = [results EXCEPT ![p] = rs]
  /\ Goto(p, AfterLoad(options[p]))
  /\ UNCHANGED <<faults, file, options, evaluated, changed, exit>>

(* A baseline that is missing or is no JSON document.                      *)
LoadFails(p) ==
  /\ pc[p] = "load" /\ baseline # "whole"
  /\ ExitFrom(p, "quit", 1)
  /\ UNCHANGED <<faults, file, locals>>

(* get_files_changed_from joins the paths that git diff gives, which start *)
(* at the root of the repository, to the root of the project.              *)
ChangedFrom(differing) == IF OwnRepo THEN differing ELSE {}

(* Faulty: results without violations are scoped too.                      *)
ScopedUnguarded(r, files) == WithViolations(r, r.found \cap files, r.hidden \cap files)

(* _scope_results_to_changed_files, for one result.                        *)
Scoped(r, files) ==
  IF Counts(r) /\ (r.found # {} \/ r.hidden # {})
  THEN WithViolations(r, r.found \cap files, r.hidden \cap files)
  ELSE r

ScopeToChanged(p) ==
  /\ pc[p] = "scope"
  /\ \E differing \in Diffs :
       /\ changed' = [changed EXCEPT ![p] = differing]
       /\ results' = [results EXCEPT ![p] =
                        [r \in Rules |-> Scoped(results[p][r], ChangedFrom(differing))]]
  /\ Goto(p, "exit")
  /\ UNCHANGED <<faults, file, options, evaluated, loaded, exit>>

GitFails(p) ==
  /\ pc[p] = "scope"
  /\ faults < MaxFaults /\ faults' = faults + 1
  /\ ExitFrom(p, "quit", 1)
  /\ UNCHANGED <<file, locals>>

(* The exit code of a check that has come to its report.                   *)
ReportAndExit(p) ==
  /\ pc[p] = "exit"
  /\ Exit(p, IF \E r \in Rules : Fails(results[p][r]) THEN 1 ELSE 0)
  /\ UNCHANGED <<faults, file, locals>>

Finish(p) ==
  /\ pc[p] \in {"done", "quit"}
  /\ Ended(p)
  /\ UNCHANGED <<faults, file>>

(* The process is killed.                                                  *)
Crash(p) ==
  /\ pc[p] \in Steps
  /\ faults < MaxFaults /\ faults' = faults + 1
  /\ Ended(p)
  /\ UNCHANGED file

RemoveBaseline ==
  /\ baseline # "missing"
  /\ faults < MaxFaults /\ faults' = faults + 1
  /\ baseline' = "missing"
  /\ counts' = EmptyBag
  /\ UNCHANGED <<pc, locals, exit>>

Next ==
  \/ \E p \in Procs :
       \/ RunRules(p) \/ RuleExits(p)
       \/ OpenBaseline(p) \/ FillBaseline(p) \/ WriteFails(p)
       \/ LoadBaseline(p) \/ LoadFails(p)
       \/ ScopeToChanged(p) \/ GitFails(p)
       \/ ReportAndExit(p)
       \/ Finish(p) \/ Crash(p)
  \/ RemoveBaseline

Spec == Init /\ [][Next]_vars

-----------------------------------------------------------------------------
(* The check has its final results: it did not stop on an I/O failure.     *)
Concluded(p) == pc[p] = "exit"

Hidden(p) == UNION {results[p][r].hidden : r \in Rules}

(* A violation that run_all returned is reported, or suppressed by the     *)
(* baseline, or in a file that has not changed, and whatever is suppressed *)
(* the baseline counts: one entry pays for one violation of its key        *)
(* (baseline.py:150-186, check.py:138-172).                                *)
ViolationsAccounted ==
  \A p \in Procs : Concluded(p) =>
    /\ \A r \in Rules : \A v \in evaluated[p][r].found :
         \/ v \in results[p][r].found \cup results[p][r].hidden
         \/ v \notin ChangedFrom(changed[p])
    /\ \A k \in Keys : Occurrences(Hidden(p), k) <= loaded[p][k]

(* A check that comes to its report and exits 0 failed no rule but those   *)
(* whose violations are all in the baseline or in unchanged files: no      *)
(* error, no timeout and no rule that failed without naming a violation is *)
(* excused (check.py:458-512).                                             *)
ExcusedBy(p, r) ==
  /\ Counts(r) /\ ~r.timedOut /\ r.found # {}
  /\ \A v \in r.found :
       \/ options[p].baseline /\ loaded[p][KeyOf[v]] > 0
       \/ options[p].changed /\ v \notin ChangedFrom(changed[p])

ExitZeroJustified ==
  \A p \in Procs : pc[p] = "done" /\ exit[p] = 0 =>
    \A r \in Rules : Fails(evaluated[p][r]) => ExcusedBy(p, evaluated[p][r])

(* Whatever other checks do to the file, a check that loads a baseline     *)
(* loads all of one that some check wrote, or fails (baseline.py:85-147).  *)
WholeBaselinesOnly ==
  \A p \in Procs : loaded[p] # EmptyBag => \E e \in Evaluations : loaded[p] = BaselineOf(e)

(* Adopting a baseline: against a baseline written from the same results   *)
(* no violation is new, warnings and duplicates included (usage.md:214).   *)
AdoptionIsClean ==
  \A p \in Procs :
    Concluded(p) /\ options[p].baseline /\ loaded[p] = BaselineOf(evaluated[p]) =>
      \A r \in Rules : Counts(results[p][r]) => results[p][r].found = {}

(* The formats agree with one another and with the exit code, whatever the *)
(* baseline and the scope did to the results: every new violation, and no  *)
(* other, is in text, also if quiet, in JSON, in SARIF and in the          *)
(* annotations, at one level; the number of rules with a failed status is  *)
(* that in the summary; and the exit code is 1 if and only if a status is  *)
(* failed or timeout (reporter.py:175-204, 268-318, 353-358, 471-492,      *)
(* 533-566; trend.py:34-63; check.py:175-183, 458-512).                    *)
ReportsAgree ==
  \A p \in Procs : pc[p] = "done" =>
    LET rs == results[p]
        status(r) == Status(rs[r], PolicyOf[r])
        summary == Summary(rs)
    IN  /\ JsonViolations(rs) = NewViolations(rs)
        /\ \A quiet \in BOOLEAN : TextViolations(rs, quiet) = NewViolations(rs)
        /\ NewViolations(rs) \cap HiddenViolations(rs) = {}
        /\ SarifResults(rs, PolicyOf) = Annotations(rs)
        /\ {<<a[1], a[2]>> : a \in Annotations(rs)} = NewViolations(rs)
        /\ summary.others <= summary.total
        /\ Failed(summary) = Cardinality({r \in Rules : status(r) = "failed"})
        /\ exit[p] = 1 <=> \E r \in Rules : status(r) \in {"failed", "timeout"}
        /\ \/ \E a \in Annotations(rs) : a[3] = "error"
           \/ \E a \in RuleErrors(rs) : a[2] = "error"
           => exit[p] = 1

-----------------------------------------------------------------------------
(* The inductive invariant.  Of each result: what a process has made, q,   *)
(* of the result e that run_all returned, with its options, the baseline   *)
(* it has loaded and the changed files, whatever steps it has taken.       *)
Kept(e, q, o, bag, files) ==
  /\ q.found \cap q.hidden = {} /\ q.found \cup q.hidden \subseteq e.found
  /\ q.skipped = e.skipped /\ q.timedOut = e.timedOut /\ q.errored = e.errored
  /\ \/ q.passed = e.passed /\ q.warned = e.warned
     \/ q.found = {} /\ e.found # {} /\ q.passed /\ ~q.warned
  /\ q.hidden # {} => o.baseline
  /\ \A k \in Keys : Occurrences(q.hidden, k) <= bag[k]
  /\ \A v \in e.found \ (q.found \cup q.hidden) : o.changed /\ v \notin files

ResultKept(p, r) ==
  Kept(evaluated[p][r], results[p][r], options[p], loaded[p], ChangedFrom(changed[p]))

(* Of each process: the steps it has behind it.                            *)
ResultsKept(p) ==
  /\ \A r \in Rules : ResultKept(p, r)
  /\ pc[p] \in {"write", "fill", "load"} => results[p] = evaluated[p]
  /\ pc[p] = "load" => options[p].baseline
  /\ pc[p] = "scope" => /\ options[p].changed
                        /\ \A r \in Rules : evaluated[p][r].found
                                            = results[p][r].found \cup results[p][r].hidden
  /\ /\ pc[p] \in {"scope", "exit"} /\ options[p].baseline
     /\ loaded[p] = BaselineOf(evaluated[p])
     => \A r \in Rules : Counts(results[p][r]) => results[p][r].found = {}
  /\ pc[p] = "done" => exit[p] = (IF \E r \in Rules : Fails(results[p][r]) THEN 1 ELSE 0)

(* Of the file: what it holds some check has written from raw results.     *)
Written(bag) == bag = EmptyBag \/ \E e \in Evaluations : bag = BaselineOf(e)

CheckInv ==
  /\ TypeOK
  /\ \A p \in Procs : ResultsKept(p)
  /\ Written(counts) /\ \A p \in Procs : Written(loaded[p])

-----------------------------------------------------------------------------
(* "Report only violations in Python files changed from a Git ref"         *)
(* (usage.md:21), and those it does report.                                *)
ChangedFilesReported ==
  \A p \in Procs : Concluded(p) /\ ~options[p].baseline =>
    \A r \in Rules : evaluated[p][r].found \cap changed[p] \subseteq results[p][r].found
=============================================================================
