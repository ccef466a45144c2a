----------------------------- MODULE RuleResult -----------------------------
(***************************************************************************)
(* The outcome of one call of a rule function and the RuleResult that      *)
(* RuleRegistry._run_entry makes of it (archetype/rule.py, with the        *)
(* dataclass of archetype/analysis/models.py).                             *)
(*                                                                         *)
(* An outcome is one record, whatever the call did: "how" says whether it  *)
(* returned None, returned a RuleResult, raised an AssertionError or       *)
(* raised any other Exception; the fields a given way of ending does not   *)
(* have are at the defaults of the dataclass.  The lists of violations and *)
(* of diagnostic lines are sets, since their order is only shown.          *)
(***************************************************************************)

CONSTANTS
  Violations,  \* the violations rules can find, one per line of a report
  Notes        \* pattern diagnostics: "pattern ... matched 0 modules"

Policies == {"error", "warning", "off"}

Outcome ==
  [how      : {"none", "result", "assert", "error"},
   passed   : BOOLEAN,
   warned   : BOOLEAN,
   skipped  : BOOLEAN,
   timedOut : BOOLEAN,
   errored  : BOOLEAN,
   found    : SUBSET Violations,   \* result.violations
   filtered : SUBSET Violations,   \* result.filtered_violations
   hidden   : SUBSET Violations,   \* result.suppressed_violations
   context  : SUBSET Notes]        \* result.violation_context

(* The rule function returned None: every assertion in it held.            *)
ReturnedNone ==
  [how |-> "none", passed |-> TRUE, warned |-> FALSE, skipped |-> FALSE,
   timedOut |-> FALSE, errored |-> FALSE, found |-> {}, filtered |-> {},
   hidden |-> {}, context |-> {}]

(* RuleResult(passed=...) with every other field at its default.           *)
PassedResult == [ReturnedNone EXCEPT !.how = "result"]
FailedResult == [PassedResult EXCEPT !.passed = FALSE]

SkippedResult == [PassedResult EXCEPT !.skipped = TRUE]

TimedOutResult == [FailedResult EXCEPT !.timedOut = TRUE]

(* raise AssertionError, with .violations when a rule of archetype raised  *)
(* it and without (vs = {}) for a plain assert statement.                  *)
RaisedAssertion(vs) ==
  [ReturnedNone EXCEPT !.how = "assert", !.passed = FALSE, !.found = vs]

RaisedError == [ReturnedNone EXCEPT !.how = "error", !.passed = FALSE]

-----------------------------------------------------------------------------
(* _apply_policy: "warning" softens a result that failed by itself, errors *)
(* of the rule included, but never a timeout.                              *)
ApplyPolicy(r, policy) ==
  IF policy = "warning" /\ ~r.skipped /\ ~r.passed /\ ~r.timedOut
  THEN [r EXCEPT !.warned = TRUE]
  ELSE r

(* with_pattern_diagnostics: a rule that passed over patterns that matched *)
(* nothing becomes a warning.                                              *)
WithPatternDiagnostics(r, notes) ==
  IF notes = {} THEN r
  ELSE IF r.passed /\ ~r.warned
       THEN [r EXCEPT !.context = @ \cup notes, !.passed = FALSE, !.warned = TRUE]
       ELSE [r EXCEPT !.context = @ \cup notes]

(* Faulty: an AssertionError takes only the context it carries.            *)
CallResultWithoutNotes(o, notes) ==
  CASE o.how = "result" -> WithPatternDiagnostics(o, notes)
    [] o.how = "none"   -> WithPatternDiagnostics(PassedResult, notes)
    [] o.how = "assert" -> [FailedResult EXCEPT !.found = o.found,
                                                !.filtered = o.filtered,
                                                !.context = o.context]
    [] o.how = "error"  -> [FailedResult EXCEPT !.errored = TRUE, !.context = notes]

(* The result of a call that has ended: what run_func returned or raised,  *)
(* before the policy.  notes is collected_pattern_diagnostics().           *)
CallResult(o, notes) ==
  CASE o.how = "result" -> WithPatternDiagnostics(o, notes)
    [] o.how = "none"   -> WithPatternDiagnostics(PassedResult, notes)
    [] o.how = "assert" -> [FailedResult EXCEPT !.found = o.found,
                                                !.filtered = o.filtered,
                                                !.context = notes \cup o.context]
    [] o.how = "error"  -> [FailedResult EXCEPT !.errored = TRUE, !.context = notes]

(***************************************************************************)
(* _run_entry for a rule whose function runs to its end: skippedAttr says  *)
(* that a @skip is somewhere in its decorators, o is what calling it does. *)
(***************************************************************************)
RunEntry(o, notes, skippedAttr, policy) ==
  IF policy = "off" \/ skippedAttr
  THEN SkippedResult
  ELSE ApplyPolicy(CallResult(o, notes), policy)

(* check.py counts a result as failed, and exits 1 for it.                 *)
Fails(r) == (~r.passed /\ ~r.warned) \/ r.timedOut

(* A result that shows in the report as more than a pass or a skip.        *)
Reported(r) == ~r.passed \/ r.warned

-----------------------------------------------------------------------------
(* Faulty: a rule that errors fails whatever its policy.                   *)
PytestOutcomeErrorsFail(o, skippedAttr, policy) ==
  IF policy = "off" \/ skippedAttr THEN "skipped"
  ELSE CASE o.how = "error" -> "failed"
         [] o.how = "assert" -> IF policy = "warning" THEN "xfailed" ELSE "failed"
         [] o.how = "none" -> "passed"
         [] o.how = "result" ->
              IF o.skipped THEN "skipped" ELSE IF o.warned THEN "xfailed" ELSE "passed"

(* ArchetypeItem.runtest of the pytest plugin calls the rule itself: no    *)
(* timeout, no diagnostics.  o is what that call returns or raises.        *)
PytestOutcome(o, skippedAttr, policy) ==
  IF policy = "off" \/ skippedAttr THEN "skipped"
  ELSE CASE o.how \in {"assert", "error"} -> IF policy = "warning" THEN "xfailed" ELSE "failed"
         [] o.how = "none" -> "passed"
         [] o.how = "result" ->
              IF o.skipped THEN "skipped"
              ELSE IF o.timedOut THEN "failed"
              ELSE IF (o.warned /\ o.found # {}) \/ (policy = "warning" /\ ~o.passed)
                   THEN "xfailed"
              ELSE "passed"
=============================================================================
