------------------------------- MODULE Reports -------------------------------
(***************************************************************************)
(* The reports of a check (archetype/reporter.py) and its trend record     *)
(* (archetype/trend.py): what of the results goes into which format.       *)
(* Operators on the results rs of some rules and the policies of these.    *)
(* Layout, file locations and code owners are left out.                    *)
(***************************************************************************)
EXTENDS RuleResult, Naturals, FiniteSets

(* Flags that a result has together: under this policy, of a rule that     *)
(* returns None, raises, or returns what a decorator does.                 *)
Consistent(r, policy) ==
  /\ r.found # {} => ~r.passed /\ ~r.skipped /\ ~r.errored /\ ~r.timedOut
  /\ r.skipped => r.passed
  /\ r.passed => ~r.warned /\ ~r.timedOut /\ ~r.errored
  /\ r.timedOut => ~r.warned
  /\ policy = "off" => r.skipped
  /\ policy = "warning" /\ ~r.passed /\ ~r.timedOut => r.warned

(* A result as _run_entry has made it: the baseline has hidden nothing.    *)
IsVerdict(r, policy) == r.hidden = {} /\ Consistent(r, policy)

(* Results that carry no violations of the code.                           *)
Counts(r) == ~r.skipped /\ ~r.errored

NumberOf(rs, Class(_)) == Cardinality({n \in DOMAIN rs : Class(rs[n])})

(* The summary line, which JSON and the trend record have too: each class  *)
(* is counted by itself, but for the failed, which are all the others.     *)
Summary(rs) ==
  LET passed == NumberOf(rs, LAMBDA r : r.passed /\ ~r.skipped)
      warned == NumberOf(rs, LAMBDA r : r.warned)
      skipped == NumberOf(rs, LAMBDA r : r.skipped)
      timedOut == NumberOf(rs, LAMBDA r : r.timedOut)
  IN  [ passed |-> passed, warned |-> warned, skipped |-> skipped, timeout |-> timedOut,
        total |-> Cardinality(DOMAIN rs),
        others |-> passed + warned + skipped + timedOut ]

Failed(summary) == summary.total - summary.others

(* _result_status; "off" is that of a policy.                              *)
Status(r, policy) ==
  CASE policy = "off" -> "off"
    [] policy # "off" /\ r.skipped -> "skipped"
    [] policy # "off" /\ ~r.skipped /\ r.timedOut -> "timeout"
    [] policy # "off" /\ ~r.skipped /\ ~r.timedOut ->
         IF r.warned THEN "warned" ELSE IF r.passed THEN "passed" ELSE "failed"

(* _violation_counts, and _count_violations of check.                      *)
NewViolations(rs) == UNION {{n} \X rs[n].found : n \in {m \in DOMAIN rs : Counts(rs[m])}}
HiddenViolations(rs) == UNION {{n} \X rs[n].hidden : n \in {m \in DOMAIN rs : Counts(rs[m])}}

(* format_results_json: the violations under "rules".                      *)
JsonViolations(rs) == UNION {{n} \X rs[n].found : n \in DOMAIN rs}

(* format_results, print_results: quiet leaves out passes and skips; only  *)
(* results that warn or fail list their violations.                        *)
InText(r, quiet) == ~quiet \/ (~r.skipped /\ ~(r.passed /\ ~r.warned))
TextViolations(rs, quiet) ==
  UNION {{n} \X rs[n].found :
           n \in {m \in DOMAIN rs : /\ InText(rs[m], quiet)
                                    /\ ~rs[m].skipped /\ ~rs[m].timedOut
                                    /\ rs[m].warned \/ ~rs[m].passed}}

(* _sarif_level.  A result that did not pass has is_warning set only if it *)
(* is warned.                                                              *)
SarifLevel(r, policy) ==
  IF policy = "off" \/ r.skipped THEN "none"
  ELSE IF r.warned \/ policy = "warning" THEN "warning" ELSE "error"

AnnotationLevel(r) == IF r.warned THEN "warning" ELSE "error"

(* format_results_sarif and format_github_annotations: violations with     *)
(* their levels.                                                           *)
Unfinished(rs) == {n \in DOMAIN rs : ~rs[n].skipped /\ ~rs[n].passed}
SarifResults(rs, policies) ==
  UNION {{n} \X rs[n].found \X {SarifLevel(rs[n], policies[n])} : n \in Unfinished(rs)}
Annotations(rs) ==
  UNION {{n} \X rs[n].found \X {AnnotationLevel(rs[n])} : n \in Unfinished(rs)}

(* What has no violations is annotated only if it is an error.             *)
RuleErrors(rs) ==
  {<<n, AnnotationLevel(rs[n])>> :
     n \in {m \in Unfinished(rs) : rs[m].errored /\ rs[m].found = {}}}
=============================================================================
