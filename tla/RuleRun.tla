------------------------------ MODULE RuleRun ------------------------------
(***************************************************************************)
(* What RuleRegistry.run_all promises its callers (archetype/rule.py),     *)
(* whatever pool of threads runs the rules: each rule gets one of the      *)
(* results its own code, policy and timeout allow, once; run_all returns   *)
(* only when every rule has one, and raises only if a rule does.           *)
(***************************************************************************)
EXTENDS Naturals

CONSTANTS
  Ids,       \* positions of the registered rules
  Pending,   \* no result yet
  Verdicts,  \* Verdicts[i]: the results rule i may get
  Raising    \* rules that may end in something other than an Exception

VARIABLES
  results,   \* results[i]: the RuleResult of rule i
  run        \* "running", "returned" or "raised"

Init ==
  /\ results = [i \in Ids |-> Pending]
  /\ run = "running"

Report(i) ==
  /\ run = "running"
  /\ results[i] = Pending
  /\ \E r \in Verdicts[i] : results' = [results EXCEPT ![i] = r]
  /\ UNCHANGED run

Return ==
  /\ run = "running"
  /\ \A i \in Ids : results[i] # Pending
  /\ run' = "returned"
  /\ UNCHANGED results

Raise ==
  /\ run = "running"
  /\ \E i \in Raising : results[i] = Pending
  /\ run' = "raised"
  /\ UNCHANGED results

Next == (\E i \in Ids : Report(i)) \/ Return \/ Raise

Spec == Init /\ [][Next]_<<results, run>>
=============================================================================
