----------------------------- MODULE MCCheckRun -----------------------------
(* Three rules and four versions of the code.  The rule "direct" finds up  *)
(* to two violations that share a key and one that does not; "leaky" is a  *)
(* warning that uses an unmatched pattern and may find a violation or err; *)
(* "slow" may be skipped, time out, error, or fail on a plain assert.      *)
EXTENDS CheckRun, TLC

CONSTANTS p1, p2, a1, a2, b1, c1, n1, ka, kb, kc

MCKeyOf == (a1 :> ka) @@ (a2 :> ka) @@ (b1 :> kb) @@ (c1 :> kc)

MCPolicyOf == [direct |-> "error", leaky |-> "warning", slow |-> "error"]

Evaluation(direct, leaky, slow) ==
  [direct |-> RunEntry(RaisedAssertion(direct), {}, FALSE, "error"),
   leaky |-> RunEntry(leaky, {n1}, FALSE, "warning"),
   slow |-> slow]

MCEvaluations ==
  {Evaluation({a1, a2}, RaisedAssertion({c1}), RunEntry(ReturnedNone, {}, TRUE, "error")),
   Evaluation({a1}, RaisedAssertion({c1}), TimedOutResult),
   Evaluation({a1, b1}, ReturnedNone, RunEntry(RaisedError, {}, FALSE, "error")),
   Evaluation({a1}, RaisedError, RunEntry(RaisedAssertion({}), {}, FALSE, "error"))}

(* Changed files with one of two equal violations, with the warning, none. *)
MCDiffs == {{a1, b1}, {a2, c1}, {}}

Symmetry == Permutations(Procs)
=============================================================================
