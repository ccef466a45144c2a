---------------------------- MODULE MCRuleEngine ----------------------------
(* Five rules and two kinds of unmatched pattern: one with a timeout that  *)
(* passes over both and fails, one that passes over one, one that may call *)
(* sys.exit under a timeout, one that is skipped, and one whose policy is  *)
(* warning and that errors or exits.  They run in one thread or in two.    *)
EXTENDS RuleEngine, TLC

CONSTANTS w1, w2, n1, n2, v1

Untimed(outcome, notes) ==
  [timed |-> FALSE, called |-> TRUE, policy |-> "error", notes |-> notes,
   outcome |-> outcome, exits |-> FALSE]

Timed(outcome, notes) == [Untimed(outcome, notes) EXCEPT !.timed = TRUE]

MCRules ==
  <<Timed(RaisedAssertion({v1}), {n1, n2}),
    Untimed(ReturnedNone, {n1}),
    [Timed([PassedResult EXCEPT !.passed = FALSE, !.warned = TRUE], {}) EXCEPT !.exits = TRUE],
    [Untimed(ReturnedNone, {}) EXCEPT !.called = FALSE],
    [Untimed(RaisedError, {n2}) EXCEPT !.policy = "warning", !.exits = TRUE]>>

MCPools == {{w1}, {w1, w2}}
=============================================================================
