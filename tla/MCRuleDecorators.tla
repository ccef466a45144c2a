-------------------------- MODULE MCRuleDecorators --------------------------
(* Two violations, one of them in a file modified recently, one unmatched  *)
(* pattern, and two deadlines within three days.                           *)
EXTENDS RuleDecorators, TLC

CONSTANTS v1, v2, n1

AllDecorators ==
  {[kind |-> "warn"], [kind |-> "skip"],
   [kind |-> "escalate", until |-> 0], [kind |-> "escalate", until |-> 1],
   [kind |-> "since", recent |-> {}], [kind |-> "since", recent |-> {v1}]}

=============================================================================
