-------------------------- MODULE MCPytestSession --------------------------
(* Three files of a monorepo.  A script has a rule of its own, the pack    *)
(* imported, used or neither, before or after its rule, a rule that has    *)
(* the name of one of the pack's, or two rules of one name.                *)
EXTENDS PytestSession, TLC

CONSTANTS f1, f2, f3, own, base, strict

Own == [op |-> "rule", name |-> own]
Clashing == [op |-> "rule", name |-> strict]
Import == [op |-> "import"]
Use == [op |-> "use"]

MCPack == <<base, strict>>

MCScripts ==
  {<<Own>>, <<Own, Own>>, <<Import, Own>>, <<Import, Use>>, <<Own, Import, Use>>,
   <<Import, Use, Own, Use>>, <<Import, Clashing>>, <<Clashing>>, <<Clashing, Import, Use>>}

Symmetry == Permutations(Files)
=============================================================================
