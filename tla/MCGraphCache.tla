---------------------------- MODULE MCGraphCache ----------------------------
(* Small projects for GraphCache: which files exist, which of them the     *)
(* signatures cover and which of them each configuration's graph parses.   *)
EXTENDS GraphCache, TLC

CONSTANTS f1, f2

(* Two processes that load the project are interchangeable.                *)
ProcSymmetry == Permutations(Procs)

(* One analysis root, cached: every run of archetype check on a flat       *)
(* project without excludes.                                               *)
PlainConfig == [root |-> "project", excl |-> "none", cache |-> TRUE]
PlainConfigs == {PlainConfig}
PlainInGraph == [c \in PlainConfigs |-> Files]
PlainSigned == [x \in {"none"} |-> Files]

(* A second setting that excludes f2, and --no-cache.                      *)
MixedConfigs ==
  {PlainConfig,
   [root |-> "project", excl |-> "f2", cache |-> TRUE],
   [root |-> "project", excl |-> "none", cache |-> FALSE]}
MixedSigned == [x \in {"none", "f2"} |-> IF x = "f2" THEN {f1} ELSE Files]
MixedInGraph == [c \in MixedConfigs |-> MixedSigned[c.excl]]

(* A src layout: check analyses src, pytest analyses the project root and  *)
(* so parses f2, a file outside src, as well.                              *)
TwoRootConfigs ==
  {[root |-> "src", excl |-> "none", cache |-> TRUE],
   [root |-> "project", excl |-> "none", cache |-> TRUE]}
TwoRootInGraph == [c \in TwoRootConfigs |-> IF c.root = "src" THEN {f1} ELSE Files]
=============================================================================
