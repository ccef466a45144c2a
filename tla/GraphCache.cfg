CONSTANTS
  f1 = f1
  f2 = f2
  Files = {f1, f2}
  Procs = {p1, p2}
  Excludes = {"none", "f2"}
  Configs <- MixedConfigs
  Signed <- MixedSigned
  InGraph <- MixedInGraph
  Deletable = {f2}
  MaxClock = 2
  MaxFaults = 1
CHECK_DEADLOCK FALSE
SPECIFICATION Spec
INVARIANTS TypeOK CacheInv FreshUnlessGhost
SYMMETRY ProcSymmetry
