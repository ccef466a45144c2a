CONSTANTS
  f1 = f1
  f2 = f2
  Files = {f1, f2}
  Procs = {p1}
  Excludes = {"none"}
  Configs <- TwoRootConfigs
  Signed <- PlainSigned
  InGraph <- TwoRootInGraph
  Deletable = {}
  MaxClock = 2
  MaxFaults = 0
SPECIFICATION Spec
INVARIANT OwnRootOnly
CHECK_DEADLOCK FALSE
