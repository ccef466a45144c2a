CONSTANTS
  f1 = f1
  f2 = f2
  Files = {f1, f2}
  Procs = {p1, p2}
  Excludes = {"none"}
  Configs <- PlainConfigs
  Signed <- PlainSigned
  InGraph <- PlainInGraph
  Deletable = {}
  MaxClock = 3
  MaxFaults = 1
CHECK_DEADLOCK FALSE
SPECIFICATION FairSpec
PROPERTIES CacheTransparent CacheRecovers
