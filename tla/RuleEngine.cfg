CONSTANTS
  w1 = w1
  w2 = w2
  n1 = n1
  n2 = n2
  v1 = v1
  Pending = Pending
  Violations = {v1}
  Notes = {n1, n2}
  Workers = {w1, w2}
  Pools <- MCPools
  Rules <- MCRules
SPECIFICATION FairSpec
INVARIANTS TypeOK EngineInv OwnDiagnostics
PROPERTIES KeepsPromise RunEnds
