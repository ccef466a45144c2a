CONSTANTS
  p1 = p1
  p2 = p2
  a1 = a1
  a2 = a2
  b1 = b1
  c1 = c1
  n1 = n1
  ka = ka
  kb = kb
  kc = kc
  Procs = {p1}
  Rules = {"direct", "leaky", "slow"}
  Violations = {a1, a2, b1, c1}
  Notes = {n1}
  Keys = {ka, kb, kc}
  KeyOf <- MCKeyOf
  PolicyOf <- MCPolicyOf
  Evaluations <- MCEvaluations
  Exiting = {0}
  Diffs <- MCDiffs
  OwnRepo = FALSE
  MaxFaults = 0
SPECIFICATION Spec
INVARIANT ChangedFilesReported
