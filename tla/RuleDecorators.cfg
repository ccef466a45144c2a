CONSTANTS
  v1 = v1
  v2 = v2
  n1 = n1
  Violations = {v1, v2}
  Notes = {n1}
  Decorators <- AllDecorators
  MaxDepth = 3
  LastDay = 2
SPECIFICATION Spec
INVARIANTS ViolationsAccounted EscalationOnSchedule OnceFailingStaysFailing UnmatchedPatternsShown PytestAgrees
CHECK_DEADLOCK FALSE
