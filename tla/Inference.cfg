CONSTANTS
  Components <- MCComponents
  Slug <- MCSlug
  Candidates <- MCCandidates
  Projects <- MCProjects
  Counts = {1, 3}
  LeakRatio = 3
  MaxBoundaryRules = 2
  MaxLeakRules = 1
SPECIFICATION Spec
INVARIANTS RulesHoldByConstruction FirstCheckGreen LayersAreLongestChain LeaksCloseLoops IndependentIsMaximal CallerUndisturbed
